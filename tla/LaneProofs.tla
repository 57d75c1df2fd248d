----------------------------- MODULE LaneProofs -----------------------------
(***************************************************************************)
(* Theorems about DurableLane, for every set of senders, epochs, sessions  *)
(* and providers, every batch size and every bound.                        *)
(***************************************************************************)
EXTENDS DurableLane, HostProofs, SequenceTheorems, FiniteSetTheorems, WellFoundedInduction

-----------------------------------------------------------------------------
(* The inductive invariant, one part per table.                            *)

Record == [inc : Nat, rewrite : Nat, at : Nat]

Blocks == {"envelope_rejected", "source_epoch_conflict", "source_epoch_conflict_unresolved"}

\* What a sender is doing when it holds an envelope.
Holding == {"candidate", "prepared"}

Waiting == {"posted", "probing", "created", "replay", "conflict", "session_deleted",
            "media_unavailable", "rejected"}

Deciding == {"reconcile", "reexamine"}

Carrying == Holding \cup Waiting \cup Deciding

Manifest == [accepted : Nat, proven : Nat]

SenderState ==
    [pc : {"idle"}]
    \cup [pc : {"scan"}, limit : 1 .. MaxBatch, bound : Sessions \cup {None}]
    \cup [pc : {"observed"}, limit : 1 .. MaxBatch, epoch : Epochs, session : Sessions]
    \cup [pc : Holding, env : Envelope]
    \cup [pc : Waiting, env : Envelope, block : Blocks \cup {None}]
    \cup [pc : Deciding, env : Envelope, block : Blocks \cup {None},
          manifest : Manifest \cup {None}]

EpochRecord == [inc : Nat, pred : Epochs \cup {None}, maxLen : Nat,
                revision : Seq(Record) \cup {None}, bound : Sessions \cup {None}]

PendingRow == [env : Envelope, attempted : BOOLEAN, block : Blocks \cup {None}]

FileOK ==
    /\ file \in [provider : Providers, inc : Nat, rewrites : Nat, data : Seq(Record)]
    /\ file.inc <= file.rewrites
    /\ \A i \in 1 .. SourceLen : file.data[i].inc = file.inc

BudgetOK ==
    /\ budget \in [binds : Nat, deletes : Nat, restores : Nat, abandons : Nat]
    /\ budget.restores <= MaxRestores

\* An epoch is registered for a file seen so far.
RegistryOK ==
    /\ Registered \subseteq Epochs
    /\ registry \in [Registered -> EpochRecord]
    /\ \A e \in Registered : registry[e].inc <= file.inc
    /\ active \in Registered \cup {None}
    /\ active = None => Registered = {}
    /\ bound \in Sessions \cup {None}

CursorOK == cursor \in [Registered -> Nat]

PendingOK ==
    /\ DOMAIN pending \subseteq Registered
    /\ pending \in [DOMAIN pending -> PendingRow]
    /\ \A e \in DOMAIN pending : pending[e].env.epoch = e

\* A manifest proves a part of the envelope; of a whole document, all or nothing.
ProvenInside(env, p) == /\ p \in env.start .. env.end
                        /\ Document => p = env.start \/ p = env.end

SendersOK ==
    /\ sender \in [Senders -> SenderState]
    /\ \A w \in Senders : sender[w].pc = "observed" => sender[w].epoch \in Registered
    /\ \A w \in Senders : sender[w].pc \in Deciding /\ sender[w].manifest # None =>
          ProvenInside(sender[w].env, sender[w].manifest.proven)

\* A sender reads the file it observed.
ObservedIsCurrent ==
    SteadyFile => \A w \in Senders :
        sender[w].pc = "observed" => registry[sender[w].epoch].inc = file.inc

\* The envelopes of the agent, and the rows of the host and of its restore point.
Carried == {pending[e].env : e \in DOMAIN pending}
           \cup {sender[w].env : w \in {v \in Senders : sender[v].pc \in Carrying}}
           \cup late

Stored == raw \cup (IF backup = None THEN {} ELSE backup.raw)

\* What every envelope and every row is: a range of a registered epoch with as
\* many records, all of the file the epoch was registered for, and those that file
\* still holds at these places.
Piece(x) ==
    /\ x.epoch \in Registered
    /\ x.start \in Nat /\ x.end \in Nat /\ x.start < x.end
    /\ x.data \in Seq(Record) /\ Len(x.data) = x.end - x.start
    /\ Document => x.start = 0
    /\ "truncate" \notin FileOps /\ registry[x.epoch].inc = file.inc =>
          /\ x.end <= SourceLen
          /\ \A i \in 1 .. (x.end - x.start) : x.data[i] = file.data[x.start + i]
    /\ SteadyFile => \A i \in 1 .. (x.end - x.start) : x.data[i].inc = registry[x.epoch].inc

PiecesOK ==
    /\ \A x \in Carried : x \in Envelope /\ Piece(x)
    /\ \A x \in Stored : Piece(x)

\* The catalog a restore point holds.
Saved == INSTANCE HostCatalog WITH
    epochs <- backup.epochs, raw <- backup.raw, retired <- backup.retired,
    tombstones <- backup.tombstones, commitSeq <- backup.commitSeq, desired <- backup.desired,
    unrendered <- backup.unrendered

BackupOK == backup # None => Saved!HostInv

LaneInv ==
    /\ FileOK /\ BudgetOK /\ RegistryOK /\ CursorOK /\ PendingOK /\ SendersOK
    /\ ObservedIsCurrent /\ PiecesOK
    /\ HostInv /\ BackupOK

-----------------------------------------------------------------------------
(* Facts about the operators.                                              *)

\* A set of positions of a range has a greatest member.
LEMMA GreatestMember ==
    ASSUME NEW a \in Nat, NEW b \in Nat, NEW T, T \subseteq a .. b, T # {}
    PROVE  \E m \in T : \A k \in T : k <= m
<1> DEFINE U == {b - t : t \in T}
<1>1. U \subseteq Nat /\ U # {}
    OBVIOUS
<1>2. PICK u \in U : \A k \in U : u <= k
    <2> HIDE DEF U
    <2> QED BY <1>1, LeastMember
<1>3. PICK m \in T : u = b - m
    OBVIOUS
<1>4. \A k \in T : b - m <= b - k
    BY <1>2, <1>3
<1>5. \A k \in T : k \in Int /\ m \in Int
    OBVIOUS
<1>6. QED BY <1>4, <1>5

\* The walk over a manifest ends inside the envelope, and all before it is proven.
LEMMA ProvenThroughFacts ==
    ASSUME NEW env, env.start \in Nat, env.end \in Nat, env.start <= env.end
    PROVE  /\ ProvenInside(env, ProvenThrough(env))
           /\ Proven(env, ProvenThrough(env))
<1> DEFINE T == {p \in env.start .. env.end : Proven(env, p)}
           Last(p) == Proven(env, p) /\ \A q \in env.start .. env.end : Proven(env, q) => q <= p
<1>1. env.start \in T
    BY DEF Proven
<1>2. PICK m \in T : \A k \in T : k <= m
    <2>1. T \subseteq env.start .. env.end /\ T # {}
        BY <1>1
    <2> HIDE DEF T
    <2> QED BY <2>1, GreatestMember
<1>3. m \in env.start .. env.end /\ Last(m)
    BY <1>2
<1>4. ProvenThrough(env) = CHOOSE p \in env.start .. env.end : Last(p)
    BY DEF ProvenThrough
<1>5. QED
    <2> HIDE DEF Last
    <2>1. ProvenThrough(env) \in env.start .. env.end /\ Last(ProvenThrough(env))
        BY <1>3, <1>4
    <2>2. Proven(env, ProvenThrough(env))
        BY <2>1 DEF Last
    <2>3. Document => ProvenThrough(env) = env.start \/ ProvenThrough(env) = env.end
        BY <2>1, <2>2 DEF Proven, Matches
    <2> QED BY <2>1, <2>2, <2>3 DEF ProvenInside

\* Removing a key.
LEMMA DropFacts ==
    ASSUME NEW f, NEW e
    PROVE  /\ DOMAIN Drop(f, e) = DOMAIN f \ {e}
           /\ \A x \in DOMAIN f \ {e} : Drop(f, e)[x] = f[x]
           /\ \A S : f \in [DOMAIN f -> S] => Drop(f, e) \in [DOMAIN f \ {e} -> S]
BY DEF Drop

\* What a sender in each state carries.
LEMMA SenderFields ==
    ASSUME NEW s \in SenderState
    PROVE  /\ s.pc = "idle" => s \in [pc : {"idle"}]
           /\ s.pc = "scan" => s \in [pc : {"scan"}, limit : 1 .. MaxBatch,
                                      bound : Sessions \cup {None}]
           /\ s.pc = "observed" => s \in [pc : {"observed"}, limit : 1 .. MaxBatch,
                                          epoch : Epochs, session : Sessions]
           /\ s.pc \in Holding => s \in [pc : Holding, env : Envelope]
           /\ s.pc \in Waiting => s \in [pc : Waiting, env : Envelope, block : Blocks \cup {None}]
           /\ s.pc \in Deciding => s \in [pc : Deciding, env : Envelope, block : Blocks \cup {None},
                                          manifest : Manifest \cup {None}]
           /\ s.pc \in Carrying <=> "env" \in DOMAIN s
           /\ s.pc \in Carrying => s.env \in Envelope
BY DEF SenderState, Holding, Waiting, Deciding, Carrying

\* A whole envelope.
LEMMA EnvelopeFields ==
    ASSUME NEW env \in Envelope
    PROVE  /\ env.source \in Sources /\ env.epoch \in Epochs /\ env.pred \in Epochs \cup {None}
           /\ env.start \in Nat /\ env.end \in Nat /\ env.data \in Seq(Record)
           /\ env.session \in Sessions
BY DEF Envelope, Record

\* What senders carry is what they may send.
LEMMA CarriedIsRequest ==
    ASSUME LaneInv, NEW env \in Carried
    PROVE  IsRequest(env) /\ env \in Envelope /\ Piece(env)
<1>1. env \in Envelope /\ Piece(env)
    BY DEF LaneInv, PiecesOK
<1>2. QED BY <1>1, EnvelopeFields DEF IsRequest, Piece

\* A restore point stays good.
LEMMA BackupStays ==
    ASSUME BackupOK, backup' = backup
    PROVE  BackupOK'
<1>1. ASSUME Saved!HostInv PROVE Saved!HostInv'
    <2>1. Saved!HostTypeOK'
        BY <1>1 DEF Saved!HostInv, Saved!HostTypeOK, Saved!Known, Saved!EpochRow
    <2>2. Saved!OneOpenEpoch' /\ Saved!LineageIsAChain' /\ Saved!OneSession'
        BY <1>1 DEF Saved!HostInv, Saved!OneOpenEpoch, Saved!LineageIsAChain,
                    Saved!OneSession, Saved!Known
    <2>3. Saved!RetiredWithCause' /\ Saved!Counted' /\ Saved!NoRowsNoWatermark'
        BY <1>1 DEF Saved!HostInv, Saved!RetiredWithCause, Saved!Counted,
                    Saved!NoRowsNoWatermark, Saved!Known, Saved!RawIn
    <2>4. Saved!Based' /\ Saved!ContiguousArchive'
        BY <1>1 DEF Saved!HostInv, Saved!Based, Saved!ContiguousArchive, Saved!Known, Saved!RawIn
    <2>5. QED BY <2>1, <2>2, <2>3, <2>4 DEF Saved!HostInv
<1>2. QED BY <1>1 DEF BackupOK

-----------------------------------------------------------------------------
(* Steps of the agent: the file, the registry and the catalog stay.        *)

\* The parts of the invariant that such a step can disturb.
LEMMA AgentStep ==
    ASSUME LaneInv, UNCHANGED <<hostVars, file, bound, registry, active, backup>>,
           cursor' \in [Registered -> Nat], PendingOK', SendersOK', ObservedIsCurrent', BudgetOK',
           \A x \in Carried' : x \in Carried \/ (x \in Envelope /\ Piece(x))
    PROVE  LaneInv'
<1>1. FileOK' /\ RegistryOK' /\ CursorOK'
    BY DEF LaneInv, FileOK, RegistryOK, CursorOK, Registered, SourceLen
<1>2. HostInv'
    BY StutterKeepsInv DEF LaneInv
<1>3. BackupOK'
    BY BackupStays DEF LaneInv
<1>4. \A x : Piece(x) => Piece(x)'
    BY DEF Piece, Registered, Document, SourceLen
<1>5. Stored' = Stored
    BY DEF Stored, hostVars
<1>6. PiecesOK'
    BY <1>4, <1>5 DEF LaneInv, PiecesOK
<1>7. QED BY <1>1, <1>2, <1>3, <1>6 DEF LaneInv

\* A sender moves, and what it does to the outbox and the cursor is well-formed.
LEMMA AgentMove ==
    ASSUME LaneInv, NEW w \in Senders, NEW st \in SenderState, Become(w, st),
           UNCHANGED <<hostVars, file, bound, registry, active, backup>>,
           st.pc # "observed",
           st.pc \in Deciding /\ st.manifest # None =>
               ProvenInside(st.env, st.manifest.proven),
           cursor' \in [Registered -> Nat], PendingOK', BudgetOK', late' \subseteq Carried,
           NEW N, \A x \in N : x \in Envelope /\ Piece(x),
           \A e \in DOMAIN pending' : pending'[e].env \in Carried \cup N,
           st.pc \in Carrying => st.env \in Carried \cup N
    PROVE  LaneInv'
<1>1. /\ sender' \in [Senders -> SenderState]
      /\ sender'[w] = st
      /\ \A v \in Senders \ {w} : sender'[v] = sender[v]
    BY DEF LaneInv, SendersOK, Become
<1>2. SendersOK'
    BY <1>1 DEF LaneInv, SendersOK, Registered, ProvenInside, Document
<1>3. ObservedIsCurrent'
    BY <1>1 DEF LaneInv, ObservedIsCurrent
<1>4. ASSUME NEW x \in Carried' PROVE x \in Carried \cup N
    <2>1. CASE \E e \in DOMAIN pending' : x = pending'[e].env
        BY <2>1
    <2>2. CASE \E v \in Senders : sender'[v].pc \in Carrying /\ x = sender'[v].env
        <3>1. PICK v \in Senders : sender'[v].pc \in Carrying /\ x = sender'[v].env
            BY <2>2
        <3>2. CASE v = w
            BY <1>1, <3>1, <3>2
        <3>3. CASE v # w
            BY <1>1, <3>1, <3>3 DEF Carried
        <3>4. QED BY <3>2, <3>3
    <2>3. CASE x \in late'
        BY <2>3
    <2>4. QED BY <2>1, <2>2, <2>3 DEF Carried
<1>5. QED BY <1>2, <1>3, <1>4, AgentStep

\* An outbox that only lost a row.
LEMMA OutboxLoses ==
    ASSUME LaneInv, registry' = registry, NEW e, pending' \in {pending, Drop(pending, e)}
    PROVE  /\ PendingOK'
           /\ \A f \in DOMAIN pending' : pending'[f].env \in Carried
<1>1. CASE pending' = pending
    BY <1>1 DEF LaneInv, PendingOK, Registered, Carried
<1>2. CASE pending' = Drop(pending, e)
    <2>1. /\ DOMAIN pending' = DOMAIN pending \ {e}
          /\ \A x \in DOMAIN pending \ {e} : pending'[x] = pending[x]
          /\ pending' \in [DOMAIN pending \ {e} -> PendingRow]
        BY <1>2, DropFacts DEF LaneInv, PendingOK
    <2>2. QED BY <2>1 DEF LaneInv, PendingOK, Registered, Carried
<1>3. QED BY <1>1, <1>2

\* A sender moves with an envelope it knew, and at most drops a row.
LEMMA QuietMove ==
    ASSUME LaneInv, NEW w \in Senders, NEW st \in SenderState, Become(w, st),
           UNCHANGED <<hostVars, file, bound, registry, active, late, backup, budget>>,
           st.pc # "observed",
           st.pc \in Deciding /\ st.manifest # None =>
               ProvenInside(st.env, st.manifest.proven),
           cursor' \in [Registered -> Nat],
           NEW e, pending' \in {pending, Drop(pending, e)},
           st.pc \in Carrying => st.env \in Carried
    PROVE  LaneInv'
<1>1. /\ PendingOK'
      /\ \A f \in DOMAIN pending' : pending'[f].env \in Carried
    BY OutboxLoses
<1>2. BudgetOK' /\ late' \subseteq Carried
    BY DEF LaneInv, BudgetOK, Carried
<1> DEFINE N == {}
<1>3. /\ \A x \in N : x \in Envelope /\ Piece(x)
      /\ \A f \in DOMAIN pending' : pending'[f].env \in Carried \cup N
      /\ st.pc \in Carrying => st.env \in Carried \cup N
    BY <1>1
<1> HIDE DEF N
<1>4. QED BY <1>1, <1>2, <1>3, AgentMove

\* Resting and scanning senders carry nothing.
LEMMA RestingStates ==
    ASSUME LaneInv
    PROVE  /\ Idle \in SenderState /\ Idle.pc = "idle"
           /\ \A limit \in {LiveBatch, MaxBatch} :
                 Scanning(limit) \in SenderState /\ Scanning(limit).pc = "scan"
BY LaneAssumption DEF LaneInv, RegistryOK, Idle, Scanning, SenderState

\* A cursor set to a natural number.
LEMMA CursorSet ==
    ASSUME LaneInv, NEW e \in Registered, NEW n \in Nat,
           cursor' \in {cursor, [cursor EXCEPT ![e] = n]}
    PROVE  cursor' \in [Registered -> Nat]
BY DEF LaneInv, CursorOK

\* The row of an epoch, and what a sender carries, are among the envelopes.
LEMMA CarriedFacts ==
    ASSUME LaneInv
    PROVE  /\ \A e \in DOMAIN pending : /\ e \in Registered
                                        /\ pending[e] \in PendingRow
                                        /\ pending[e].env \in Carried
                                        /\ pending[e].env \in Envelope
                                        /\ pending[e].env.epoch = e
           /\ \A w \in Senders : sender[w].pc \in Carrying =>
                 /\ sender[w].env \in Carried
                 /\ sender[w].env \in Envelope
                 /\ sender[w].env.epoch \in Registered
                 /\ sender[w].env.start \in Nat /\ sender[w].env.end \in Nat
                 /\ sender[w].env.start < sender[w].env.end
           /\ \A w \in Senders : sender[w] \in SenderState
BY DEF LaneInv, PendingOK, SendersOK, Carried, PendingRow, PiecesOK, Piece

\* FindNothingPending, ResumePending, DiscardOversized and RetireEmptySource.
LEMMA LoadKeepsInv ==
    ASSUME LaneInv, NEW w \in Senders, NEW limit \in {LiveBatch, MaxBatch}, NEW e \in Epochs,
           \/ FindNothingPending(w, limit) \/ ResumePending(w, e, limit)
           \/ DiscardOversized(w, e, limit) \/ RetireEmptySource(w, e, limit)
    PROVE  LaneInv'
<1>1. CASE FindNothingPending(w, limit)
    BY <1>1, RestingStates, QuietMove DEF FindNothingPending, LaneInv, CursorOK, Carrying, Holding, Waiting, Deciding
<1>2. CASE ResumePending(w, e, limit)
    <2> DEFINE st == Prepared(pending[e])
    <2>1. st \in SenderState /\ st.pc = "prepared" /\ st.env \in Carried
        BY <1>2, CarriedFacts DEF ResumePending, Prepared, SenderState, Holding
    <2>2. st.pc \notin Deciding /\ cursor' \in [Registered -> Nat]
        BY <1>2, <2>1 DEF Deciding, ResumePending, LaneInv, CursorOK
    <2> HIDE DEF st
    <2>3. /\ Become(w, st) /\ pending' = pending
          /\ UNCHANGED <<hostVars, file, bound, registry, active, late, backup, budget>>
        BY <1>2 DEF ResumePending, st
    <2>4. QED BY <2>1, <2>2, <2>3, QuietMove
<1>3. CASE DiscardOversized(w, e, limit)
    BY <1>3, RestingStates, QuietMove DEF DiscardOversized, LaneInv, CursorOK, Carrying, Holding, Waiting, Deciding
<1>4. CASE RetireEmptySource(w, e, limit)
    <2>1. e \in Registered /\ pending[e].env.end \in Nat
        BY <1>4, CarriedFacts, EnvelopeFields DEF RetireEmptySource
    <2>2. cursor' \in [Registered -> Nat]
        BY <1>4, <2>1, CursorSet DEF RetireEmptySource
    <2>3. QED
        BY <1>4, <2>2, RestingStates, QuietMove DEF RetireEmptySource, Carrying, Holding, Waiting, Deciding
<1>5. QED BY <1>1, <1>2, <1>3, <1>4

\* A batch read at the cursor is a piece of the file.
LEMMA BatchIsAPiece ==
    ASSUME LaneInv, NEW w \in Senders, sender[w].pc = "observed", Readable(sender[w].epoch)
    PROVE  /\ BatchFrom(w, sender[w].epoch, cursor[sender[w].epoch]) \in Envelope
           /\ Piece(BatchFrom(w, sender[w].epoch, cursor[sender[w].epoch]))
<1> DEFINE e == sender[w].epoch
           start == cursor[e]
           env == BatchFrom(w, e, start)
<1>1. /\ e \in Registered /\ sender[w].limit \in 1 .. MaxBatch /\ sender[w].session \in Sessions
      /\ SteadyFile => registry[e].inc = file.inc
    BY SenderFields DEF LaneInv, SendersOK, ObservedIsCurrent
<1>2. /\ e \in Epochs /\ registry[e].pred \in Epochs \cup {None} /\ start \in Nat
      /\ Source \in Sources
    BY <1>1, LaneAssumption DEF LaneInv, RegistryOK, EpochRecord, CursorOK
<1>3. /\ file.data \in Seq(Record) /\ SourceLen \in Nat /\ start < SourceLen
      /\ Document => start = 0
      /\ \A i \in 1 .. SourceLen : file.data[i] \in Record /\ file.data[i].inc = file.inc
    BY DEF LaneInv, FileOK, SourceLen, Readable
<1> DEFINE last == IF Document THEN SourceLen ELSE Lesser(start + sender[w].limit, SourceLen)
<1>11. last \in Nat /\ start < last /\ last <= SourceLen
    <2>1. start + sender[w].limit \in Nat /\ start < start + sender[w].limit
        BY <1>1, <1>2, LaneAssumption
    <2> HIDE DEF start
    <2>2. QED BY <1>2, <1>3, <2>1 DEF Lesser
<1>12. env = [source |-> Source, epoch |-> e, pred |-> registry[e].pred, start |-> start,
              end |-> last, data |-> SubSeq(file.data, start + 1, last),
              session |-> sender[w].session]
    BY DEF BatchFrom
<1> HIDE DEF env, last, start, e
<1>4. /\ env.source = Source /\ env.epoch = e /\ env.pred = registry[e].pred /\ env.start = start
      /\ env.session = sender[w].session
      /\ env.end \in Nat /\ start < env.end /\ env.end <= SourceLen
      /\ env.data = SubSeq(file.data, start + 1, env.end)
      /\ env = [source |-> Source, epoch |-> e, pred |-> registry[e].pred, start |-> start,
                end |-> env.end, data |-> env.data, session |-> sender[w].session]
    BY <1>11, <1>12
<1>5. \A i \in (start + 1) .. env.end : file.data[i] \in Record
    BY <1>2, <1>3, <1>4
<1>6. /\ env.data \in Seq(Record)
      /\ Len(env.data) = env.end - start
      /\ \A i \in 1 .. (env.end - start) : env.data[i] = file.data[start + i]
    <2>1. start + 1 \in Int /\ env.end \in Int
        BY <1>2, <1>4
    <2>2. /\ SubSeq(file.data, start + 1, env.end) \in Seq(Record)
          /\ Len(SubSeq(file.data, start + 1, env.end)) =
                IF start + 1 <= env.end THEN env.end - (start + 1) + 1 ELSE 0
          /\ \A i \in 1 .. (env.end - (start + 1) + 1) :
                SubSeq(file.data, start + 1, env.end)[i] = file.data[(start + 1) + i - 1]
        BY <1>5, <2>1, SubSeqProperties
    <2>3. \A i \in 1 .. (env.end - start) : (start + 1) + i - 1 = start + i
        BY <1>2, <1>4
    <2>4. start + 1 <= env.end /\ env.end - (start + 1) + 1 = env.end - start
        BY <1>2, <1>4
    <2>5. QED BY <1>4, <2>2, <2>3, <2>4
<1>7. env \in Envelope
    BY <1>1, <1>2, <1>4, <1>6 DEF Envelope, Record
<1>8. ASSUME NEW i \in 1 .. (env.end - start) PROVE env.data[i].inc = file.inc
    <2>1. start + i \in 1 .. SourceLen
        BY <1>2, <1>3, <1>4
    <2>2. QED BY <1>3, <1>6, <2>1
<1>9. Piece(env)
    BY <1>1, <1>2, <1>3, <1>4, <1>6, <1>8 DEF Piece
<1>10. QED BY <1>7, <1>9 DEF env, e, start

\* What is left of an envelope after a proven prefix is a piece of the file.
LEMMA SuffixIsAPiece ==
    ASSUME NEW env \in Envelope, Piece(env), ~Document,
           NEW p \in Nat, env.start < p, p < env.end
    PROVE  /\ Suffix(env, p) \in Envelope /\ Piece(Suffix(env, p))
           /\ Suffix(env, p).epoch = env.epoch
           /\ Suffix(env, p).start = p /\ Suffix(env, p).end = env.end
<1> DEFINE suf == Suffix(env, p)
           n == env.end - env.start
<1>1. /\ env.start \in Nat /\ env.end \in Nat
      /\ env.data \in Seq(Record) /\ Len(env.data) = n
    BY DEF Piece
<1>2. suf = [source |-> env.source, epoch |-> env.epoch, pred |-> env.pred, start |-> p,
             end |-> env.end, data |-> SubSeq(env.data, p - env.start + 1, n),
             session |-> env.session]
    <2> DEFINE d == SubSeq(env.data, p - env.start + 1, n)
    <2>1. suf = [env EXCEPT !.start = p, !.data = d]
        BY DEF Suffix
    <2> HIDE DEF d, suf
    <2>2. QED BY <2>1 DEF Envelope, d
<1>3. \A i \in (p - env.start + 1) .. n : env.data[i] \in Record
    BY <1>1
<1>4. /\ suf.data \in Seq(Record)
      /\ Len(suf.data) = env.end - p
      /\ \A i \in 1 .. (env.end - p) : suf.data[i] = env.data[(p - env.start) + i]
    <2> DEFINE m == p - env.start + 1
    <2>1. m \in Int /\ n \in Int /\ m <= n /\ n - m + 1 = env.end - p
        BY <1>1
    <2>2. /\ SubSeq(env.data, m, n) \in Seq(Record)
          /\ Len(SubSeq(env.data, m, n)) = IF m <= n THEN n - m + 1 ELSE 0
          /\ \A i \in 1 .. (n - m + 1) : SubSeq(env.data, m, n)[i] = env.data[m + i - 1]
        <3> HIDE DEF m, n
        <3> QED BY <1>3, <2>1, SubSeqProperties DEF m, n
    <2>3. \A i \in 1 .. (env.end - p) : m + i - 1 = (p - env.start) + i
        BY <1>1
    <2> HIDE DEF suf
    <2>4. suf.data = SubSeq(env.data, m, n)
        BY <1>2
    <2> HIDE DEF m, n
    <2>5. QED BY <2>1, <2>2, <2>3, <2>4
<1>5. suf.epoch = env.epoch /\ suf.start = p /\ suf.end = env.end
    BY <1>2
<1>6. suf \in Envelope
    BY <1>2, <1>4 DEF Envelope, Record
<1> HIDE DEF suf
<1>7. ASSUME NEW i \in 1 .. (env.end - p)
      PROVE  /\ (p - env.start) + i \in 1 .. n
             /\ env.start + ((p - env.start) + i) = p + i
    BY <1>1
<1>8. Piece(suf)
    <2>1. ASSUME "truncate" \notin FileOps, registry[env.epoch].inc = file.inc
          PROVE  /\ env.end <= SourceLen
                 /\ \A i \in 1 .. (env.end - p) : suf.data[i] = file.data[p + i]
        <3>1. /\ env.end <= SourceLen
              /\ \A i \in 1 .. n : env.data[i] = file.data[env.start + i]
            BY <2>1 DEF Piece
        <3>2. QED BY <1>4, <1>7, <3>1
    <2>2. ASSUME SteadyFile, NEW i \in 1 .. (env.end - p)
          PROVE  suf.data[i].inc = registry[env.epoch].inc
        BY <1>4, <1>7, <2>2 DEF Piece
    <2>3. QED BY <1>1, <1>4, <1>5, <2>1, <2>2 DEF Piece
<1>9. QED BY <1>5, <1>6, <1>8 DEF suf

\* ReadBatch.
LEMMA ReadBatchKeepsInv ==
    ASSUME LaneInv, NEW w \in Senders, ReadBatch(w)
    PROVE  LaneInv'
<1> DEFINE e == sender[w].epoch
           env == BatchFrom(w, e, cursor[e])
           st == [pc |-> "candidate", env |-> env]
           N == {env}
<1>1. /\ sender[w].pc = "observed"
      /\ Become(w, IF Readable(e) THEN st ELSE Idle)
      /\ UNCHANGED <<hostVars, file, bound, registry, active, cursor, pending, late, backup, budget>>
    BY DEF ReadBatch
<1>2. CASE ~Readable(e)
    BY <1>1, <1>2, RestingStates, QuietMove
       DEF LaneInv, CursorOK, Carrying, Holding, Waiting, Deciding
<1>3. CASE Readable(e)
    <2>1. env \in Envelope /\ Piece(env)
        BY <1>1, <1>3, BatchIsAPiece
    <2>2. Become(w, st)
        BY <1>1, <1>3
    <2> HIDE DEF env
    <2>3. st \in SenderState /\ st.pc = "candidate" /\ st.env = env
        BY <2>1 DEF SenderState, Holding
    <2>4. st.pc # "observed" /\ st.pc \notin Deciding
        BY <2>3 DEF Deciding
    <2>5. /\ PendingOK' /\ BudgetOK' /\ late' \subseteq Carried /\ cursor' \in [Registered -> Nat]
        BY <1>1 DEF LaneInv, PendingOK, Registered, BudgetOK, Carried, CursorOK
    <2>6. \A f \in DOMAIN pending' : pending'[f].env \in Carried \cup N
        BY <1>1, CarriedFacts
    <2>7. (\A x \in N : x \in Envelope /\ Piece(x)) /\ (st.pc \in Carrying => st.env \in Carried \cup N)
        BY <2>1, <2>3
    <2> HIDE DEF st, N
    <2>8. QED BY <1>1, <2>2, <2>3, <2>4, <2>5, <2>6, <2>7, AgentMove
<1>4. QED BY <1>2, <1>3

\* SkipStartupMetadata and PersistPrepared.
LEMMA CandidateKeepsInv ==
    ASSUME LaneInv, NEW w \in Senders, SkipStartupMetadata(w) \/ PersistPrepared(w)
    PROVE  LaneInv'
<1> DEFINE env == sender[w].env
<1>1. /\ sender[w].pc = "candidate" /\ env \in Carried /\ env \in Envelope
      /\ env.epoch \in Registered /\ env.end \in Nat
    BY CarriedFacts DEF SkipStartupMetadata, PersistPrepared, Carrying, Holding
<1>2. CASE SkipStartupMetadata(w)
    <2>1. cursor' \in [Registered -> Nat]
        BY <1>1, <1>2, CursorSet DEF SkipStartupMetadata
    <2>2. QED BY <1>2, <2>1, RestingStates, QuietMove
              DEF SkipStartupMetadata, Carrying, Holding, Waiting, Deciding
<1>3. CASE PersistPrepared(w)
    <2> DEFINE new == [env |-> env, attempted |-> FALSE, block |-> None]
               row == IF env.epoch \in DOMAIN pending THEN pending[env.epoch] ELSE new
               st == Prepared(row)
    <2>1. /\ pending' = With(pending, env.epoch, row) /\ Become(w, st)
          /\ UNCHANGED <<hostVars, file, bound, registry, active, cursor, late, backup, budget>>
        BY <1>3 DEF PersistPrepared
    <2>2. row \in PendingRow /\ row.env \in Carried /\ row.env \in Envelope /\ row.env.epoch = env.epoch
        <3>1. new \in PendingRow /\ new.env = env
            BY <1>1 DEF PendingRow
        <3> HIDE DEF new, env
        <3>2. CASE env.epoch \in DOMAIN pending
            BY <3>2, CarriedFacts
        <3>3. CASE env.epoch \notin DOMAIN pending
            BY <1>1, <3>1, <3>3
        <3>4. QED BY <3>2, <3>3
    <2> HIDE DEF row, env
    <2>3. st \in SenderState /\ st.pc = "prepared" /\ st.env = row.env
        BY <2>2 DEF SenderState, Holding, Prepared
    <2>4. st.pc # "observed" /\ st.pc \notin Deciding
        BY <2>3 DEF Deciding
    <2>5. /\ DOMAIN pending' = DOMAIN pending \cup {env.epoch}
          /\ pending'[env.epoch] = row
          /\ \A x \in DOMAIN pending \ {env.epoch} : pending'[x] = pending[x]
          /\ pending' \in [DOMAIN pending \cup {env.epoch} -> PendingRow]
        <3>1. pending \in [DOMAIN pending -> PendingRow]
            BY DEF LaneInv, PendingOK
        <3> HIDE DEF st
        <3>2. QED BY <2>1, <2>2, <3>1 DEF With
    <2>6. PendingOK'
        BY <1>1, <2>1, <2>2, <2>5 DEF LaneInv, PendingOK, Registered
    <2> DEFINE N == {}
    <2>7. \A f \in DOMAIN pending' : pending'[f].env \in Carried \cup N
        BY <2>2, <2>5, CarriedFacts
    <2>8. (\A x \in N : x \in Envelope /\ Piece(x)) /\ (st.pc \in Carrying => st.env \in Carried \cup N)
        BY <2>2, <2>3
    <2>9. /\ BudgetOK' /\ late' \subseteq Carried /\ cursor' \in [Registered -> Nat]
        BY <2>1 DEF LaneInv, BudgetOK, Carried, CursorOK
    <2> HIDE DEF st, N
    <2>10. QED BY <2>1, <2>3, <2>4, <2>6, <2>7, <2>8, <2>9, AgentMove
<1>4. QED BY <1>2, <1>3

\* A row is marked, in an outbox that keeps its rows.
LEMMA OutboxMarks ==
    ASSUME LaneInv, registry' = registry, NEW e \in DOMAIN pending, NEW row \in PendingRow,
           row.env = pending[e].env, pending' = [pending EXCEPT ![e] = row]
    PROVE  /\ PendingOK'
           /\ \A f \in DOMAIN pending' : pending'[f].env \in Carried
<1>1. /\ DOMAIN pending' = DOMAIN pending
      /\ \A f \in DOMAIN pending : pending'[f].env = pending[f].env
      /\ pending' \in [DOMAIN pending -> PendingRow]
    BY DEF LaneInv, PendingOK
<1>2. QED BY <1>1, CarriedFacts DEF LaneInv, PendingOK, Registered

\* A sender moves with an envelope it knew, and at most marks a row.
LEMMA MarkingMove ==
    ASSUME LaneInv, NEW w \in Senders, NEW st \in SenderState, Become(w, st),
           UNCHANGED <<hostVars, file, bound, registry, active, cursor, late, backup, budget>>,
           st.pc \notin Deciding \cup {"observed"},
           \/ pending' = pending
           \/ \E e \in DOMAIN pending : \E row \in PendingRow :
                 row.env = pending[e].env /\ pending' = [pending EXCEPT ![e] = row],
           st.pc \in Carrying => st.env \in Carried
    PROVE  LaneInv'
<1> DEFINE N == {}
<1>1. /\ PendingOK'
      /\ \A f \in DOMAIN pending' : pending'[f].env \in Carried \cup N
    <2>1. CASE pending' = pending
        BY <2>1, CarriedFacts DEF LaneInv, PendingOK, Registered
    <2>2. CASE pending' # pending
        BY <2>2, OutboxMarks
    <2>3. QED BY <2>1, <2>2
<1>2. BudgetOK' /\ late' \subseteq Carried /\ cursor' \in [Registered -> Nat]
    BY DEF LaneInv, BudgetOK, Carried, CursorOK
<1>3. /\ \A x \in N : x \in Envelope /\ Piece(x)
      /\ st.pc \in Carrying => st.env \in Carried \cup N
    OBVIOUS
<1> HIDE DEF N
<1>4. QED BY <1>1, <1>2, <1>3, AgentMove

\* Quarantine marks a row or does nothing.
LEMMA QuarantineMarks ==
    ASSUME LaneInv, NEW e, NEW kind \in Blocks, Quarantine(e, kind)
    PROVE  \/ pending' = pending
           \/ \E f \in DOMAIN pending : \E row \in PendingRow :
                 row.env = pending[f].env /\ pending' = [pending EXCEPT ![f] = row]
<1>1. CASE e \in DOMAIN pending /\ pending[e].block = None
    <2> DEFINE row == [pending[e] EXCEPT !.block = kind]
    <2>1. pending' = [pending EXCEPT ![e] = row]
        BY <1>1 DEF Quarantine
    <2>2. row \in PendingRow /\ row.env = pending[e].env
        BY <1>1, CarriedFacts DEF PendingRow
    <2>3. QED BY <1>1, <2>1, <2>2
<1>2. CASE ~(e \in DOMAIN pending /\ pending[e].block = None)
    BY <1>2 DEF Quarantine
<1>3. QED BY <1>1, <1>2

\* PostEnvelope, ReexamineBlocked, DiscardUngated, BlockRejected, BlockConflict.
LEMMA MarkKeepsInv ==
    ASSUME LaneInv, NEW w \in Senders,
           \/ PostEnvelope(w) \/ ReexamineBlocked(w) \/ DiscardUngated(w)
           \/ BlockRejected(w) \/ BlockConflict(w)
    PROVE  LaneInv'
<1> DEFINE env == sender[w].env
<1>1. CASE PostEnvelope(w)
    <2> DEFINE st == [pc |-> "posted", env |-> env, block |-> None]
               row == [pending[env.epoch] EXCEPT !.attempted = TRUE]
    <2>1. env \in Carried /\ env \in Envelope /\ env.epoch \in DOMAIN pending
        BY <1>1, CarriedFacts DEF PostEnvelope, Carrying, Holding, Holds
    <2>2. row \in PendingRow /\ row.env = pending[env.epoch].env
        BY <2>1, CarriedFacts DEF PendingRow
    <2>3. pending' = [pending EXCEPT ![env.epoch] = row] /\ Become(w, st)
        BY <1>1 DEF PostEnvelope
    <2>4. UNCHANGED <<hostVars, file, bound, registry, active, cursor, late, backup, budget>>
        BY <1>1 DEF PostEnvelope
    <2> HIDE DEF row, env
    <2>5. st \in SenderState /\ st.pc = "posted" /\ st.env = env
        BY <2>1 DEF SenderState, Waiting
    <2>6. st.pc \notin Deciding \cup {"observed"}
        BY <2>5 DEF Deciding
    <2> HIDE DEF st
    <2>7. QED BY <2>1, <2>2, <2>3, <2>4, <2>5, <2>6, MarkingMove
<1>2. CASE ReexamineBlocked(w)
    <2> DEFINE st == [pc |-> "probing", env |-> env, block |-> pending[env.epoch].block]
    <2>1. env \in Carried /\ env \in Envelope /\ env.epoch \in DOMAIN pending
        BY <1>2, CarriedFacts DEF ReexamineBlocked, Carrying, Holding, Holds
    <2>2. pending[env.epoch].block \in Blocks \cup {None}
        BY <2>1, CarriedFacts DEF PendingRow
    <2>3. Become(w, st) /\ pending' = pending
        BY <1>2 DEF ReexamineBlocked
    <2>4. UNCHANGED <<hostVars, file, bound, registry, active, cursor, late, backup, budget>>
        BY <1>2 DEF ReexamineBlocked
    <2> HIDE DEF env
    <2>5. st \in SenderState /\ st.pc = "probing" /\ st.env = env
        BY <2>1, <2>2 DEF SenderState, Waiting
    <2>6. st.pc \notin Deciding \cup {"observed"}
        BY <2>5 DEF Deciding
    <2> HIDE DEF st
    <2>7. QED BY <2>1, <2>3, <2>4, <2>5, <2>6, MarkingMove
<1>3. CASE DiscardUngated(w)
    BY <1>3, RestingStates, QuietMove
       DEF DiscardUngated, LaneInv, CursorOK, Carrying, Holding, Waiting, Deciding
<1>4. CASE BlockRejected(w)
    <2>1. \/ pending' = pending
          \/ \E f \in DOMAIN pending : \E row \in PendingRow :
                row.env = pending[f].env /\ pending' = [pending EXCEPT ![f] = row]
        BY <1>4, QuarantineMarks DEF BlockRejected, Blocks
    <2>2. QED BY <1>4, <2>1, RestingStates, MarkingMove
              DEF BlockRejected, Carrying, Holding, Waiting, Deciding
<1>5. CASE BlockConflict(w)
    <2>1. \/ pending' = pending
          \/ \E f \in DOMAIN pending : \E row \in PendingRow :
                row.env = pending[f].env /\ pending' = [pending EXCEPT ![f] = row]
        BY <1>5, QuarantineMarks DEF BlockConflict, Blocks
    <2>2. QED BY <1>5, <2>1, RestingStates, MarkingMove
              DEF BlockConflict, Carrying, Holding, Waiting, Deciding
<1>6. QED BY <1>1, <1>2, <1>3, <1>4, <1>5

\* Acknowledge and ResyncBehindHost.
LEMMA CursorMoveKeepsInv ==
    ASSUME LaneInv, NEW w \in Senders, Acknowledge(w) \/ ResyncBehindHost(w)
    PROVE  LaneInv'
<1> DEFINE env == sender[w].env
<1>1. sender[w].pc \in Carrying
    BY DEF Acknowledge, ResyncBehindHost, Carrying, Waiting, Deciding
<1>2. env.epoch \in Registered /\ env.end \in Nat
    BY <1>1, CarriedFacts
<1>3. CASE Acknowledge(w)
    <2>1. /\ cursor' \in {cursor, [cursor EXCEPT ![env.epoch] = env.end]}
          /\ pending' \in {pending, Drop(pending, env.epoch)}
          /\ Become(w, Idle)
          /\ UNCHANGED <<hostVars, file, bound, registry, active, late, backup, budget>>
        BY <1>3 DEF Acknowledge
    <2>2. cursor' \in [Registered -> Nat]
        BY <1>2, <2>1, CursorSet
    <2>3. QED BY <2>1, <2>2, RestingStates, QuietMove DEF Carrying, Holding, Waiting, Deciding
<1>4. CASE ResyncBehindHost(w)
    <2> DEFINE through == sender[w].manifest.accepted
    <2>1. through \in Nat
        <3>1. sender[w] \in [pc : Deciding, env : Envelope, block : Blocks \cup {None},
                             manifest : Manifest \cup {None}]
            BY <1>4, CarriedFacts, SenderFields DEF ResyncBehindHost, Deciding
        <3>2. sender[w].manifest \in Manifest
            BY <1>4, <3>1 DEF ResyncBehindHost, BehindHost
        <3>3. QED BY <3>2 DEF Manifest
    <2>2. /\ cursor' \in {cursor, [cursor EXCEPT ![env.epoch] = through]}
          /\ pending' \in {pending, Drop(pending, env.epoch)}
          /\ Become(w, Idle)
          /\ UNCHANGED <<hostVars, file, bound, registry, active, late, backup, budget>>
        BY <1>4 DEF ResyncBehindHost
    <2>3. cursor' \in [Registered -> Nat]
        BY <1>2, <2>1, <2>2, CursorSet
    <2>4. QED BY <2>2, <2>3, RestingStates, QuietMove DEF Carrying, Holding, Waiting, Deciding
<1>5. QED BY <1>3, <1>4

\* FetchManifest, EndReexamination and ErrorReturn.
LEMMA ExamineKeepsInv ==
    ASSUME LaneInv, NEW w \in Senders, FetchManifest(w) \/ EndReexamination(w) \/ ErrorReturn(w)
    PROVE  LaneInv'
<1> DEFINE env == sender[w].env
<1>1. CASE FetchManifest(w)
    <2> DEFINE m == ManifestFor(env)
               st == [pc |-> IF sender[w].pc = "probing" THEN "reexamine" ELSE "reconcile",
                      env |-> env, block |-> sender[w].block, manifest |-> m]
    <2>1. sender[w].pc \in Waiting
        BY <1>1 DEF FetchManifest, Waiting
    <2>2. /\ env \in Carried /\ env \in Envelope /\ env.start \in Nat /\ env.end \in Nat
          /\ env.start < env.end /\ sender[w].block \in Blocks \cup {None}
        BY <2>1, CarriedFacts, SenderFields DEF Carrying
    <2>3. ProvenInside(env, ProvenThrough(env)) /\ ProvenThrough(env) \in Nat
        BY <2>2, ProvenThroughFacts DEF ProvenInside
    <2>4. m # None => m \in Manifest /\ ProvenInside(env, m.proven)
        <3>1. env.epoch \in Known => epochs[env.epoch].accepted \in Nat
            BY DEF LaneInv, HostInv, HostTypeOK, EpochRow
        <3>2. QED BY <2>3, <3>1 DEF ManifestFor, Manifest
    <2>5. /\ Become(w, st)
          /\ UNCHANGED <<hostVars, file, bound, registry, active, cursor, pending, late, backup, budget>>
        BY <1>1 DEF FetchManifest
    <2> HIDE DEF m, env
    <2>6. st \in SenderState /\ st.pc \in Deciding /\ st.env = env /\ st.manifest = m
        BY <2>2, <2>4 DEF SenderState, Deciding
    <2>7. st.pc # "observed"
        BY <2>6 DEF Deciding
    <2> HIDE DEF st
    <2>8. QED BY <2>2, <2>4, <2>5, <2>6, <2>7, QuietMove DEF LaneInv, CursorOK
<1>2. CASE EndReexamination(w)
    <2> DEFINE st == [pc |-> "posted", env |-> env, block |-> sender[w].block]
    <2>1. /\ sender[w].pc = "reexamine"
          /\ Become(w, IF sender[w].block = "envelope_rejected" THEN st ELSE Idle)
          /\ UNCHANGED <<hostVars, file, bound, registry, active, cursor, pending, late, backup, budget>>
        BY <1>2 DEF EndReexamination
    <2>2. env \in Carried /\ env \in Envelope /\ sender[w].block \in Blocks \cup {None}
        BY <2>1, CarriedFacts, SenderFields DEF Carrying, Deciding
    <2> HIDE DEF env
    <2>3. st \in SenderState /\ st.pc = "posted" /\ st.env = env
        BY <2>2 DEF SenderState, Waiting
    <2>4. st.pc # "observed" /\ st.pc \notin Deciding
        BY <2>3 DEF Deciding
    <2> HIDE DEF st
    <2>5. CASE sender[w].block = "envelope_rejected"
        BY <2>1, <2>2, <2>3, <2>4, <2>5, QuietMove DEF LaneInv, CursorOK
    <2>6. CASE sender[w].block # "envelope_rejected"
        BY <2>1, <2>6, RestingStates, QuietMove
           DEF LaneInv, CursorOK, Carrying, Holding, Waiting, Deciding
    <2>7. QED BY <2>5, <2>6
<1>3. CASE ErrorReturn(w)
    BY <1>3, RestingStates, QuietMove
       DEF ErrorReturn, LaneInv, CursorOK, Carrying, Holding, Waiting, Deciding
<1>4. QED BY <1>1, <1>2, <1>3

\* ReconcileProvenPrefix.
LEMMA ReconcileKeepsInv ==
    ASSUME LaneInv, NEW w \in Senders, ReconcileProvenPrefix(w)
    PROVE  LaneInv'
<1> DEFINE env == sender[w].env
           p == sender[w].manifest.proven
           suf == Suffix(env, p)
           rest == [env |-> suf, attempted |-> FALSE, block |-> None]
<1>1. /\ sender[w].pc = "reconcile" /\ sender[w].manifest # None
      /\ p > env.start /\ Become(w, Idle)
      /\ UNCHANGED <<hostVars, file, bound, registry, active, late, backup, budget>>
      /\ \/ UNCHANGED <<cursor, pending>>
         \/ /\ Holds(env)
            /\ cursor' = [cursor EXCEPT ![env.epoch] = p]
            /\ p >= env.end /\ pending' = Drop(pending, env.epoch)
         \/ /\ Holds(env)
            /\ cursor' = [cursor EXCEPT ![env.epoch] = p]
            /\ p < env.end /\ pending' = With(pending, env.epoch, rest)
    <2>1. /\ sender[w].pc = "reconcile" /\ sender[w].manifest # None
          /\ p > env.start /\ Become(w, Idle)
          /\ UNCHANGED <<hostVars, file, bound, registry, active, late, backup, budget>>
          /\ IF Holds(env) /\ pending[env.epoch].block = None /\ AtCursor(env)
             THEN /\ cursor' = [cursor EXCEPT ![env.epoch] = p]
                  /\ pending' = IF p < env.end THEN With(pending, env.epoch, rest)
                                ELSE Drop(pending, env.epoch)
             ELSE UNCHANGED <<cursor, pending>>
        BY DEF ReconcileProvenPrefix
    <2>2. p \in Nat /\ env.end \in Nat
        BY <2>1, CarriedFacts DEF Carrying, Deciding, LaneInv, SendersOK, ProvenInside
    <2> HIDE DEF p, rest, env
    <2>3. QED BY <2>1, <2>2
<1>2. /\ env \in Carried /\ env \in Envelope /\ Piece(env) /\ env.epoch \in Registered
      /\ env.start \in Nat /\ env.end \in Nat
      /\ ProvenInside(env, p) /\ p \in Nat
    BY <1>1, CarriedFacts, CarriedIsRequest DEF Carrying, Deciding, LaneInv, SendersOK, ProvenInside
<1>3. cursor' \in [Registered -> Nat]
    BY <1>1, <1>2, CursorSet
<1>4. CASE pending' \in {pending, Drop(pending, env.epoch)}
    BY <1>1, <1>3, <1>4, RestingStates, QuietMove DEF Carrying, Holding, Waiting, Deciding
<1>5. CASE Holds(env) /\ p < env.end /\ pending' = With(pending, env.epoch, rest)
    <2> DEFINE N == {suf}
    <2>1. suf \in Envelope /\ Piece(suf) /\ suf.epoch = env.epoch
        BY <1>1, <1>2, <1>5, SuffixIsAPiece DEF ProvenInside
    <2> HIDE DEF suf, env
    <2>2. rest \in PendingRow /\ rest.env = suf
        BY <2>1 DEF PendingRow
    <2> HIDE DEF rest
    <2>3. pending \in [DOMAIN pending -> PendingRow]
        BY DEF LaneInv, PendingOK
    <2>4. /\ DOMAIN pending' = DOMAIN pending \cup {env.epoch}
          /\ pending'[env.epoch] = rest
          /\ \A x \in DOMAIN pending \ {env.epoch} : pending'[x] = pending[x]
          /\ pending' \in [DOMAIN pending \cup {env.epoch} -> PendingRow]
        BY <1>5, <2>2, <2>3 DEF With
    <2>5. PendingOK'
        BY <1>1, <1>2, <2>1, <2>2, <2>4 DEF LaneInv, PendingOK, Registered
    <2>6. \A f \in DOMAIN pending' : pending'[f].env \in Carried \cup N
        BY <2>2, <2>4, CarriedFacts
    <2>7. /\ \A x \in N : x \in Envelope /\ Piece(x)
          /\ Idle.pc \notin Deciding \cup Carrying \cup {"observed"}
        BY <2>1, RestingStates DEF Carrying, Holding, Waiting, Deciding
    <2>8. BudgetOK' /\ late' \subseteq Carried
        BY <1>1 DEF LaneInv, BudgetOK, Carried
    <2> HIDE DEF N
    <2>9. QED BY <1>1, <1>3, <2>5, <2>6, <2>7, <2>8, RestingStates, AgentMove
<1>6. QED BY <1>1, <1>4, <1>5

\* Abandon and OperatorDiscard.
LEMMA GiveUpKeepsInv ==
    ASSUME LaneInv, \/ \E w \in Senders : Abandon(w)
                    \/ \E e \in Epochs : OperatorDiscard(e)
    PROVE  LaneInv'
<1>1. ASSUME NEW w \in Senders, Abandon(w) PROVE LaneInv'
    <2>1. sender[w].pc = "posted" => sender[w].env \in Carried
        BY CarriedFacts DEF Carrying, Waiting
    <2>2. late' \subseteq Carried
        BY <1>1, <2>1 DEF Abandon, Carried
    <2>3. BudgetOK'
        BY <1>1 DEF Abandon, LaneInv, BudgetOK
    <2> DEFINE N == {}
    <2>4. /\ PendingOK' /\ cursor' \in [Registered -> Nat]
          /\ \A f \in DOMAIN pending' : pending'[f].env \in Carried \cup N
          /\ \A x \in N : x \in Envelope /\ Piece(x)
        BY <1>1, CarriedFacts DEF Abandon, LaneInv, PendingOK, CursorOK, Registered
    <2>5. Idle.pc \notin Deciding \cup Carrying \cup {"observed"}
        BY RestingStates DEF Carrying, Holding, Waiting, Deciding
    <2>6. /\ Become(w, Idle)
          /\ UNCHANGED <<hostVars, file, bound, registry, active, backup>>
        BY <1>1 DEF Abandon
    <2> HIDE DEF N
    <2>7. QED BY <2>2, <2>3, <2>4, <2>5, <2>6, RestingStates, AgentMove
<1>2. ASSUME NEW e \in Epochs, OperatorDiscard(e) PROVE LaneInv'
    <2>1. pending' = Drop(pending, e) /\ sender' = sender /\ late' = late /\ cursor' = cursor
          /\ UNCHANGED <<hostVars, file, bound, registry, active, backup, budget>>
        BY <1>2 DEF OperatorDiscard
    <2>2. /\ PendingOK'
          /\ \A f \in DOMAIN pending' : pending'[f].env \in Carried
        BY <2>1, OutboxLoses
    <2>3. SendersOK' /\ ObservedIsCurrent' /\ BudgetOK' /\ cursor' \in [Registered -> Nat]
        BY <2>1 DEF LaneInv, SendersOK, ObservedIsCurrent, BudgetOK, CursorOK, Registered,
                    ProvenInside, Document
    <2>4. \A x \in Carried' : x \in Carried
        BY <2>1, <2>2 DEF Carried
    <2>5. QED BY <2>1, <2>2, <2>3, <2>4, AgentStep
<1>3. QED BY <1>1, <1>2

-----------------------------------------------------------------------------
(* Observing the file: the registry grows, and keeps what it recorded.     *)

\* What the three outcomes of observe_file have in common.
LEMMA ObserveStep ==
    ASSUME LaneInv, UNCHANGED <<hostVars, file, bound, pending, late, backup, budget>>,
           RegistryOK', CursorOK', Registered \subseteq Registered',
           \A e \in Registered : registry'[e].inc = registry[e].inc,
           NEW w \in Senders, NEW st \in SenderState, Become(w, st), st.pc = "observed",
           st.epoch \in Registered', registry'[st.epoch].inc = file.inc
    PROVE  LaneInv'
<1>1. /\ sender' \in [Senders -> SenderState]
      /\ sender'[w] = st
      /\ \A v \in Senders \ {w} : sender'[v] = sender[v]
    BY DEF LaneInv, SendersOK, Become
<1>2. st.pc \notin Deciding \cup Carrying
    BY DEF Deciding, Carrying, Holding, Waiting
<1>3. FileOK' /\ BudgetOK'
    BY DEF LaneInv, FileOK, BudgetOK, SourceLen
<1>4. PendingOK'
    BY DEF LaneInv, PendingOK
<1>5. SendersOK'
    BY <1>1, <1>2 DEF LaneInv, SendersOK, ProvenInside, Document
<1>6. ObservedIsCurrent'
    <2>1. ASSUME NEW v \in Senders, sender'[v].pc = "observed", SteadyFile
          PROVE  registry'[sender'[v].epoch].inc = file'.inc
        <3>1. CASE v = w
            BY <1>1, <3>1
        <3>2. CASE v # w
            BY <1>1, <2>1, <3>2 DEF LaneInv, ObservedIsCurrent, SendersOK
        <3>3. QED BY <3>1, <3>2
    <2>2. QED BY <2>1 DEF ObservedIsCurrent
<1>7. \A x : Piece(x) => Piece(x)'
    BY DEF Piece, Document, SourceLen
<1>8. \A x \in Carried' : x \in Carried
    BY <1>1, <1>2 DEF Carried
<1>9. PiecesOK'
    BY <1>7, <1>8 DEF LaneInv, PiecesOK, Stored, hostVars
<1>10. HostInv'
    BY StutterKeepsInv DEF LaneInv
<1>11. BackupOK'
    BY BackupStays DEF LaneInv
<1>12. QED BY <1>3, <1>4, <1>5, <1>6, <1>9, <1>10, <1>11 DEF LaneInv

\* What an observation records and hands to the sender.
LEMMA ObservationFacts ==
    ASSUME LaneInv, NEW w \in Senders, sender[w].pc = "scan"
    PROVE  /\ sender[w].bound \in Sessions \cup {None}
           /\ SourceLen \in Nat /\ file.inc \in Nat
           /\ \A b \in Sessions \cup {None} : SessionFor(b) \in Sessions
           /\ \A p \in Epochs \cup {None}, b \in Sessions \cup {None} :
                 /\ EpochOpened(p, b) \in EpochRecord
                 /\ EpochOpened(p, b).inc = file.inc /\ EpochOpened(p, b).pred = p
           /\ \A e \in Epochs, x \in Sessions :
                 /\ Observed(w, e, x) \in SenderState
                 /\ Observed(w, e, x).pc = "observed" /\ Observed(w, e, x).epoch = e
           /\ LegacyPosition \in Nat
           /\ Revision \in Seq(Record) \cup {None}
<1>1. sender[w] \in [pc : {"scan"}, limit : 1 .. MaxBatch, bound : Sessions \cup {None}]
    BY SenderFields DEF LaneInv, SendersOK
<1>2. SourceLen \in Nat /\ file.inc \in Nat /\ file.data \in Seq(Record)
    BY DEF LaneInv, FileOK, SourceLen
<1>3. \A b \in Sessions \cup {None} : SessionFor(b) \in Sessions
    BY LaneAssumption DEF SessionFor
<1>4. Revision \in Seq(Record) \cup {None}
    BY <1>2 DEF Revision
<1>5. \A p \in Epochs \cup {None}, b \in Sessions \cup {None} :
         /\ EpochOpened(p, b) \in EpochRecord
         /\ EpochOpened(p, b).inc = file.inc /\ EpochOpened(p, b).pred = p
    BY <1>2, <1>4 DEF EpochOpened, EpochRecord
<1>6. \A e \in Epochs, x \in Sessions :
         /\ Observed(w, e, x) \in SenderState
         /\ Observed(w, e, x).pc = "observed" /\ Observed(w, e, x).epoch = e
    BY <1>1 DEF Observed, SenderState
<1>7. LegacyPosition \in Nat
    BY LaneAssumption DEF LegacyPosition
<1>8. QED BY <1>1, <1>2, <1>3, <1>4, <1>5, <1>6, <1>7

\* A new epoch is registered for the file as it is.
LEMMA RegisterKeepsInv ==
    ASSUME LaneInv, NEW w \in Senders, sender[w].pc = "scan",
           NEW e \in Epochs, e \notin Registered, NEW p \in Epochs \cup {None}, NEW n \in Nat,
           NEW b \in Sessions \cup {None}, NEW x \in Sessions,
           registry' = With(registry, e, EpochOpened(p, b)), cursor' = With(cursor, e, n),
           active' = e, Become(w, Observed(w, e, x)),
           UNCHANGED <<hostVars, file, bound, pending, late, backup, budget>>
    PROVE  LaneInv'
<1> DEFINE row == EpochOpened(p, b)
<1>1. row \in EpochRecord /\ row.inc = file.inc /\ file.inc \in Nat
    BY ObservationFacts
<1>2. registry \in [Registered -> EpochRecord] /\ cursor \in [Registered -> Nat]
    BY DEF LaneInv, RegistryOK, CursorOK
<1> HIDE DEF row
<1>3. /\ Registered' = Registered \cup {e}
      /\ registry' \in [Registered \cup {e} -> EpochRecord]
      /\ registry'[e] = row
      /\ \A f \in Registered : registry'[f] = registry[f]
    BY <1>1, <1>2 DEF With, Registered, row
<1>4. cursor' \in [Registered \cup {e} -> Nat]
    BY <1>2 DEF With
<1>5. RegistryOK' /\ CursorOK'
    BY <1>1, <1>3, <1>4, HostAssumption DEF LaneInv, RegistryOK, CursorOK
<1>6. QED BY <1>1, <1>3, <1>5, ObservationFacts, ObserveStep

\* ObserveFirst, ObserveRotation and ObserveSame.
LEMMA ObserveKeepsInv ==
    ASSUME LaneInv, NEW w \in Senders,
           ObserveFirst(w) \/ ObserveRotation(w) \/ ObserveSame(w)
    PROVE  LaneInv'
<1>1. sender[w].pc = "scan"
    BY DEF ObserveFirst, ObserveRotation, ObserveSame
<1>2. sender[w].bound \in Sessions \cup {None} /\ SessionFor(sender[w].bound) \in Sessions
    BY <1>1, ObservationFacts
<1>3. CASE ObserveFirst(w)
    <2>1. FreshEpoch \in Epochs /\ FreshEpoch \notin Registered
        BY <1>3, LaneAssumption DEF ObserveFirst, FreshEpoch, LaneInv, RegistryOK
    <2>2. LegacyPosition \in Nat /\ None \in Epochs \cup {None}
        BY <1>1, ObservationFacts
    <2>3. QED BY <1>1, <1>2, <1>3, <2>1, <2>2, RegisterKeepsInv DEF ObserveFirst
<1>4. CASE ObserveRotation(w)
    <2>1. FreshEpoch \in Epochs /\ FreshEpoch \notin Registered
        BY <1>4 DEF ObserveRotation, FreshEpoch, LaneInv, RegistryOK
    <2>2. active \in Epochs \cup {None} /\ 0 \in Nat
        BY DEF LaneInv, RegistryOK
    <2>3. QED BY <1>1, <1>2, <1>4, <2>1, <2>2, RegisterKeepsInv DEF ObserveRotation
<1>5. CASE ObserveSame(w)
    <2> DEFINE old == registry[active]
               len == IF SourceLen > old.maxLen THEN SourceLen ELSE old.maxLen
               rev == IF Revision # None THEN Revision ELSE old.revision
               bnd == IF sender[w].bound # None THEN sender[w].bound ELSE old.bound
               row == [old EXCEPT !.maxLen = len, !.revision = rev, !.bound = bnd]
               x == SessionFor(IF old.bound # None THEN old.bound ELSE sender[w].bound)
    <2>1. active \in Registered /\ active \in Epochs /\ old \in EpochRecord /\ old.inc = file.inc
        BY <1>5 DEF ObserveSame, Rotates, LaneInv, RegistryOK
    <2>2. len \in Nat /\ rev \in Seq(Record) \cup {None} /\ bnd \in Sessions \cup {None}
        BY <1>1, <1>2, <2>1, ObservationFacts DEF EpochRecord
    <2>3. registry' = [registry EXCEPT ![active] = row]
        BY <1>5 DEF ObserveSame
    <2>9. x \in Sessions
        BY <1>1, <1>2, <2>1, ObservationFacts DEF EpochRecord
    <2>10. /\ Become(w, Observed(w, active, x)) /\ UNCHANGED <<active, cursor>>
           /\ UNCHANGED <<hostVars, file, bound, pending, late, backup, budget>>
        BY <1>5 DEF ObserveSame
    <2> HIDE DEF len, rev, bnd, x
    <2>4. row \in EpochRecord /\ row.inc = file.inc
        BY <2>1, <2>2 DEF EpochRecord
    <2> HIDE DEF row
    <2>5. /\ Registered' = Registered
          /\ registry' \in [Registered -> EpochRecord]
          /\ registry'[active].inc = file.inc
          /\ \A f \in Registered : registry'[f].inc = registry[f].inc
        BY <2>1, <2>3, <2>4 DEF LaneInv, RegistryOK, Registered
    <2>6. RegistryOK' /\ CursorOK'
        BY <2>5, <2>10 DEF LaneInv, RegistryOK, CursorOK
    <2>7. QED BY <1>1, <2>1, <2>5, <2>6, <2>9, <2>10, ObservationFacts, ObserveStep
<1>6. QED BY <1>3, <1>4, <1>5

-----------------------------------------------------------------------------
(* Steps of the host, of its restore point and of the file.                *)

\* The host changes its tables: new rows come from envelopes on their way.
LEMMA HostStep ==
    ASSUME LaneInv, UNCHANGED <<file, bound, registry, active, cursor, pending, backup>>,
           HostInv', \A r \in raw' : r \in raw \/ \E env \in Carried : r = RawOf(env),
           SendersOK', ObservedIsCurrent', BudgetOK', Carried' \subseteq Carried
    PROVE  LaneInv'
<1>1. FileOK' /\ RegistryOK' /\ CursorOK' /\ PendingOK'
    BY DEF LaneInv, FileOK, RegistryOK, CursorOK, PendingOK, Registered, SourceLen
<1>2. BackupOK'
    BY BackupStays DEF LaneInv
<1>3. \A x : Piece(x) => Piece(x)'
    BY DEF Piece, Registered, Document, SourceLen
<1>4. \A x : Piece(x) => Piece(RawOf(x))
    BY DEF Piece, RawOf
<1>5. \A x \in Stored' : Piece(x)
    BY <1>4 DEF LaneInv, PiecesOK, Stored
<1>6. PiecesOK'
    BY <1>3, <1>5 DEF LaneInv, PiecesOK
<1>7. QED BY <1>1, <1>2, <1>6 DEF LaneInv

\* Whatever the host answers, it inserts the envelope or nothing.
LEMMA IngestInserts ==
    ASSUME NEW env, NEW screen, Ingest(env, screen, Verdict(env, screen))
    PROVE  \A r \in raw' : r \in raw \/ r = RawOf(env)
BY DEF Ingest, CommitRawObject, RepairWatermark, hostVars

\* The outcomes of the checks the model leaves out do not read like a receipt.
LEMMA ScreensAreRefusals ==
    ASSUME NEW screen \in Screens
    PROVE  /\ screen \notin {"created", "replay"}
           /\ \A env : Verdict(env, screen) \in Waiting
BY LaneAssumption DEF Verdict, Waiting, Renderings

\* HostAnswers.
LEMMA AnswerKeepsInv ==
    ASSUME LaneInv, NEW w \in Senders, NEW screen \in Screens, HostAnswers(w, screen)
    PROVE  LaneInv'
<1> DEFINE env == sender[w].env
<1>1. /\ sender[w].pc = "posted" /\ env \in Carried /\ env \in Envelope
      /\ sender[w] \in [pc : Waiting, env : Envelope, block : Blocks \cup {None}]
    BY CarriedFacts, SenderFields DEF HostAnswers, Carrying, Waiting
<1>2. IsRequest(env)
    BY <1>1, CarriedIsRequest
<1>3. PICK reply \in Waiting :
         /\ Become(w, [sender[w] EXCEPT !.pc = reply])
         /\ Ingest(env, screen, Verdict(env, screen)) \/ UNCHANGED hostVars
    BY ScreensAreRefusals DEF HostAnswers, Waiting
<1> DEFINE st == [sender[w] EXCEPT !.pc = reply]
<1>4. st \in SenderState /\ st.pc = reply /\ st.env = env
    BY <1>1 DEF SenderState
<1>5. /\ HostInv'
      /\ \A r \in raw' : r \in raw \/ r = RawOf(env)
    <2>1. CASE Ingest(env, screen, Verdict(env, screen))
        BY <1>2, <2>1, IngestKeepsInv, IngestInserts, ScreensAreRefusals DEF LaneInv
    <2>2. CASE UNCHANGED hostVars
        BY <2>2, StutterKeepsInv DEF LaneInv, hostVars
    <2>3. QED BY <1>3, <2>1, <2>2
<1> HIDE DEF st, env
<1>6. /\ sender' \in [Senders -> SenderState]
      /\ sender'[w] = st
      /\ \A v \in Senders \ {w} : sender'[v] = sender[v]
    BY <1>3, <1>4 DEF LaneInv, SendersOK, Become, st
<1>7. UNCHANGED <<file, bound, registry, active, cursor, pending, late, backup, budget>>
    BY DEF HostAnswers
<1>8. st.pc \notin Deciding \cup {"observed"}
    BY <1>4 DEF Deciding, Waiting
<1>9. SendersOK' /\ ObservedIsCurrent' /\ BudgetOK'
    BY <1>6, <1>7, <1>8 DEF LaneInv, SendersOK, ObservedIsCurrent, BudgetOK, Registered,
                            ProvenInside, Document
<1>10. Carried' \subseteq Carried
    <2>1. \A v \in Senders : sender'[v].pc \in Carrying => sender'[v].env \in Carried
        BY <1>1, <1>4, <1>6, CarriedFacts
    <2>2. QED BY <1>7, <2>1 DEF Carried
<1>11. QED BY <1>1, <1>5, <1>7, <1>9, <1>10, HostStep

\* LateArrival and DeleteSession.
LEMMA LateKeepsInv ==
    ASSUME LaneInv, \/ \E env \in late, screen \in Screens : LateArrival(env, screen)
                    \/ \E s \in Sessions : DeleteSession(s)
    PROVE  LaneInv'
<1>1. ASSUME NEW env \in late, NEW screen \in Screens, LateArrival(env, screen)
      PROVE  LaneInv'
    <2>1. env \in Carried
        BY DEF Carried
    <2>2. IsRequest(env)
        BY <2>1, CarriedIsRequest
    <2>3. /\ HostInv'
          /\ \A r \in raw' : r \in raw \/ r = RawOf(env)
        <3>1. CASE Ingest(env, screen, Verdict(env, screen))
            BY <2>2, <3>1, IngestKeepsInv, IngestInserts, ScreensAreRefusals DEF LaneInv
        <3>2. CASE UNCHANGED hostVars
            BY <3>2, StutterKeepsInv DEF LaneInv, hostVars
        <3>3. QED BY <1>1, <3>1, <3>2 DEF LateArrival
    <2>4. /\ UNCHANGED <<file, bound, registry, active, cursor, pending, sender, backup, budget>>
          /\ late' \subseteq late
        BY <1>1 DEF LateArrival
    <2>5. SendersOK' /\ ObservedIsCurrent' /\ BudgetOK'
        BY <2>4 DEF LaneInv, SendersOK, ObservedIsCurrent, BudgetOK, Registered,
                    ProvenInside, Document
    <2>6. Carried' \subseteq Carried
        BY <2>4 DEF Carried
    <2>7. QED BY <2>1, <2>3, <2>4, <2>5, <2>6, HostStep
<1>2. ASSUME NEW s \in Sessions, DeleteSession(s)
      PROVE  LaneInv'
    <2>1. HostInv' /\ raw' = raw
        BY <1>2, DeleteKeepsInv DEF DeleteSession, DeleteStorageSession, LaneInv
    <2>2. UNCHANGED <<file, bound, registry, active, cursor, pending, sender, late, backup>>
        BY <1>2 DEF DeleteSession
    <2>3. SendersOK' /\ ObservedIsCurrent' /\ Carried' = Carried
        BY <2>2 DEF LaneInv, SendersOK, ObservedIsCurrent, Registered, ProvenInside, Document,
                    Carried
    <2>4. BudgetOK'
        BY <1>2 DEF DeleteSession, LaneInv, BudgetOK
    <2>5. QED BY <2>1, <2>2, <2>3, <2>4, HostStep
<1>3. QED BY <1>1, <1>2

\* TakeRestorePoint.
LEMMA SaveKeepsInv ==
    ASSUME LaneInv, TakeRestorePoint
    PROVE  LaneInv'
<1>1. /\ backup'.epochs = epochs /\ backup'.raw = raw /\ backup'.retired = retired
      /\ backup'.tombstones = tombstones /\ backup'.commitSeq = commitSeq
      /\ backup'.desired = desired /\ backup'.unrendered = unrendered
    BY DEF TakeRestorePoint
<1>2. UNCHANGED <<hostVars, file, bound, registry, active, cursor, pending, sender, late, budget>>
    BY DEF TakeRestorePoint
<1>3. BackupOK'
    <2>1. Saved!HostTypeOK'
        BY <1>1 DEF LaneInv, HostInv, HostTypeOK, Known, EpochRow, Saved!HostTypeOK, Saved!Known,
                    Saved!EpochRow
    <2>2. Saved!OneOpenEpoch' /\ Saved!LineageIsAChain' /\ Saved!OneSession'
        BY <1>1 DEF LaneInv, HostInv, OneOpenEpoch, LineageIsAChain, OneSession, Known,
                    Saved!OneOpenEpoch, Saved!LineageIsAChain, Saved!OneSession, Saved!Known
    <2>3. Saved!RetiredWithCause' /\ Saved!Counted' /\ Saved!NoRowsNoWatermark'
        BY <1>1 DEF LaneInv, HostInv, RetiredWithCause, Counted, NoRowsNoWatermark, Known, RawIn,
                    Saved!RetiredWithCause, Saved!Counted, Saved!NoRowsNoWatermark, Saved!Known,
                    Saved!RawIn
    <2>4. Saved!Based' /\ Saved!ContiguousArchive'
        BY <1>1 DEF LaneInv, HostInv, Based, ContiguousArchive, Known, RawIn, Saved!Based,
                    Saved!ContiguousArchive, Saved!Known, Saved!RawIn
    <2>5. QED BY <2>1, <2>2, <2>3, <2>4 DEF BackupOK, Saved!HostInv
<1>4. HostInv'
    BY <1>2, StutterKeepsInv DEF LaneInv
<1>5. \A x : Piece(x) => Piece(x)'
    BY <1>2 DEF Piece, Registered, Document, SourceLen
<1>6. \A x \in Stored' : x \in Stored
    BY <1>1, <1>2 DEF Stored, hostVars
<1>7. PiecesOK'
    BY <1>2, <1>5, <1>6 DEF LaneInv, PiecesOK, Carried
<1>8. /\ FileOK' /\ RegistryOK' /\ CursorOK' /\ PendingOK' /\ BudgetOK'
      /\ SendersOK' /\ ObservedIsCurrent'
    BY <1>2 DEF LaneInv, FileOK, RegistryOK, CursorOK, PendingOK, BudgetOK, SendersOK,
                ObservedIsCurrent, Registered, SourceLen, ProvenInside, Document
<1>9. QED BY <1>3, <1>4, <1>7, <1>8 DEF LaneInv

\* RestoreHost.
LEMMA RestoreKeepsInv ==
    ASSUME LaneInv, RestoreHost
    PROVE  LaneInv'
<1>1. /\ backup # None /\ backup' = None
      /\ epochs' = backup.epochs /\ raw' = backup.raw /\ retired' = backup.retired
      /\ tombstones' = backup.tombstones /\ commitSeq' = backup.commitSeq
      /\ desired' = backup.desired /\ unrendered' = backup.unrendered
    BY DEF RestoreHost
<1>2. UNCHANGED <<file, bound, registry, active, cursor, pending, sender, late>>
    BY DEF RestoreHost
<1>3. HostInv'
    <2>1. Saved!HostInv
        BY <1>1 DEF LaneInv, BackupOK
    <2>2. QED
        BY <1>1, <2>1 DEF HostInv, HostTypeOK, OneOpenEpoch, LineageIsAChain, OneSession,
           RetiredWithCause, Counted, NoRowsNoWatermark, Based, ContiguousArchive, Known, RawIn,
           EpochRow, Saved!HostInv, Saved!HostTypeOK, Saved!OneOpenEpoch,
           Saved!LineageIsAChain, Saved!OneSession, Saved!RetiredWithCause, Saved!Counted,
           Saved!NoRowsNoWatermark, Saved!Based, Saved!ContiguousArchive, Saved!Known,
           Saved!RawIn, Saved!EpochRow
<1>4. BackupOK'
    BY <1>1 DEF BackupOK
<1>5. \A x : Piece(x) => Piece(x)'
    BY <1>2 DEF Piece, Registered, Document, SourceLen
<1>6. \A x \in Stored' : x \in Stored
    BY <1>1 DEF Stored
<1>7. PiecesOK'
    BY <1>2, <1>5, <1>6 DEF LaneInv, PiecesOK, Carried
<1>8. BudgetOK'
    BY LaneAssumption DEF RestoreHost, LaneInv, BudgetOK
<1>9. /\ FileOK' /\ RegistryOK' /\ CursorOK' /\ PendingOK'
      /\ SendersOK' /\ ObservedIsCurrent'
    BY <1>2 DEF LaneInv, FileOK, RegistryOK, CursorOK, PendingOK, SendersOK,
                ObservedIsCurrent, Registered, SourceLen, ProvenInside, Document
<1>10. QED BY <1>3, <1>4, <1>7, <1>8, <1>9 DEF LaneInv

\* The file changes: it grows, is cut short, or becomes another one.
LEMMA FileStep ==
    ASSUME LaneInv,
           UNCHANGED <<hostVars, bound, registry, active, cursor, pending, sender, late, backup, budget>>,
           FileOK', file'.provider = file.provider, file.inc <= file'.inc,
           SteadyFile => \/ file'.inc = file.inc
                         \/ \A w \in Senders : sender[w].pc # "observed",
           "truncate" \notin FileOps /\ file'.inc = file.inc =>
               SourceLen <= SourceLen' /\ \A i \in 1 .. SourceLen : file'.data[i] = file.data[i]
    PROVE  LaneInv'
<1>1. file.inc \in Nat /\ file'.inc \in Nat /\ SourceLen \in Nat /\ SourceLen' \in Nat
    BY DEF LaneInv, FileOK, SourceLen
<1>2. \A e \in Registered : registry[e].inc \in Nat /\ registry[e].inc <= file.inc
    BY DEF LaneInv, RegistryOK, EpochRecord
<1>3. RegistryOK'
    BY <1>1, <1>2 DEF LaneInv, RegistryOK, Registered
<1>4. ASSUME NEW x, Piece(x) PROVE Piece(x)'
    <2>1. Registered' = Registered /\ registry' = registry /\ Document' = Document
        BY DEF Registered, Document
    <2>2. ASSUME "truncate" \notin FileOps, registry[x.epoch].inc = file'.inc
          PROVE  /\ x.end <= SourceLen'
                 /\ \A i \in 1 .. (x.end - x.start) : x.data[i] = file'.data[x.start + i]
        <3>1. file'.inc = file.inc
            BY <1>1, <1>2, <1>4, <2>2 DEF Piece
        <3>2. /\ x.end <= SourceLen /\ x.start \in Nat /\ x.end \in Nat
              /\ \A i \in 1 .. (x.end - x.start) : x.data[i] = file.data[x.start + i]
            BY <1>4, <2>2, <3>1 DEF Piece
        <3>3. /\ SourceLen <= SourceLen'
              /\ \A i \in 1 .. SourceLen : file'.data[i] = file.data[i]
            BY <2>2, <3>1
        <3>4. \A i \in 1 .. (x.end - x.start) : x.start + i \in 1 .. SourceLen
            BY <1>1, <3>2
        <3>5. QED BY <1>1, <3>2, <3>3, <3>4
    <2>3. QED BY <1>4, <2>1, <2>2 DEF Piece
<1>5. PiecesOK'
    BY <1>4 DEF LaneInv, PiecesOK, Carried, Stored, hostVars
<1>6. CursorOK' /\ PendingOK' /\ BudgetOK'
    BY DEF LaneInv, CursorOK, PendingOK, BudgetOK, Registered
<1>7. SendersOK' /\ ObservedIsCurrent'
    BY DEF LaneInv, SendersOK, ObservedIsCurrent, Registered, ProvenInside, Document
<1>8. HostInv' /\ BackupOK'
    BY StutterKeepsInv, BackupStays DEF LaneInv
<1>9. QED BY <1>3, <1>5, <1>6, <1>7, <1>8 DEF LaneInv

\* AppendRecord, ReplaceFile, TruncateFile and BindSession.
LEMMA ProviderKeepsInv ==
    ASSUME LaneInv, \/ AppendRecord
                    \/ \E n \in 0 .. MaxLen : ReplaceFile(n) \/ TruncateFile(n)
                    \/ \E s \in Sessions : BindSession(s)
    PROVE  LaneInv'
<1>1. /\ file \in [provider : Providers, inc : Nat, rewrites : Nat, data : Seq(Record)]
      /\ file.inc \in Nat /\ file.rewrites \in Nat /\ file.inc <= file.rewrites
      /\ file.data \in Seq(Record) /\ SourceLen \in Nat /\ SourceLen = Len(file.data)
      /\ \A i \in 1 .. SourceLen : file.data[i] \in Record /\ file.data[i].inc = file.inc
    BY DEF LaneInv, FileOK, SourceLen
<1>2. CASE AppendRecord
    <2> DEFINE new == [inc |-> file.inc, rewrite |-> file.rewrites, at |-> SourceLen + 1]
               data == Append(file.data, new)
    <2>1. file' = [file EXCEPT !.data = data]
        BY <1>2 DEF AppendRecord
    <2>2. new \in Record /\ new.inc = file.inc
        BY <1>1 DEF Record
    <2> HIDE DEF new
    <2>3. /\ data \in Seq(Record) /\ Len(data) = SourceLen + 1
          /\ \A i \in 1 .. SourceLen : data[i] = file.data[i]
          /\ data[SourceLen + 1] = new
        BY <1>1, <2>2, AppendProperties
    <2>4. \A i \in 1 .. Len(data) : data[i].inc = file.inc
        BY <1>1, <2>2, <2>3
    <2> HIDE DEF data
    <2>5. /\ file'.provider = file.provider /\ file'.inc = file.inc /\ file'.data = data
          /\ file' \in [provider : Providers, inc : Nat, rewrites : Nat, data : Seq(Record)]
          /\ file'.rewrites = file.rewrites
        BY <1>1, <2>1, <2>3
    <2>6. FileOK'
        BY <1>1, <2>3, <2>4, <2>5 DEF FileOK, SourceLen
    <2>7. SourceLen' = SourceLen + 1
        BY <2>3, <2>5 DEF SourceLen
    <2>8. QED BY <1>1, <1>2, <2>3, <2>5, <2>6, <2>7, FileStep DEF AppendRecord
<1>3. ASSUME NEW n \in 0 .. MaxLen, ReplaceFile(n) PROVE LaneInv'
    <2> DEFINE g == file.rewrites + 1
               data == [i \in 1 .. n |-> [inc |-> g, rewrite |-> g, at |-> i]]
    <2>1. file' = [file EXCEPT !.inc = g, !.rewrites = g, !.data = data]
        BY <1>3 DEF ReplaceFile
    <2>2. n \in Nat /\ g \in Nat /\ file.inc < g
        BY <1>1, LaneAssumption
    <2> HIDE DEF g
    <2>3. data \in Seq(Record) /\ Len(data) = n
        BY <2>2, LenProperties, IsASeq DEF Record
    <2>4. \A i \in 1 .. n : data[i].inc = g
        OBVIOUS
    <2> HIDE DEF data
    <2>5. /\ file'.provider = file.provider /\ file'.inc = g /\ file'.data = data
          /\ file' \in [provider : Providers, inc : Nat, rewrites : Nat, data : Seq(Record)]
          /\ file'.rewrites = g
        BY <1>1, <2>1, <2>2, <2>3
    <2>6. FileOK'
        BY <2>2, <2>3, <2>4, <2>5 DEF FileOK, SourceLen
    <2>7. SteadyFile => \A w \in Senders : sender[w].pc # "observed"
        BY <1>3 DEF ReplaceFile, Rewritable
    <2>8. file.inc <= file'.inc /\ file'.inc # file.inc
        BY <1>1, <2>2, <2>5
    <2>9. QED BY <1>3, <2>5, <2>6, <2>7, <2>8, FileStep DEF ReplaceFile
<1>4. ASSUME NEW n \in 0 .. MaxLen, TruncateFile(n) PROVE LaneInv'
    <2> DEFINE data == SubSeq(file.data, 1, n)
               g == file.rewrites + 1
    <2>1. file' = [file EXCEPT !.rewrites = g, !.data = data]
        BY <1>4 DEF TruncateFile
    <2>2. n \in Nat /\ n < SourceLen /\ "truncate" \in FileOps
        <3>1. MaxLen \in Nat
            BY LaneAssumption
        <3>2. n < SourceLen /\ "truncate" \in FileOps
            BY <1>4 DEF TruncateFile
        <3>3. QED BY <3>1, <3>2
    <2>3. data \in Seq(Record) /\ Len(data) = n /\ \A i \in 1 .. n : data[i] = file.data[i]
        <3>1. \A i \in 1 .. n : file.data[i] \in Record
            BY <1>1, <2>2
        <3>2. /\ SubSeq(file.data, 1, n) \in Seq(Record)
              /\ Len(SubSeq(file.data, 1, n)) = IF 1 <= n THEN n - 1 + 1 ELSE 0
              /\ \A i \in 1 .. (n - 1 + 1) : SubSeq(file.data, 1, n)[i] = file.data[1 + i - 1]
            BY <2>2, <3>1, SubSeqProperties
        <3>3. \A i \in 1 .. n : 1 + i - 1 = i /\ i \in 1 .. (n - 1 + 1)
            BY <2>2
        <3>4. QED BY <2>2, <3>2, <3>3
    <2>4. g \in Nat /\ file.inc <= g
        BY <1>1
    <2> HIDE DEF data, g
    <2>5. /\ file'.provider = file.provider /\ file'.inc = file.inc /\ file'.data = data
          /\ file' \in [provider : Providers, inc : Nat, rewrites : Nat, data : Seq(Record)]
          /\ file'.rewrites = g
        BY <1>1, <2>1, <2>3, <2>4
    <2>6. FileOK'
        BY <1>1, <2>2, <2>3, <2>4, <2>5 DEF FileOK, SourceLen
    <2>7. file.inc <= file'.inc
        BY <1>1, <2>5
    <2>8. UNCHANGED <<hostVars, bound, registry, active, cursor, pending, sender, late, backup, budget>>
        BY <1>4 DEF TruncateFile
    <2>9. QED BY <2>2, <2>5, <2>6, <2>7, <2>8, FileStep
<1>5. ASSUME NEW s \in Sessions, BindSession(s) PROVE LaneInv'
    <2>1. UNCHANGED <<hostVars, file, registry, active, cursor, pending, sender, late, backup>>
        BY <1>5 DEF BindSession
    <2>2. BudgetOK'
        BY <1>5 DEF BindSession, LaneInv, BudgetOK
    <2>3. RegistryOK'
        BY <1>5, <2>1 DEF BindSession, LaneInv, RegistryOK, Registered
    <2>4. /\ FileOK' /\ CursorOK' /\ PendingOK' /\ SendersOK' /\ ObservedIsCurrent'
        BY <2>1 DEF LaneInv, FileOK, CursorOK, PendingOK, SendersOK, ObservedIsCurrent,
                    Registered, SourceLen, ProvenInside, Document
    <2>5. \A x : Piece(x) => Piece(x)'
        BY <2>1 DEF Piece, Registered, Document, SourceLen
    <2>6. PiecesOK'
        BY <2>1, <2>5 DEF LaneInv, PiecesOK, Carried, Stored, hostVars
    <2>7. HostInv' /\ BackupOK'
        BY <2>1, StutterKeepsInv, BackupStays DEF LaneInv
    <2>8. QED BY <2>2, <2>3, <2>4, <2>6, <2>7 DEF LaneInv
<1>6. QED BY <1>2, <1>3, <1>4, <1>5

-----------------------------------------------------------------------------
(* Theorems of the whole lane.                                             *)

\* LaneInv holds at the start.
LEMMA LaneInitInv == LaneInit => LaneInv
<1> SUFFICES ASSUME LaneInit PROVE LaneInv
    OBVIOUS
<1> DEFINE data == [i \in 1 .. LegacyOffset |-> [inc |-> 0, rewrite |-> 0, at |-> i]]
<1>1. PICK p \in Providers : file = [provider |-> p, inc |-> 0, rewrites |-> 0, data |-> data]
    BY DEF LaneInit
<1>2. data \in Seq(Record) /\ Len(data) = LegacyOffset /\ \A i \in 1 .. LegacyOffset : data[i].inc = 0
    BY LaneAssumption, LenProperties, IsASeq DEF Record
<1> HIDE DEF data
<1>3. FileOK
    BY <1>1, <1>2 DEF FileOK, SourceLen
<1>4. BudgetOK
    BY LaneAssumption DEF LaneInit, BudgetOK
<1>5. RegistryOK /\ CursorOK /\ PendingOK
    BY DEF LaneInit, RegistryOK, CursorOK, PendingOK, Registered
<1>6. \A w \in Senders : sender[w].pc = "idle"
    BY DEF LaneInit, Idle
<1>7. SendersOK /\ ObservedIsCurrent
    <2>1. Idle \in SenderState
        BY DEF Idle, SenderState
    <2>2. sender \in [Senders -> SenderState]
        BY <2>1 DEF LaneInit
    <2>3. QED BY <1>6, <2>2 DEF SendersOK, ObservedIsCurrent, Deciding
<1>8. PiecesOK
    BY <1>6 DEF LaneInit, HostInit, PiecesOK, Carried, Stored, Carrying, Holding, Waiting, Deciding
<1>9. HostInv
    BY DEF LaneInit, HostInit, HostInv, HostTypeOK, OneOpenEpoch, LineageIsAChain, OneSession,
           RetiredWithCause, Counted, NoRowsNoWatermark, Based, ContiguousArchive, Known, RawIn
<1>10. BackupOK
    BY DEF LaneInit, BackupOK
<1>11. QED BY <1>3, <1>4, <1>5, <1>7, <1>8, <1>9, <1>10 DEF LaneInv

\* Every step of the lane keeps LaneInv.
LEMMA LaneStepInv == LaneInv /\ [Next]_vars => LaneInv'
<1> SUFFICES ASSUME LaneInv, [Next]_vars PROVE LaneInv'
    OBVIOUS
<1>1. ASSUME NEW w \in Senders, Prepare(w) PROVE LaneInv'
    BY <1>1, LoadKeepsInv, ObserveKeepsInv, ReadBatchKeepsInv, CandidateKeepsInv, LaneAssumption
       DEF Prepare
<1>2. ASSUME NEW w \in Senders, Ship(w) PROVE LaneInv'
    BY <1>2, MarkKeepsInv, AnswerKeepsInv, CursorMoveKeepsInv, ExamineKeepsInv, ReconcileKeepsInv
       DEF Ship
<1>3. CASE Environment
    BY <1>3, ProviderKeepsInv, GiveUpKeepsInv, MarkKeepsInv, LateKeepsInv, SaveKeepsInv,
       RestoreKeepsInv DEF Environment
<1>4. CASE UNCHANGED vars
    <2>1. UNCHANGED <<hostVars, file, bound, registry, active, cursor, pending, sender, late,
                      backup, budget>>
        BY <1>4 DEF vars, laneVars
    <2>2. /\ PendingOK' /\ SendersOK' /\ ObservedIsCurrent' /\ BudgetOK'
          /\ cursor' \in [Registered -> Nat] /\ Carried' = Carried
        BY <2>1 DEF LaneInv, PendingOK, SendersOK, ObservedIsCurrent, BudgetOK, CursorOK,
                    Registered, ProvenInside, Document, Carried
    <2>3. QED BY <2>1, <2>2, AgentStep
<1>5. QED BY <1>1, <1>2, <1>3, <1>4 DEF Next

\* LaneInv is an inductive invariant of the lane.
THEOREM LaneInvariant == Spec => []LaneInv
BY LaneInitInv, LaneStepInv, PTL DEF Spec

\* The tables and the senders stay well-formed, with whatever a racing sender, a
\* late request or a restored host does to them.
THEOREM LaneTyping == Spec => []LaneTypeOK
<1>1. LaneInv => LaneTypeOK
    <2> SUFFICES ASSUME LaneInv PROVE LaneTypeOK
        OBVIOUS
    <2>1. /\ Registered \subseteq Epochs /\ active \in Registered \cup {None}
          /\ DOMAIN cursor = Registered /\ \A e \in Registered : cursor[e] \in Nat
          /\ DOMAIN pending \subseteq Registered
        BY DEF LaneInv, RegistryOK, CursorOK, PendingOK
    <2>2. \A env \in Carried : IsEnvelope(env)
        BY DEF LaneInv, PiecesOK, Piece, IsEnvelope
    <2>3. \A e \in DOMAIN pending : IsEnvelope(pending[e].env) /\ pending[e].env.epoch = e
        BY <2>2, CarriedFacts
    <2>4. \A w \in Senders : "env" \in DOMAIN sender[w] => IsEnvelope(sender[w].env)
        BY <2>2, CarriedFacts, SenderFields
    <2>5. \A env \in late : IsEnvelope(env)
        BY <2>2 DEF Carried
    <2>6. QED BY <2>1, <2>3, <2>4, <2>5 DEF LaneTypeOK
<1>2. QED BY <1>1, LaneInvariant, PTL

\* What the host holds of the file on disk is what the file holds there, for a
\* file that only grows or is replaced: the bytes a retry, a suffix or a late
\* request carries were read from the file its epoch was registered for.
THEOREM ArchiveIsTheTranscript == Spec => []ArchiveMatchesFile
<1>1. LaneInv => ArchiveMatchesFile
    <2> SUFFICES ASSUME LaneInv, "truncate" \notin FileOps, NEW r \in raw,
                        r.epoch \in Registered, registry[r.epoch].inc = file.inc
                 PROVE  r.end <= SourceLen /\ r.data = SubSeq(file.data, r.start + 1, r.end)
        BY DEF ArchiveMatchesFile
    <2>1. Piece(r)
        BY DEF LaneInv, PiecesOK, Stored
    <2>2. /\ r.start \in Nat /\ r.end \in Nat /\ r.start < r.end /\ r.end <= SourceLen
          /\ r.data \in Seq(Record) /\ Len(r.data) = r.end - r.start
          /\ \A i \in 1 .. (r.end - r.start) : r.data[i] = file.data[r.start + i]
        BY <2>1 DEF Piece
    <2>3. file.data \in Seq(Record) /\ SourceLen = Len(file.data) /\ SourceLen \in Nat
        BY DEF LaneInv, FileOK, SourceLen
    <2> DEFINE d == SubSeq(file.data, r.start + 1, r.end)
    <2>4. /\ d \in Seq(Record) /\ Len(d) = r.end - r.start
          /\ \A i \in 1 .. (r.end - r.start) : d[i] = file.data[r.start + i]
        <3>1. \A i \in (r.start + 1) .. r.end : file.data[i] \in Record
            BY <2>2, <2>3
        <3>2. /\ d \in Seq(Record)
              /\ Len(d) = IF r.start + 1 <= r.end THEN r.end - (r.start + 1) + 1 ELSE 0
              /\ \A i \in 1 .. (r.end - (r.start + 1) + 1) : d[i] = file.data[(r.start + 1) + i - 1]
            BY <2>2, <3>1, SubSeqProperties
        <3> HIDE DEF d
        <3>3. /\ r.start + 1 <= r.end /\ r.end - (r.start + 1) + 1 = r.end - r.start
              /\ \A i \in 1 .. (r.end - r.start) : (r.start + 1) + i - 1 = r.start + i
            BY <2>2
        <3>4. QED BY <3>2, <3>3
    <2> HIDE DEF d
    <2>5. r.data = d
        <3>1. Len(r.data) = Len(d) /\ \A i \in 1 .. Len(r.data) : r.data[i] = d[i]
            BY <2>2, <2>4
        <3>2. QED BY <2>2, <2>4, <3>1, SeqEqual
    <2>6. QED BY <2>2, <2>5 DEF d
<1>2. QED BY <1>1, LaneInvariant, PTL

\* No record of another incarnation of the file is ever archived or queued under
\* an epoch, if the file is not swapped between observing and reading it.
THEOREM EpochsNameOneFile == Spec => []EpochNamesOneFile
<1>1. LaneInv => EpochNamesOneFile
    <2> SUFFICES ASSUME LaneInv, SteadyFile PROVE EpochNamesOneFile
        BY DEF EpochNamesOneFile
    <2>1. ASSUME NEW x, Piece(x) PROVE \A i \in DOMAIN x.data : x.data[i].inc = registry[x.epoch].inc
        <3>1. DOMAIN x.data = 1 .. (x.end - x.start)
            BY <2>1, LenProperties DEF Piece
        <3>2. QED BY <2>1, <3>1 DEF Piece
    <2>2. \A r \in raw : Piece(r)
        BY DEF LaneInv, PiecesOK, Stored
    <2>3. \A e \in DOMAIN pending : Piece(pending[e].env) /\ pending[e].env.epoch = e
        BY CarriedFacts, CarriedIsRequest
    <2>4. QED BY <2>1, <2>2, <2>3 DEF EpochNamesOneFile
<1>2. QED BY <1>1, LaneInvariant, PTL

\* An epoch of a whole-document source holds one copy of the document: all its
\* envelopes start at 0, and rows of an epoch do not overlap.
THEOREM OneDocument == Spec => []OneDocumentPerEpoch
<1>1. LaneInv => OneDocumentPerEpoch
    <2> SUFFICES ASSUME LaneInv, Document, NEW r \in raw
                 PROVE  r.start = 0 /\ RawIn(r.epoch) = {r}
        BY DEF OneDocumentPerEpoch
    <2>1. \A x \in raw : x.start = 0 /\ x.end \in Nat /\ 0 < x.end
        BY DEF LaneInv, PiecesOK, Stored, Piece
    <2>2. r.epoch \in Known /\ r \in RawIn(r.epoch)
        BY DEF LaneInv, HostInv, HostTypeOK, RawIn
    <2>3. \A t \in RawIn(r.epoch) : r # t => r.end <= t.start \/ t.end <= r.start
        BY <2>2 DEF LaneInv, HostInv, ContiguousArchive
    <2>4. \A t \in RawIn(r.epoch) : t \in raw
        BY DEF RawIn
    <2>5. \A t \in RawIn(r.epoch) : t = r
        BY <2>1, <2>2, <2>3, <2>4
    <2>6. QED BY <2>1, <2>2, <2>5
<1>2. QED BY <1>1, LaneInvariant, PTL

=============================================================================

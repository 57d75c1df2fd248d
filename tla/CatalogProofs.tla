--------------------------- MODULE CatalogProofs ---------------------------
(***************************************************************************)
(* Theorems about CatalogClients, for every set of epochs, sources,        *)
(* sessions and payloads and every bound.                                  *)
(***************************************************************************)
EXTENDS CatalogClients, HostProofs

\* The bodies clients send are requests, and no refusal reads like a receipt.
LEMMA RequestFacts ==
    /\ \A env \in Envelopes : IsRequest(env)
    /\ \A screen \in Renderings \cup Refusals : screen \notin {"created", "replay"}
BY ClientsAssumption DEF Envelopes, IsRequest, Renderings

-----------------------------------------------------------------------------
(* Theorems.                                                               *)

\* HostInv is an inductive invariant of the catalog.
THEOREM CatalogInvariant == Spec => []HostInv
<1>1. HostInit => HostInv
    BY DEF HostInit, HostInv, HostTypeOK, OneOpenEpoch, LineageIsAChain, OneSession,
           RetiredWithCause, Counted, NoRowsNoWatermark, Based, ContiguousArchive, Known, RawIn
<1>2. HostInv /\ [Next]_vars => HostInv'
    <2> SUFFICES ASSUME HostInv, [Next]_vars PROVE HostInv'
        OBVIOUS
    <2>1. ASSUME NEW env \in Envelopes, NEW screen \in Renderings \cup Refusals,
                 Ingest(env, screen, Verdict(env, screen))
          PROVE  HostInv'
        BY <2>1, RequestFacts, IngestKeepsInv
    <2>2. ASSUME NEW e \in Epochs, NEW src \in Sources, NEW p \in Epochs \cup {None},
                 OpenSourceEpoch(e, src, p)
          PROVE  HostInv'
        BY <2>2, OpenKeepsInv
    <2>3. ASSUME NEW s \in Sessions, DeleteStorageSession(s)
          PROVE  HostInv'
        BY <2>3, DeleteKeepsInv
    <2>4. CASE UNCHANGED vars
        BY <2>4, StutterKeepsInv DEF vars
    <2>5. QED BY <2>1, <2>2, <2>3, <2>4 DEF Next
<1>3. QED BY <1>1, <1>2, PTL DEF Spec

\* The catalog's tables keep their types.
THEOREM HostTyping == Spec => []HostTypeOK
<1>1. HostInv => HostTypeOK
    BY DEF HostInv
<1>2. QED BY <1>1, CatalogInvariant, PTL

\* Whatever clients send, the rows of an epoch are its source range without a
\* hole or an overlap up to accepted_through (commit_raw_object).
THEOREM ArchiveIsContiguous == Spec => []ContiguousArchive
<1>1. HostInv => ContiguousArchive
    BY DEF HostInv
<1>2. QED BY <1>1, CatalogInvariant, PTL

\* Whatever clients send, a source never has two open epochs
\* (commit_raw_object and open_source_epoch).
THEOREM SourceHasOneOpenEpoch == Spec => []OneOpenEpoch
<1>1. HostInv => OneOpenEpoch
    BY DEF HostInv
<1>2. QED BY <1>1, CatalogInvariant, PTL

\* Whatever clients send, the epochs of a source form one chain.
THEOREM LineageForms == Spec => []LineageIsAChain
<1>1. HostInv => LineageIsAChain
    BY DEF HostInv
<1>2. QED BY <1>1, CatalogInvariant, PTL

\* What the loop over an epoch's active rows needs holds in every reachable state.
LEMMA RowsStayListable == Spec => []RowsAreListable
<1>1. HostInit => RowsAreListable
    BY FS_EmptySet DEF HostInit, RowsAreListable, RetiredTogether
<1>2. HostInv /\ RowsAreListable /\ [Next]_vars => RowsAreListable'
    <2> SUFFICES ASSUME HostInv, RowsAreListable, [Next]_vars PROVE RowsAreListable'
        OBVIOUS
    <2>1. ASSUME NEW env \in Envelopes, NEW screen \in Renderings \cup Refusals,
                 Ingest(env, screen, Verdict(env, screen))
          PROVE  RowsAreListable'
        BY <2>1, RequestFacts, IngestKeepsListable
    <2>2. ASSUME NEW e, NEW src, NEW p, OpenSourceEpoch(e, src, p) PROVE RowsAreListable'
        BY <2>2 DEF OpenSourceEpoch, RowsAreListable, RetiredTogether
    <2>3. ASSUME NEW s \in Sessions, DeleteStorageSession(s) PROVE RowsAreListable'
        BY <2>3, DeleteKeepsListable
    <2>4. CASE UNCHANGED vars
        BY <2>4 DEF vars, hostVars, RowsAreListable, RetiredTogether
    <2>5. QED BY <2>1, <2>2, <2>3, <2>4 DEF Next
<1>3. QED BY <1>1, <1>2, CatalogInvariant, PTL DEF Spec

\* Whatever clients send, the position the range check compares with is the one the
\* loop of _contiguous_range_prefix computes from the epoch's active rows, and there
\* is an order for it to read them in.
THEOREM CheckUsesTheWalk ==
    Spec => [](WatermarkIsTheWalk /\ \A e \in Known : Listings(ActiveIn(e)) # {})
BY CatalogInvariant, RowsStayListable, WalkFindsThePrefix, PTL

\* As long as epochs are only opened by their first envelope, no reader sees a
\* row of a replaced epoch or of a deleted session.
THEOREM ReadersSeeLiveRows == ASSUME ~ExplicitOpen PROVE Spec => []ActiveRowsAreLive
<1>1. HostInit => ActiveRowsAreLive
    BY DEF HostInit, ActiveRowsAreLive
<1>2. HostInv /\ ActiveRowsAreLive /\ [Next]_vars => ActiveRowsAreLive'
    <2> SUFFICES ASSUME HostInv, ActiveRowsAreLive, [Next]_vars PROVE ActiveRowsAreLive'
        OBVIOUS
    <2>1. ASSUME NEW env \in Envelopes, NEW screen \in Renderings \cup Refusals,
                 Ingest(env, screen, Verdict(env, screen))
          PROVE  ActiveRowsAreLive'
        BY <2>1, RequestFacts, IngestKeepsLive
    <2>2. ASSUME NEW s \in Sessions, DeleteStorageSession(s) PROVE ActiveRowsAreLive'
        BY <2>2, DeleteKeepsLive
    <2>3. CASE UNCHANGED vars
        BY <2>3 DEF vars, hostVars, ActiveRowsAreLive
    <2>4. QED BY <2>1, <2>2, <2>3 DEF Next, OpenSourceEpoch
<1>3. QED BY <1>1, <1>2, CatalogInvariant, PTL DEF Spec

\* No request moves a watermark back, drops or revives a row, or touches a closed
\* epoch (ArchiveOnlyGrows, of every step).
THEOREM ArchiveGrows == Spec => Grows
<1>1. HostInv /\ [Next]_vars => [ArchiveOnlyGrows]_vars
    <2> SUFFICES ASSUME HostInv, Next PROVE ArchiveOnlyGrows
        BY DEF vars
    <2>1. ASSUME NEW env \in Envelopes, NEW screen \in Renderings \cup Refusals,
                 Ingest(env, screen, Verdict(env, screen))
          PROVE  ArchiveOnlyGrows
        BY <2>1, RequestFacts, IngestGrows
    <2>2. ASSUME NEW e \in Epochs, NEW src \in Sources, NEW p \in Epochs \cup {None},
                 OpenSourceEpoch(e, src, p)
          PROVE  ArchiveOnlyGrows
        <3> DEFINE env == [source |-> src, epoch |-> e, pred |-> p]
        <3>1. /\ e \notin Known /\ ~LineageConflict(env)
              /\ Known' = Known \cup {e} /\ raw' = raw /\ retired' = retired
              /\ epochs'[e].source = src /\ epochs'[e].pred = p /\ epochs'[e].state = "open"
              /\ \A f \in Known : epochs'[f] = ClosePredecessor(env)[f]
            BY <2>2 DEF OpenSourceEpoch, Known
        <3>2. env.epoch = e /\ env.pred = p /\ env.source = src
            OBVIOUS
        <3> HIDE DEF env
        <3>3. QED BY <3>1, <3>2, SuccessionGrows
    <2>3. ASSUME NEW s \in Sessions, DeleteStorageSession(s)
          PROVE  ArchiveOnlyGrows
        <3>1. \A f \in Known : epochs[f].accepted \in Nat
            BY DEF HostInv, HostTypeOK, EpochRow
        <3>2. QED BY <2>3, <3>1 DEF DeleteStorageSession, ArchiveOnlyGrows, Known
    <2>4. QED BY <2>1, <2>2, <2>3 DEF Next
<1>2. QED BY <1>1, CatalogInvariant, PTL DEF Spec, Grows

-----------------------------------------------------------------------------
(* What projectors are told.                                               *)

\* The commit counter stays ahead of every wanted revision.
LEMMA RevisionsArePast == Spec => []DesiredIsPast
<1>1. HostInit => DesiredIsPast
    BY DEF HostInit, DesiredIsPast
<1>2. HostInv /\ DesiredIsPast /\ [Next]_vars => DesiredIsPast'
    <2> SUFFICES ASSUME HostInv, DesiredIsPast, [Next]_vars PROVE DesiredIsPast'
        OBVIOUS
    <2>1. ASSUME NEW e, NEW src, NEW p, OpenSourceEpoch(e, src, p) PROVE DesiredIsPast'
        BY <2>1 DEF OpenSourceEpoch, DesiredIsPast, HostInv, HostTypeOK
    <2>2. CASE UNCHANGED vars
        BY <2>2 DEF vars, hostVars, DesiredIsPast
    <2>3. QED BY <2>1, <2>2, DesiredStaysPast DEF Next
<1>3. QED BY <1>1, <1>2, CatalogInvariant, PTL DEF Spec

\* Every step tells the projectors of a session with one source what it changed.
LEMMA StepIsProjected ==
    ASSUME HostInv, ReadersInv, Next, NEW s \in Sessions, FromOneSource(s)
    PROVE  ChangeIsProjected(s)
<1>1. ASSUME NEW env \in Envelopes, NEW screen \in Renderings \cup Refusals,
             Ingest(env, screen, Verdict(env, screen))
      PROVE  ChangeIsProjected(s)
    BY <1>1, RequestFacts, IngestIsProjected
<1>2. ASSUME NEW e, NEW src, NEW p, OpenSourceEpoch(e, src, p) PROVE ChangeIsProjected(s)
    BY <1>2 DEF OpenSourceEpoch, ChangeIsProjected, ActiveAfter, ActiveOf
<1>3. QED BY <1>1, <1>2, DeleteIsProjected DEF Next

\* A session is projected again whenever what its readers see has changed, as long
\* as all of that comes from one source: then a session that loses rows to a new
\* epoch loses all of them, which is when commit_raw_object tells its projectors
\* (`has_active_raw is None`).
THEOREM OneSourceIsProjected ==
    ASSUME ~ExplicitOpen
    PROVE  Spec => [][\A s \in Sessions : FromOneSource(s) => ChangeIsProjected(s)]_vars
<1> DEFINE OneSourceTold == \A s \in Sessions : FromOneSource(s) => ChangeIsProjected(s)
<1>1. HostInv /\ ActiveRowsAreLive /\ DesiredIsPast /\ [Next]_vars => [OneSourceTold]_vars
    BY StepIsProjected DEF ReadersInv
<1>2. QED BY <1>1, RevisionsArePast, CatalogInvariant, ReadersSeeLiveRows, PTL DEF Spec

\* So no change goes unnoticed on a host that archives one source.
THEOREM ChangesReachProjectors ==
    ASSUME ~ExplicitOpen, \A a, b \in Sources : a = b
    PROVE  Spec => Projected
<1>1. HostInv => \A s \in Sessions : FromOneSource(s)
    BY DEF HostInv, HostTypeOK, EpochRow, FromOneSource, ActiveOf
<1>2. /\ HostInv
      /\ [\A s \in Sessions : FromOneSource(s) => ChangeIsProjected(s)]_vars
      => [ChangesAreProjected]_vars
    BY <1>1 DEF ChangesAreProjected
<1>3. QED BY <1>2, CatalogInvariant, OneSourceIsProjected, PTL DEF Projected
=============================================================================

---------------------------- MODULE LedgerProofs ----------------------------
(***************************************************************************)
(* Theorems about the projector ledger, for any number of sessions, claim  *)
(* tokens and search databases, and for workers that call its operations   *)
(* in any order with any token and any revision they have heard of.        *)
(***************************************************************************)
EXTENDS ProjectorLedger, TLAPS

\* One row's part of CoverageIsBounded, against a catalog revision.
RowBounded(row, seq) ==
    /\ row.completed <= row.desired /\ row.desired <= seq
    /\ (row.claimed = None) <=> (row.token = None)
    /\ row.claimed # None => row.completed < row.claimed /\ row.claimed <= row.desired

\* What every step preserves of the ledger.
RowsBounded ==
    /\ commitSeq \in Nat
    /\ ledger \in [Projectors -> [Sessions -> Row]]
    /\ \A p \in Projectors, s \in Sessions : RowBounded(ledger[p][s], commitSeq)

\* A row nothing has happened to, or one that has been reset, is bounded by what
\* it still wants.
LEMMA ResetIsBounded ==
    ASSUME NEW row \in Row, NEW seq \in Nat, row.desired <= seq
    PROVE  Reset(row) \in Row /\ RowBounded(Reset(row), seq)
BY DEF Reset, FreshRow, Row, RowBounded

\* A commit raises what a row wants and keeps its claim within it.
LEMMA WantedIsBounded ==
    ASSUME NEW row \in Row, NEW seq \in Nat, RowBounded(row, seq)
    PROVE  /\ Wanted(row, seq + 1) \in Row /\ RowBounded(Wanted(row, seq + 1), seq + 1)
           /\ WantedAfresh(row, seq + 1) \in Row /\ RowBounded(WantedAfresh(row, seq + 1), seq + 1)
<1>1. seq + 1 \in Nat /\ row.desired <= seq + 1 /\ row.completed <= seq + 1
  BY DEF Row, RowBounded
<1>2. Wanted(row, seq + 1) \in Row
  BY <1>1 DEF Wanted, Row
<1>3. RowBounded(Wanted(row, seq + 1), seq + 1)
  <2> DEFINE next == Wanted(row, seq + 1)
  <2>1. /\ next.desired = seq + 1 /\ next.completed = row.completed
        /\ next.claimed = row.claimed /\ next.token = row.token
    BY DEF Wanted, Row
  <2>2. row.claimed # None => row.completed < row.claimed /\ row.claimed <= seq + 1
    BY DEF Row, RowBounded
  <2>3. (row.claimed = None) <=> (row.token = None)
    BY DEF RowBounded
  <2> HIDE DEF next
  <2>4. RowBounded(next, seq + 1)
    BY <1>1, <2>1, <2>2, <2>3 DEF RowBounded
  <2> QED  BY <2>4 DEF next
<1>4. WantedAfresh(row, seq + 1) \in Row
  BY <1>1 DEF WantedAfresh, Row
<1>5. /\ WantedAfresh(row, seq + 1).desired = seq + 1
      /\ WantedAfresh(row, seq + 1).completed = row.completed
      /\ WantedAfresh(row, seq + 1).claimed = None
      /\ WantedAfresh(row, seq + 1).token = None
  BY DEF WantedAfresh, Row
<1>6. RowBounded(WantedAfresh(row, seq + 1), seq + 1)
  BY <1>1, <1>5 DEF RowBounded
<1> QED  BY <1>2, <1>3, <1>4, <1>6

\* The operations that end a claim leave its row bounded: what was completed is
\* what was claimed, or what was completed before.
LEMMA EndedIsBounded ==
    ASSUME NEW row \in Row, NEW seq \in Nat, RowBounded(row, seq),
           NEW done \in Nat, done \in {row.completed, row.claimed},
           NEW when \in {"now", "lease", "retry"}
    PROVE  LET next == [row EXCEPT !.completed = done, !.claimed = None, !.token = None,
                                   !.until = when]
           IN  next \in Row /\ RowBounded(next, seq)
<1>1. done <= row.desired
  BY LedgerAssumption DEF Row, RowBounded
<1> QED  BY <1>1 DEF Row, RowBounded

\* A claim asks for more than is completed and for no more than is wanted.
LEMMA ClaimIsBounded ==
    ASSUME RowsBounded, NEW p \in Projectors, NEW s \in Sessions, Eligible(p, s)
    PROVE  /\ ClaimRevision(p, s) \in Nat
           /\ ledger[p][s].completed < ClaimRevision(p, s)
           /\ ClaimRevision(p, s) <= ledger[p][s].desired
<1>1. /\ ledger[p][s] \in Row /\ ledger[Search][s] \in Row
      /\ ledger[p][s].desired \in Nat /\ ledger[p][s].completed \in Nat
      /\ ledger[Search][s].completed \in Nat
  BY DEF RowsBounded, Projectors, Row
<1>2. ledger[p][s].desired > ledger[p][s].completed
  BY DEF Eligible, Lag
<1>3. p = Embedding => ledger[Search][s].completed > ledger[p][s].completed
  BY DEF Eligible
<1> QED  BY <1>1, <1>2, <1>3 DEF ClaimRevision

\* Replacing one row by a bounded one keeps all rows bounded.
LEMMA OneRow ==
    ASSUME RowsBounded, NEW p \in Projectors, NEW s \in Sessions,
           NEW row \in Row, RowBounded(row, commitSeq),
           ledger' = [ledger EXCEPT ![p][s] = row], UNCHANGED commitSeq
    PROVE  RowsBounded'
BY DEF RowsBounded

\* The catalog's own writes.
LEMMA CatalogWriteKeepsBounds ==
    ASSUME RowsBounded, CatalogWrite
    PROVE  RowsBounded'
<1>1. PICK s \in Sessions : \/ \E replaced \in SUBSET Active(s) : CommitObject(s, replaced)
                            \/ RetireSession(s)
                            \/ DeleteStorageSession(s)
  BY DEF CatalogWrite
<1>2. commitSeq' = commitSeq + 1 /\ commitSeq \in Nat
  BY <1>1 DEF CommitObject, RetireSession, DeleteStorageSession, RowsBounded
<1>3. ASSUME NEW p \in Projectors, NEW t \in Sessions
      PROVE  ledger[p][t] \in Row /\ RowBounded(ledger[p][t], commitSeq)
                 /\ RowBounded(ledger[p][t], commitSeq + 1)
  <2>1. ledger[p][t] \in Row /\ RowBounded(ledger[p][t], commitSeq)
    BY DEF RowsBounded
  <2>2. ledger[p][t].desired <= commitSeq + 1
    BY <1>2, <2>1 DEF Row, RowBounded
  <2> QED  BY <2>1, <2>2 DEF RowBounded
<1>4. \/ ledger' = [p \in Projectors |-> [ledger[p] EXCEPT ![s] = Wanted(@, commitSeq + 1)]]
      \/ ledger' = [p \in Projectors |-> [ledger[p] EXCEPT ![s] = WantedAfresh(@, commitSeq + 1)]]
  BY <1>1 DEF CommitObject, RetireSession, DeleteStorageSession, BumpAll
<1>5. \A p \in Projectors :
          /\ Wanted(ledger[p][s], commitSeq + 1) \in Row
          /\ RowBounded(Wanted(ledger[p][s], commitSeq + 1), commitSeq + 1)
          /\ WantedAfresh(ledger[p][s], commitSeq + 1) \in Row
          /\ RowBounded(WantedAfresh(ledger[p][s], commitSeq + 1), commitSeq + 1)
  BY <1>2, <1>3, WantedIsBounded
<1>6. ledger \in [Projectors -> [Sessions -> Row]]
  BY DEF RowsBounded
<1>7. ledger' \in [Projectors -> [Sessions -> Row]]
  BY <1>4, <1>5, <1>6
<1>8. ASSUME NEW p \in Projectors, NEW t \in Sessions
      PROVE  RowBounded(ledger'[p][t], commitSeq + 1)
  BY <1>3, <1>4, <1>5, <1>6
<1> QED  BY <1>2, <1>7, <1>8 DEF RowsBounded

LEMMA UntoldWriteKeepsBounds ==
    ASSUME RowsBounded, UntoldWrite
    PROVE  RowsBounded'
<1>1. UNCHANGED ledger /\ commitSeq' = commitSeq + 1 /\ commitSeq \in Nat
  BY DEF UntoldWrite, CommitUnrendered, RowsBounded
<1>2. ASSUME NEW p \in Projectors, NEW s \in Sessions
      PROVE  RowBounded(ledger[p][s], commitSeq + 1)
  <2>1. ledger[p][s] \in Row /\ RowBounded(ledger[p][s], commitSeq)
    BY DEF RowsBounded
  <2>2. ledger[p][s].desired <= commitSeq + 1
    BY <1>1, <2>1 DEF Row, RowBounded
  <2> QED  BY <2>1, <2>2 DEF RowBounded
<1> QED  BY <1>1, <1>2 DEF RowsBounded

\* What workers, operators and time do.
LEMMA RowStepKeepsBounds ==
    ASSUME RowsBounded, NEW p \in Projectors, NEW s \in Sessions,
           \/ \E token \in Tokens : \/ Claim(p, s, token)
                                    \/ Fail(p, s, token)
                                    \/ \E revision \in 0 .. commitSeq :
                                          Complete(p, s, token, revision)
           \/ LeaseExpires(p, s) \/ RetryDue(p, s) \/ Requeue(p, s)
    PROVE  RowsBounded'
<1> DEFINE row == ledger[p][s]
<1>1. /\ row \in Row /\ RowBounded(row, commitSeq) /\ commitSeq \in Nat
      /\ row.completed \in Nat /\ row.desired \in Nat /\ row.desired <= commitSeq
  BY DEF RowsBounded, RowBounded, Row
<1>2. ASSUME NEW token \in Tokens, Claim(p, s, token)
      PROVE  RowsBounded'
  <2> DEFINE next == [row EXCEPT !.claimed = ClaimRevision(p, s), !.token = token,
                                 !.until = "lease"]
  <2>1. /\ ClaimRevision(p, s) \in Nat
        /\ row.completed < ClaimRevision(p, s) /\ ClaimRevision(p, s) <= row.desired
    BY <1>2, ClaimIsBounded DEF Claim
  <2>2. ClaimRevision(p, s) # None /\ token # None
    BY <2>1, LedgerAssumption
  <2>3. next \in Row
    BY <1>1, <2>1 DEF Row
  <2>4. /\ next.claimed = ClaimRevision(p, s) /\ next.token = token
        /\ next.completed = row.completed /\ next.desired = row.desired
    BY <1>1 DEF Row
  <2>5. ledger' = [ledger EXCEPT ![p][s] = next] /\ UNCHANGED commitSeq
    BY <1>2 DEF Claim
  <2>6. row.completed <= row.desired
    BY <1>1 DEF RowBounded
  <2> HIDE DEF next, row
  <2>7. RowBounded(next, commitSeq)
    BY <1>1, <2>1, <2>2, <2>4, <2>6 DEF RowBounded
  <2> QED  BY <2>3, <2>5, <2>7, OneRow
<1>3. ASSUME NEW token \in Tokens, Fail(p, s, token)
      PROVE  RowsBounded'
  <2> DEFINE next == [row EXCEPT !.completed = row.completed, !.claimed = None, !.token = None,
                                 !.until = "retry"]
  <2>1. next \in Row /\ RowBounded(next, commitSeq)
    BY <1>1, EndedIsBounded
  <2>2. ledger' = [ledger EXCEPT ![p][s] = next] /\ UNCHANGED commitSeq
    BY <1>1, <1>3 DEF Fail, Row
  <2> HIDE DEF next
  <2> QED  BY <2>1, <2>2, OneRow
<1>4. ASSUME NEW token \in Tokens, NEW revision \in 0 .. commitSeq, Complete(p, s, token, revision)
      PROVE  RowsBounded'
  <2> DEFINE next == [row EXCEPT !.completed = revision, !.claimed = None, !.token = None,
                                 !.until = "now"]
  <2>1. revision = row.claimed
    BY <1>4 DEF Complete, HoldsClaim
  <2>2. revision \in Nat
    BY <1>1
  <2>3. next \in Row /\ RowBounded(next, commitSeq)
    BY <1>1, <2>1, <2>2, EndedIsBounded
  <2>4. ledger' = [ledger EXCEPT ![p][s] = next] /\ UNCHANGED commitSeq
    BY <1>4 DEF Complete
  <2> HIDE DEF next
  <2> QED  BY <2>3, <2>4, OneRow
<1>5. ASSUME LeaseExpires(p, s) \/ RetryDue(p, s)
      PROVE  RowsBounded'
  <2> DEFINE next == [row EXCEPT !.until = "now"]
  <2>1. next \in Row
    BY <1>1 DEF Row
  <2>2. /\ next.claimed = row.claimed /\ next.token = row.token
        /\ next.completed = row.completed /\ next.desired = row.desired
    BY <1>1 DEF Row
  <2>3. ledger' = [ledger EXCEPT ![p][s] = next] /\ UNCHANGED commitSeq
    BY <1>5 DEF LeaseExpires, RetryDue
  <2> HIDE DEF next, row
  <2>4. RowBounded(next, commitSeq)
    BY <1>1, <2>2 DEF RowBounded
  <2> QED  BY <2>1, <2>3, <2>4, OneRow
<1>6. ASSUME Requeue(p, s)
      PROVE  RowsBounded'
  <2>1. Reset(row) \in Row /\ RowBounded(Reset(row), commitSeq)
    BY <1>1, ResetIsBounded
  <2>2. ledger' = [ledger EXCEPT ![p][s] = Reset(row)] /\ UNCHANGED commitSeq
    BY <1>6 DEF Requeue
  <2> QED  BY <2>1, <2>2, OneRow
<1> QED  BY <1>2, <1>3, <1>4, <1>5, <1>6

\* A new search database and a new host.
LEMMA ResetsKeepBounds ==
    ASSUME RowsBounded,
           ReleaseClaims \/ \E p \in Projectors, store \in Stores : BindStore(p, store)
    PROVE  RowsBounded'
<1>1. /\ commitSeq \in Nat /\ ledger \in [Projectors -> [Sessions -> Row]]
      /\ \A p \in Projectors, s \in Sessions :
            ledger[p][s] \in Row /\ RowBounded(ledger[p][s], commitSeq)
  BY DEF RowsBounded
<1>2. ASSUME ReleaseClaims
      PROVE  RowsBounded'
  <2>1. ASSUME NEW p \in Projectors, NEW s \in Sessions
        PROVE  Released(ledger[p][s]) \in Row /\ RowBounded(Released(ledger[p][s]), commitSeq)
    <3> DEFINE row == ledger[p][s]
               next == [row EXCEPT !.completed = row.completed, !.claimed = None, !.token = None,
                                   !.until = "now"]
    <3>1. row \in Row /\ RowBounded(row, commitSeq) /\ row.completed \in Nat
      BY <1>1 DEF Row
    <3>2. next \in Row /\ RowBounded(next, commitSeq)
      BY <1>1, <3>1, EndedIsBounded
    <3>3. Released(row) = row \/ Released(row) = next
      BY <3>1 DEF Released, Row
    <3> HIDE DEF next, row
    <3>4. Released(row) \in Row /\ RowBounded(Released(row), commitSeq)
      BY <3>1, <3>2, <3>3
    <3> QED  BY <3>4 DEF row
  <2>2. /\ ledger' = [p \in Projectors |-> [s \in Sessions |-> Released(ledger[p][s])]]
        /\ UNCHANGED commitSeq
    BY <1>2 DEF ReleaseClaims
  <2> QED  BY <1>1, <2>1, <2>2 DEF RowsBounded
<1>3. ASSUME NEW p \in Projectors, NEW store \in Stores, BindStore(p, store)
      PROVE  RowsBounded'
  <2>1. ASSUME NEW s \in Sessions
        PROVE  Reset(ledger[p][s]) \in Row /\ RowBounded(Reset(ledger[p][s]), commitSeq)
    BY <1>1, ResetIsBounded DEF RowBounded
  <2>2. /\ ledger' = [ledger EXCEPT ![p] = [s \in Sessions |-> Reset(ledger[p][s])]]
        /\ UNCHANGED commitSeq
    BY <1>3 DEF BindStore
  <2> QED  BY <1>1, <2>1, <2>2 DEF RowsBounded
<1> QED  BY <1>2, <1>3

LEMMA BoundsAreInductive == RowsBounded /\ [LedgerNext]_ledgerVars => RowsBounded'
<1> SUFFICES ASSUME RowsBounded, [LedgerNext]_ledgerVars PROVE RowsBounded'
  OBVIOUS
<1>1. CASE UNCHANGED ledgerVars
  BY <1>1 DEF ledgerVars, RowsBounded
<1>2. CASE LedgerNext
  BY <1>2, CatalogWriteKeepsBounds, UntoldWriteKeepsBounds, RowStepKeepsBounds, ResetsKeepBounds
     DEF LedgerNext
<1> QED  BY <1>1, <1>2

\* Coverage is never overstated, whatever workers do: a row's completed revision,
\* its claim and what the catalog wants stay in order through commits, cancelled
\* and expired claims, requeues and replaced databases (claim_projector_lag,
\* complete_projector_claim and bind_projector_store together).
THEOREM LedgerCoverage == LedgerSpec => []CoverageIsBounded
<1>1. LedgerInit => RowsBounded
  BY DEF LedgerInit, RowsBounded, RowBounded, FreshRow, Row
<1>2. RowsBounded /\ [LedgerNext]_ledgerVars => RowsBounded'
  BY BoundsAreInductive
<1>3. RowsBounded => CoverageIsBounded
  BY DEF RowsBounded, RowBounded, CoverageIsBounded
<1> QED  BY <1>1, <1>2, <1>3, PTL DEF LedgerSpec

\* Completion is fenced, whatever workers do: a pass whose claim was cancelled,
\* taken over or released moves no row, and a row moves forward only to the
\* revision its present claim names (the token comparison of
\* complete_projector_claim).
THEOREM CompletionIsFenced == LedgerSpec => ProgressIsFenced
<1> DEFINE Fenced == \A p \in Projectors, s \in Sessions :
              ledger'[p][s].completed # ledger[p][s].completed =>
                  \/ ledger'[p][s].completed = 0
                  \/ /\ ledger'[p][s].completed = ledger[p][s].claimed
                     /\ ledger'[p][s].completed > ledger[p][s].completed
<1>1. RowsBounded /\ [LedgerNext]_ledgerVars => [Fenced]_ledgerVars
  <2> SUFFICES ASSUME RowsBounded, LedgerNext, NEW p \in Projectors, NEW s \in Sessions,
                      ledger'[p][s].completed # ledger[p][s].completed
               PROVE  \/ ledger'[p][s].completed = 0
                      \/ /\ ledger'[p][s].completed = ledger[p][s].claimed
                         /\ ledger'[p][s].completed > ledger[p][s].completed
    OBVIOUS
  <2>1. /\ ledger \in [Projectors -> [Sessions -> Row]]
        /\ RowBounded(ledger[p][s], commitSeq) /\ ledger[p][s] \in Row
    BY DEF RowsBounded
  <2>2. CASE CatalogWrite
    <3>1. PICK t \in Sessions :
             \/ ledger' = [q \in Projectors |-> [ledger[q] EXCEPT ![t] = Wanted(@, commitSeq + 1)]]
             \/ ledger' = [q \in Projectors |->
                              [ledger[q] EXCEPT ![t] = WantedAfresh(@, commitSeq + 1)]]
      BY <2>2 DEF CatalogWrite, CommitObject, RetireSession, DeleteStorageSession, BumpAll
    <3>2. \A row \in Row : /\ Wanted(row, commitSeq + 1).completed = row.completed
                           /\ WantedAfresh(row, commitSeq + 1).completed = row.completed
      BY DEF Wanted, WantedAfresh, Row
    <3>3. \/ ledger'[p] = [ledger[p] EXCEPT ![t] = Wanted(@, commitSeq + 1)]
          \/ ledger'[p] = [ledger[p] EXCEPT ![t] = WantedAfresh(@, commitSeq + 1)]
      BY <3>1
    <3>4. ledger[p] \in [Sessions -> Row] /\ ledger[p][t] \in Row
      BY <2>1
    <3>5. ledger'[p][s] \in {ledger[p][s], Wanted(ledger[p][s], commitSeq + 1),
                             WantedAfresh(ledger[p][s], commitSeq + 1)}
      BY <3>3, <3>4
    <3> QED  BY <2>1, <3>2, <3>5
  <2>3. CASE \E q \in Projectors, t \in Sessions, token \in Tokens, revision \in 0 .. commitSeq :
                Complete(q, t, token, revision)
    <3>1. PICK q \in Projectors, t \in Sessions, token \in Tokens, revision \in 0 .. commitSeq :
             Complete(q, t, token, revision)
      BY <2>3
    <3>2. /\ ledger[q][t].claimed = revision
          /\ ledger' = [ledger EXCEPT ![q][t] =
                [@ EXCEPT !.completed = revision, !.claimed = None, !.token = None, !.until = "now"]]
      BY <3>1 DEF Complete, HoldsClaim
    <3>3. q = p /\ t = s
      BY <2>1, <3>2
    <3>4. ledger'[p][s].completed = revision
      BY <2>1, <3>2, <3>3 DEF Row
    <3>5. revision # None
      BY <2>1, LedgerAssumption DEF RowsBounded
    <3>6. ledger[p][s].completed < ledger[p][s].claimed /\ ledger[p][s].completed \in Nat
      BY <2>1, <3>2, <3>3, <3>5 DEF RowBounded, Row
    <3>7. revision \in Nat
      BY DEF RowsBounded
    <3> QED  BY <3>2, <3>3, <3>4, <3>6, <3>7
  <2>4. CASE \E q \in Projectors, t \in Sessions :
                \/ \E token \in Tokens : Claim(q, t, token) \/ Fail(q, t, token)
                \/ LeaseExpires(q, t) \/ RetryDue(q, t)
    <3>1. PICK q \in Projectors, t \in Sessions :
                \/ \E token \in Tokens : Claim(q, t, token) \/ Fail(q, t, token)
                \/ LeaseExpires(q, t) \/ RetryDue(q, t)
      BY <2>4
    <3>2. ledger[q][t] \in Row
      BY <2>1
    <3>3. ASSUME NEW row, ledger' = [ledger EXCEPT ![q][t] = row],
                 row.completed = ledger[q][t].completed
          PROVE  FALSE
      BY <2>1, <3>3
    <3>4. ASSUME NEW token \in Tokens, Claim(q, t, token)
          PROVE  FALSE
      <4> DEFINE row == [ledger[q][t] EXCEPT !.claimed = ClaimRevision(q, t), !.token = token,
                                             !.until = "lease"]
      <4>1. ledger' = [ledger EXCEPT ![q][t] = row]
        BY <3>4 DEF Claim
      <4>2. row.completed = ledger[q][t].completed
        BY <3>2 DEF Row
      <4> HIDE DEF row
      <4> QED  BY <3>3, <4>1, <4>2
    <3>5. ASSUME NEW token \in Tokens, Fail(q, t, token)
          PROVE  FALSE
      <4> DEFINE row == [ledger[q][t] EXCEPT !.claimed = None, !.token = None, !.until = "retry"]
      <4>1. ledger' = [ledger EXCEPT ![q][t] = row]
        BY <3>5 DEF Fail
      <4>2. row.completed = ledger[q][t].completed
        BY <3>2 DEF Row
      <4> HIDE DEF row
      <4> QED  BY <3>3, <4>1, <4>2
    <3>6. ASSUME LeaseExpires(q, t) \/ RetryDue(q, t)
          PROVE  FALSE
      <4> DEFINE row == [ledger[q][t] EXCEPT !.until = "now"]
      <4>1. ledger' = [ledger EXCEPT ![q][t] = row]
        BY <3>6 DEF LeaseExpires, RetryDue
      <4>2. row.completed = ledger[q][t].completed
        BY <3>2 DEF Row
      <4> HIDE DEF row
      <4> QED  BY <3>3, <4>1, <4>2
    <3> QED  BY <3>1, <3>4, <3>5, <3>6
  <2>5. CASE \E q \in Projectors, t \in Sessions : Requeue(q, t)
    <3>1. PICK q \in Projectors, t \in Sessions :
             ledger' = [ledger EXCEPT ![q][t] = Reset(ledger[q][t])]
      BY <2>5 DEF Requeue
    <3>2. Reset(ledger[q][t]).completed = 0
      BY DEF Reset, FreshRow
    <3> QED  BY <2>1, <3>1, <3>2
  <2>6. CASE \E q \in Projectors, store \in Stores : BindStore(q, store)
    <3>1. PICK q \in Projectors :
             ledger' = [ledger EXCEPT ![q] = [t \in Sessions |-> Reset(ledger[q][t])]]
      BY <2>6 DEF BindStore
    <3>2. \A row : Reset(row).completed = 0
      BY DEF Reset, FreshRow
    <3> QED  BY <2>1, <3>1, <3>2
  <2>7. CASE ReleaseClaims
    <3>1. ledger'[p][s] = Released(ledger[p][s])
      BY <2>7 DEF ReleaseClaims
    <3>2. Released(ledger[p][s]).completed = ledger[p][s].completed
      BY <2>1 DEF Released, Row
    <3> QED  BY <3>1, <3>2
  <2>8. CASE UntoldWrite
    BY <2>8 DEF UntoldWrite, CommitUnrendered
  <2> QED  BY <2>2, <2>3, <2>4, <2>5, <2>6, <2>7, <2>8 DEF LedgerNext
<1>2. LedgerInit => RowsBounded
  BY DEF LedgerInit, RowsBounded, RowBounded, FreshRow, Row
<1>3. RowsBounded /\ [LedgerNext]_ledgerVars => RowsBounded'
  BY BoundsAreInductive
<1> QED  BY <1>1, <1>2, <1>3, PTL DEF LedgerSpec, ProgressIsFenced
=============================================================================

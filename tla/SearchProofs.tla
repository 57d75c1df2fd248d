---------------------------- MODULE SearchProofs ----------------------------
(***************************************************************************)
(* Theorems about the search projection.  For any number of sessions,      *)
(* slots, page sizes, commits and faults: its passes use the ledger only   *)
(* as LedgerSpec allows, what search serves of a session is a snapshot of  *)
(* it, and vectors are of the text that is served.  While no two passes of *)
(* a projector are on the same session: a row without lag is served, and   *)
(* embedded.                                                               *)
(***************************************************************************)
EXTENDS SearchProjection, LedgerProofs, FiniteSetTheorems

-----------------------------------------------------------------------------
(* The inductive invariant.                                                *)

\* The steps of a pass that has claimed a session.
Steps == {"list", "reuse", "index", "delete", "source", "embed", "complete", "fail"}

Working(w) == pass[w].pc \in Steps

ClaimedPass == [pc : Steps, session : Sessions, revision : Nat, token : Tokens,
                seen : SUBSET Nat, todo : SUBSET Nat, more : BOOLEAN]

Publication == [revision : Nat, objects : SUBSET Nat]

Database == [id        : Stores,
             indexed   : [Sessions -> SUBSET Nat],
             members   : [Sessions -> SUBSET (Nat \X Nat)],
             published : [Sessions -> Publication \cup {None}],
             embedded  : [Sessions -> Nat \cup {None}]]

PassOK == pass \in [Slots -> {Idle, [pc |-> "claim"]} \cup [pc : {"bind"}, store : Stores]
                                 \cup ClaimedPass]

\* Every store that was ever bound is one of the past or the present one.
StoresOK ==
    /\ bound \in [Projectors -> Stores \cup {None}]
    /\ store \in Database
    /\ budget \in [commits : Nat, removals : Nat, faults : Nat]
    /\ store.id + budget.faults <= MaxFaults
    /\ \A p \in Projectors : binding[p] # None => binding[p] <= store.id
    /\ \A w \in Slots : pass[w].pc = "bind" => pass[w].store <= store.id

ContentOK ==
    /\ content \in [Sessions -> [objects : SUBSET [id : Nat, retired : Nat \cup {None}],
                                 state : {"absent", "ready", "retired", "deleted"},
                                 revived : BOOLEAN]]
    /\ binding \in [Projectors -> Stores \cup {None}]
    /\ \A s \in Sessions :
          /\ ledger[Search][s].desired = ledger[Embedding][s].desired
          /\ content[s].state # "absent" => ledger[Search][s].desired > 0
          /\ \A o \in content[s].objects : 0 < o.id /\ o.id <= ledger[Search][s].desired

\* What a pass has listed is the lower part of its snapshot, and all of it after
\* the last page.
Listed(w) == pass[w].seen \cup pass[w].todo

ListsSnapshot(w) ==
    LET snap == Snapshot(pass[w].session, pass[w].revision) IN
    /\ pass[w].revision <= commitSeq
    /\ pass[w].pc = "list" => Listed(w) = {}
    /\ Listed(w) \subseteq snap
    /\ \A x \in Listed(w), y \in snap : y < x => y \in Listed(w)
    /\ ~pass[w].more => Listed(w) = snap

ListsOK == \A w \in Slots : Working(w) => ListsSnapshot(w)

ServedOK ==
    \A s \in Sessions : store.published[s] # None =>
        /\ store.published[s].revision <= commitSeq
        /\ store.published[s].objects = Snapshot(s, store.published[s].revision)

SearchInv ==
    /\ RowsBounded /\ PassOK /\ StoresOK /\ ContentOK /\ ListsOK /\ ServedOK
    /\ EmbeddingsFollowServed

-----------------------------------------------------------------------------
(* One pass of each projector on a session.                                *)

\* What run_once of one worker per projector guarantees, whatever the size of its
\* batches: it binds the store, claims a batch of different sessions, and has run
\* all their passes before it binds and claims again.
OnePassPerSession ==
    \A v, w \in Slots :
        v # w /\ ProjectorOf(v) = ProjectorOf(w) /\ Working(w) =>
            /\ Working(v) => pass[v].session # pass[w].session
            /\ pass[v].pc # "bind"

\* A pass that found the session gone: it is still gone, or came back.
GoneOrRevived(s) == Gone(s) \/ content[s].revived

DeletesTheGone ==
    \A w \in Slots : pass[w].pc = "delete" => GoneOrRevived(pass[w].session)

\* Listing is the search projector's, reading and embedding the other's.
StepsBySlot ==
    \A w \in Slots : /\ pass[w].pc \in {"reuse", "index"} => w \in SearchSlots
                     /\ pass[w].pc \in {"source", "embed"} => w \in EmbeddingSlots

\* A pass works on a revision that is wanted and not completed.
PassAhead ==
    \A w \in Slots : Working(w) =>
        LET row == ledger[ProjectorOf(w)][pass[w].session] IN
        row.completed < pass[w].revision /\ pass[w].revision <= row.desired

\* The revision a search pass works on is no older than anything embedded or
\* being embedded.
PassLeads ==
    \A w \in SearchSlots : Working(w) =>
        /\ ledger[Embedding][pass[w].session].completed <= pass[w].revision
        /\ \A v \in EmbeddingSlots :
              Working(v) /\ pass[v].session = pass[w].session => pass[v].revision <= pass[w].revision

\* A pass on the revision that is still wanted has not seen the session go.
PassSeesReady ==
    \A w \in SearchSlots :
        pass[w].pc \in {"reuse", "index"}
            /\ pass[w].revision = ledger[Search][pass[w].session].desired
        => ~Gone(pass[w].session)

\* What a search pass that is about to complete has left in its database.
SearchDone(s, revision) ==
    \/ ~Gone(s) /\ store.published[s] # None /\ store.published[s].revision = revision
    \/ Served(s) = {} /\ GoneOrRevived(s)

CompletesWhatItServed ==
    \A w \in SearchSlots :
        LET s == pass[w].session IN
        pass[w].pc = "complete" /\ binding[Search] = store.id
            /\ pass[w].revision = ledger[Search][s].desired
        => SearchDone(s, pass[w].revision)

CompletesWhatItEmbedded ==
    \A v \in EmbeddingSlots :
        LET s == pass[v].session IN
        pass[v].pc = "complete" /\ binding[Embedding] = store.id
            /\ pass[v].revision = ledger[Embedding][s].desired
        => store.embedded[s] = pass[v].revision \/ GoneOrRevived(s)

EmbeddedWhenNoLag ==
    \A s \in Sessions :
        Current(Embedding, s) /\ content[s].state = "ready" /\ ~content[s].revived
            => store.embedded[s] = ledger[Embedding][s].completed

OnePassInv ==
    /\ DeletesTheGone /\ StepsBySlot /\ PassAhead /\ PassLeads /\ PassSeesReady
    /\ CompletesWhatItServed /\ CompletesWhatItEmbedded
    /\ NoLagIsServed /\ EmbeddedWhenNoLag

-----------------------------------------------------------------------------
(* Tokens and types.                                                       *)

\* A function has no more values than arguments.
LEMMA ImageSize ==
    ASSUME NEW S, IsFiniteSet(S), NEW f, DOMAIN f = S, f = [x \in S |-> f[x]]
    PROVE  /\ IsFiniteSet({f[x] : x \in S})
           /\ Cardinality({f[x] : x \in S}) <= Cardinality(S)
<1>1. f \in Surjection(S, {f[x] : x \in S})
    BY DEF Surjection
<1> QED BY <1>1, FS_Surjection

\* There is a token nobody uses.
LEMMA TokenIsFresh == FreshToken \in Tokens /\ FreshToken \notin TokensInUse
<1> DEFINE A == {x \in Slots : "token" \in DOMAIN pass[x]}
           f == [w \in A |-> pass[w].token]
           g == [s \in Sessions |-> ledger[Search][s].token]
           h == [s \in Sessions |-> ledger[Embedding][s].token]
           F == {f[w] : w \in A}
           G == {g[s] : s \in Sessions}
           H == {h[s] : s \in Sessions}
<1>1. IsFiniteSet(A) /\ Cardinality(A) <= Cardinality(Slots) /\ IsFiniteSet(Sessions)
    BY FS_Subset, SearchAssumption
<1>2. IsFiniteSet(F) /\ Cardinality(F) <= Cardinality(A)
    <2>1. DOMAIN f = A /\ f = [w \in A |-> f[w]]
        OBVIOUS
    <2> HIDE DEF A, f
    <2> QED BY <1>1, <2>1, ImageSize
<1>3. IsFiniteSet(G) /\ Cardinality(G) <= Cardinality(Sessions)
    <2>1. DOMAIN g = Sessions /\ g = [w \in Sessions |-> g[w]]
        OBVIOUS
    <2> HIDE DEF g
    <2> QED BY <1>1, <2>1, ImageSize
<1>4. IsFiniteSet(H) /\ Cardinality(H) <= Cardinality(Sessions)
    <2>1. DOMAIN h = Sessions /\ h = [w \in Sessions |-> h[w]]
        OBVIOUS
    <2> HIDE DEF h
    <2> QED BY <1>1, <2>1, ImageSize
<1>5. TokensInUse = (F \cup G) \cup H
    <2>1. {pass[w].token : w \in A} = F
        OBVIOUS
    <2>2. {ledger[p][s].token : p \in Projectors, s \in Sessions} = G \cup H
        <3>1. \A t \in {ledger[p][s].token : p \in Projectors, s \in Sessions} : t \in G \cup H
            BY DEF Projectors
        <3>2. \A s \in Sessions : g[s] = ledger[Search][s].token /\ h[s] = ledger[Embedding][s].token
            OBVIOUS
        <3>3. Search \in Projectors /\ Embedding \in Projectors
            BY DEF Projectors
        <3> HIDE DEF g, h
        <3>4. \A t \in G : \E p \in Projectors, s \in Sessions : t = ledger[p][s].token
            BY <3>2, <3>3
        <3>5. \A t \in H : \E p \in Projectors, s \in Sessions : t = ledger[p][s].token
            BY <3>2, <3>3
        <3> HIDE DEF G, H
        <3> QED BY <3>1, <3>4, <3>5
    <2> HIDE DEF F, G, H
    <2> QED BY <2>1, <2>2 DEF TokensInUse
<1> HIDE DEF A, F, G, H
<1>6. IsFiniteSet(F \cup G) /\ Cardinality(F \cup G) <= Cardinality(F) + Cardinality(G)
    <2>1. Cardinality(F \cap G) \in Nat
        BY <1>2, FS_Intersection, FS_CardinalityType
    <2>2. Cardinality(F) \in Nat /\ Cardinality(G) \in Nat
        BY <1>2, <1>3, FS_CardinalityType
    <2>3. /\ IsFiniteSet(F \cup G)
          /\ Cardinality(F \cup G) = Cardinality(F) + Cardinality(G) - Cardinality(F \cap G)
        BY <1>2, <1>3, FS_Union
    <2> QED BY <2>1, <2>2, <2>3
<1>7. /\ IsFiniteSet(TokensInUse)
      /\ Cardinality(TokensInUse) <= Cardinality(F \cup G) + Cardinality(H)
    <2>1. Cardinality((F \cup G) \cap H) \in Nat
        BY <1>4, FS_Intersection, FS_CardinalityType
    <2>2. Cardinality(F \cup G) \in Nat /\ Cardinality(H) \in Nat
        BY <1>4, <1>6, FS_CardinalityType
    <2>3. /\ IsFiniteSet(TokensInUse)
          /\ Cardinality(TokensInUse) = Cardinality(F \cup G) + Cardinality(H)
                                            - Cardinality((F \cup G) \cap H)
        BY <1>4, <1>5, <1>6, FS_Union
    <2> QED BY <2>1, <2>2, <2>3
<1>8. Cardinality(TokensInUse) <= Cardinality(Slots) + 2 * Cardinality(Sessions)
    BY <1>1, <1>2, <1>3, <1>4, <1>6, <1>7, FS_CardinalityType, SearchAssumption
<1>9. ~(Tokens \subseteq TokensInUse)
    <2> SUFFICES ASSUME Tokens \subseteq TokensInUse PROVE FALSE
        OBVIOUS
    <2>1. Cardinality(Tokens) <= Cardinality(TokensInUse)
        BY <1>7, FS_Subset
    <2> QED BY <1>7, <1>8, <2>1, FS_CardinalityType, SearchAssumption
<1>10. \E t \in Tokens : t \notin TokensInUse
    BY <1>9
<1> QED BY <1>10 DEF FreshToken

\* Every step of the projection is one of the ledger, or none.
LEMMA LedgerSteps ==
    ASSUME PassOK, ListsOK, [Next]_vars
    PROVE  [LedgerNext]_ledgerVars
<1>1. FreshToken \in Tokens
    BY TokenIsFresh
<1>2. ASSUME NEW w \in Slots, RunOnce(w)
      PROVE  [LedgerNext]_ledgerVars
    <2>1. ProjectorOf(w) \in Projectors
        BY DEF ProjectorOf, Projectors
    <2>2. CASE Bind(w)
        <3>1. pass[w].store \in Stores
            BY <2>2 DEF Bind, PassOK, ClaimedPass, Steps, Idle
        <3> QED BY <2>1, <2>2, <3>1 DEF Bind, LedgerNext
    <2>3. CASE \E s \in Sessions : ClaimRow(w, s)
        BY <1>1, <2>1, <2>3 DEF ClaimRow, LedgerNext
    <2>4. ASSUME Working(w)
          PROVE  /\ pass[w].session \in Sessions /\ pass[w].token \in Tokens
                 /\ pass[w].revision \in Nat /\ pass[w].revision <= commitSeq
        BY <2>4 DEF PassOK, ClaimedPass, Steps, Working, Idle, ListsOK, ListsSnapshot
    <2>5. CASE CompletePass(w)
        <3>1. Working(w)
            BY <2>5 DEF CompletePass, Working, Steps
        <3>2. commitSeq \in Nat => pass[w].revision \in 0 .. commitSeq
            BY <2>4, <3>1
        <3> QED BY <2>1, <2>4, <2>5, <3>1, <3>2 DEF CompletePass, LedgerNext
    <2>6. CASE FailPass(w)
        <3>1. Working(w)
            BY <2>6 DEF FailPass, Working, Steps
        <3> QED BY <2>1, <2>4, <2>6, <3>1 DEF FailPass, LedgerNext
    <2>7. CASE UNCHANGED ledgerVars
        BY <2>7
    <2> QED BY <1>2, <2>2, <2>3, <2>5, <2>6, <2>7
            DEF RunOnce, Ping, ClaimNothing, ListPage, Reuse, IndexObject, PublishSet, PublishLags,
                DeleteFromSearch, ListForEmbedding, ReadSource, WriteEmbeddings, CompletionRefused
<1>3. ASSUME NEW p \in Projectors, NEW s \in Sessions, TimePasses(p, s)
      PROVE  [LedgerNext]_ledgerVars
    BY <1>3 DEF TimePasses, LedgerNext
<1>4. ASSUME Environment PROVE [LedgerNext]_ledgerVars
    <2>1. \A w \in Slots : ProjectorOf(w) \in Projectors
        BY DEF ProjectorOf, Projectors
    <2>2. CASE \E w \in Slots, s \in Sessions : ClaimReplyLost(w, s)
        BY <1>1, <2>1, <2>2 DEF ClaimReplyLost, LedgerNext
    <2>3. CASE \E s \in Sessions : \/ \E replaced \in SUBSET Active(s) : Commit(s, replaced)
                                   \/ RetireOne(s) \/ DeleteOne(s)
        BY <2>3 DEF Commit, RetireOne, DeleteOne, CatalogWrite, UntoldWrite, LedgerNext
    <2>4. CASE \E s \in Sessions, p \in Projectors : RequeueOne(p, s)
        BY <2>4 DEF RequeueOne, LedgerNext
    <2>5. CASE RestartHost
        BY <2>5 DEF RestartHost, LedgerNext
    <2>6. CASE ReplaceStore \/ \E w \in Slots : StepFails(w) \/ FailureReportLost(w)
        BY <2>6 DEF ReplaceStore, StepFails, FailureReportLost
    <2> QED BY <1>4, <2>2, <2>3, <2>4, <2>5, <2>6 DEF Environment
<1>5. CASE UNCHANGED vars
    BY <1>5 DEF vars
<1> QED BY <1>2, <1>3, <1>4, <1>5 DEF Next

\* A pass that works on a session knows which.
LEMMA PassFacts ==
    ASSUME PassOK, NEW w \in Slots
    PROVE  /\ Working(w) => pass[w] \in ClaimedPass
           /\ pass[w].pc = "bind" => pass[w].store \in Stores
BY DEF PassOK, Working, ClaimedPass, Steps, Idle

\* What one step can do to a slot.
LEMMA PassActs ==
    ASSUME PassOK, [Next]_vars, NEW w \in Slots
    PROVE  \/ pass'[w] = pass[w]
           \/ pass'[w] \in {Idle, [pc |-> "claim"]}
           \/ Ping(w) /\ pass'[w] = [pc |-> "bind", store |-> store.id]
           \/ \E s \in Sessions : ClaimRow(w, s)
           \/ ListPage(w) /\ ~Gone(pass[w].session)
           \/ Reuse(w) \/ IndexObject(w)
           \/ Working(w) /\ \E pc \in {"fail", "source", "embed"} :
                                /\ pass'[w] = [pass[w] EXCEPT !.pc = pc]
                                /\ \/ pc = "fail"
                                   \/ pc = "source" /\ ListForEmbedding(w)
                                   \/ pc = "embed" /\ ReadSource(w)
           \/ /\ Working(w) /\ Gone(pass[w].session)
              /\ ListPage(w) \/ ListForEmbedding(w)
              /\ pass'[w] = [pass[w] EXCEPT !.pc = "delete"]
           \/ /\ Working(w)
              /\ \/ PublishSet(w) \/ DeleteFromSearch(w)
                 \/ WriteEmbeddings(w) /\ Serves(pass[w].session, pass[w].revision)
              /\ pass'[w] = [pass[w] EXCEPT !.pc = "complete"]
<1>1. DOMAIN pass = Slots
    BY DEF PassOK
<1>2. CASE UNCHANGED vars
    BY <1>2 DEF vars, searchVars
<1>3. ASSUME NEW v \in Slots, v # w, NEW x, Become(v, x)
      PROVE  pass'[w] = pass[w]
    BY <1>1, <1>3 DEF Become
<1>4. ASSUME NEW x, Become(w, x) PROVE pass'[w] = x
    BY <1>1, <1>4 DEF Become
<1>5. ASSUME NEW v \in Slots, v # w, RunOnce(v)
      PROVE  pass'[w] = pass[w]
    BY <1>3, <1>5 DEF RunOnce, Ping, Bind, ClaimNothing, ClaimRow, ListPage, Reuse, IndexObject,
           PublishSet, PublishLags, DeleteFromSearch, ListForEmbedding, ReadSource,
           WriteEmbeddings, CompletePass, CompletionRefused, FailPass
<1>6. CASE Ping(w)
    BY <1>4, <1>6 DEF Ping
<1>7. CASE Bind(w) \/ ClaimNothing(w) \/ CompletePass(w) \/ CompletionRefused(w) \/ FailPass(w)
    BY <1>4, <1>7 DEF Bind, ClaimNothing, CompletePass, CompletionRefused, FailPass
<1>8. CASE ListPage(w)
    <2>1. Working(w)
        BY <1>8 DEF ListPage, Working, Steps
    <2>2. CASE Gone(pass[w].session)
        BY <1>4, <1>8, <2>1, <2>2 DEF ListPage
    <2> QED BY <1>8, <2>2
<1>9. CASE PublishSet(w) \/ PublishLags(w) \/ DeleteFromSearch(w)
    <2>1. Working(w)
        BY <1>9 DEF PublishSet, PublishLags, ReadyToPublish, DeleteFromSearch, Working, Steps
    <2> QED BY <1>4, <1>9, <2>1 DEF PublishSet, PublishLags, DeleteFromSearch
<1>10. CASE ListForEmbedding(w) \/ ReadSource(w) \/ WriteEmbeddings(w)
    <2>1. Working(w)
        BY <1>10 DEF ListForEmbedding, ReadSource, WriteEmbeddings, Working, Steps
    <2> QED BY <1>4, <1>10, <2>1 DEF ListForEmbedding, ReadSource, WriteEmbeddings
<1>11. CASE RunOnce(w)
    BY <1>6, <1>7, <1>8, <1>9, <1>10, <1>11 DEF RunOnce
<1>12. CASE Environment
    <2>1. ASSUME NEW v \in Slots, StepFails(v)
          PROVE  \/ pass'[w] = pass[w]
                 \/ Working(w) /\ pass'[w] = [pass[w] EXCEPT !.pc = "fail"]
        <3>1. Working(v)
            BY <2>1 DEF StepFails, Working, Steps
        <3> QED BY <1>3, <1>4, <2>1, <3>1 DEF StepFails
    <2>2. ASSUME NEW v \in Slots, FailureReportLost(v) \/ \E s \in Sessions : ClaimReplyLost(v, s)
          PROVE  pass'[w] = pass[w] \/ pass'[w] = Idle
        BY <1>3, <1>4, <2>2 DEF FailureReportLost, ClaimReplyLost
    <2>3. CASE RestartHost
        BY <2>3 DEF RestartHost
    <2>4. CASE ReplaceStore \/ \E s \in Sessions :
                  \/ \E replaced \in SUBSET Active(s) : Commit(s, replaced)
                  \/ RetireOne(s) \/ DeleteOne(s)
                  \/ \E p \in Projectors : RequeueOne(p, s)
        BY <2>4 DEF ReplaceStore, Commit, RetireOne, DeleteOne, RequeueOne
    <2> QED BY <1>12, <2>1, <2>2, <2>3, <2>4 DEF Environment
<1>13. CASE \E p \in Projectors, s \in Sessions : TimePasses(p, s)
    BY <1>13 DEF TimePasses, searchVars
<1> QED BY <1>2, <1>5, <1>11, <1>12, <1>13 DEF Next

\* The same, less precisely.
LEMMA PassMoves ==
    ASSUME PassOK, [Next]_vars, NEW w \in Slots
    PROVE  \/ pass'[w] = pass[w]
           \/ pass'[w] \in {Idle, [pc |-> "claim"]}
           \/ Ping(w) /\ pass'[w] = [pc |-> "bind", store |-> store.id]
           \/ \E s \in Sessions : ClaimRow(w, s)
           \/ ListPage(w) /\ ~Gone(pass[w].session)
           \/ Reuse(w) \/ IndexObject(w)
           \/ Working(w) /\ \E pc \in {"delete", "complete", "fail", "source", "embed"} :
                                pass'[w] = [pass[w] EXCEPT !.pc = pc]
BY PassActs

\* The same, of the whole table of slots.
LEMMA PassDomain ==
    ASSUME PassOK, [Next]_vars
    PROVE  pass' = [w \in Slots |-> pass'[w]]
<1>1. \A x : \A w \in Slots : Become(w, x) => pass' = [v \in Slots |-> pass'[v]]
    BY DEF PassOK, Become
<1>2. pass = [w \in Slots |-> pass[w]]
    BY DEF PassOK
<1>3. ASSUME NEW w \in Slots, RunOnce(w) PROVE pass' = [v \in Slots |-> pass'[v]]
    BY <1>1, <1>3 DEF RunOnce, Ping, Bind, ClaimNothing, ClaimRow, ListPage, Reuse, IndexObject,
           PublishSet, PublishLags, DeleteFromSearch, ListForEmbedding, ReadSource,
           WriteEmbeddings, CompletePass, CompletionRefused, FailPass
<1>4. CASE Environment
    BY <1>1, <1>2, <1>4 DEF Environment, StepFails, FailureReportLost, ClaimReplyLost, RestartHost,
           ReplaceStore, Commit, RetireOne, DeleteOne, RequeueOne
<1>5. CASE UNCHANGED pass
    BY <1>2, <1>5
<1> QED BY <1>3, <1>4, <1>5 DEF Next, TimePasses, vars, searchVars

-----------------------------------------------------------------------------
(* The catalog, and what a revision held.                                  *)

\* The sessions' content is written by the catalog alone.
LEMMA ContentSteps ==
    ASSUME [Next]_vars
    PROVE  \/ UNCHANGED <<commitSeq, content>>
           \/ (CatalogWrite \/ UntoldWrite) /\ UNCHANGED <<pass, bound, store>>
<1>1. CASE UNCHANGED vars
    BY <1>1 DEF vars, ledgerVars
<1>2. ASSUME NEW w \in Slots, RunOnce(w) PROVE UNCHANGED <<commitSeq, content>>
    BY <1>2 DEF RunOnce, Ping, Bind, ClaimNothing, ClaimRow, ListPage, Reuse, IndexObject,
           PublishSet, PublishLags, DeleteFromSearch, ListForEmbedding, ReadSource,
           WriteEmbeddings, CompletePass, CompletionRefused, FailPass, BindStore, Claim, Complete,
           Fail, ledgerVars
<1>3. ASSUME NEW p \in Projectors, NEW s \in Sessions, TimePasses(p, s)
      PROVE  UNCHANGED <<commitSeq, content>>
    BY <1>3 DEF TimePasses, LeaseExpires, RetryDue
<1>4. CASE Environment
    <2>1. CASE \E s \in Sessions : \/ \E replaced \in SUBSET Active(s) : Commit(s, replaced)
                                   \/ RetireOne(s) \/ DeleteOne(s)
        BY <2>1 DEF Commit, RetireOne, DeleteOne, CatalogWrite, UntoldWrite
    <2>2. CASE \/ \E w \in Slots : \/ StepFails(w) \/ FailureReportLost(w)
                                   \/ \E s \in Sessions : ClaimReplyLost(w, s)
               \/ \E s \in Sessions, p \in Projectors : RequeueOne(p, s)
               \/ RestartHost \/ ReplaceStore
        BY <2>2 DEF StepFails, FailureReportLost, ClaimReplyLost, RequeueOne, RestartHost,
               ReplaceStore, Claim, Requeue, ReleaseClaims, ledgerVars
    <2> QED BY <1>4, <2>1, <2>2 DEF Environment
<1> QED BY <1>1, <1>2, <1>3, <1>4 DEF Next

\* What a write that raises what is wanted does to a session, retiring the objects gone.
Written(s, gone) ==
    /\ commitSeq' = commitSeq + 1
    /\ content' = [content EXCEPT ![s] = content'[s]]
    /\ content[s].state # "deleted"
    /\ \/ /\ content'[s].state = "ready"
          /\ content'[s].revived = (content[s].revived \/ content[s].state = "retired")
          /\ content'[s].objects = Retire(content[s].objects, gone, commitSeq + 1)
                                       \cup {[id |-> commitSeq + 1, retired |-> None]}
       \/ /\ content[s].state \in {"ready", "retired"}
          /\ content'[s].state \in {"retired", "deleted"}
          /\ content'[s].revived = content[s].revived
          /\ gone = Active(s)
          /\ content'[s].objects = Retire(content[s].objects, gone, commitSeq + 1)
    /\ content'[s] = [objects |-> content'[s].objects, state |-> content'[s].state,
                      revived |-> content'[s].revived]
    /\ content'[s].revived \in BOOLEAN
    /\ content'[s].state \in {"absent", "ready", "retired", "deleted"}
    /\ \A p \in Projectors :
          /\ ledger'[p][s].desired = commitSeq + 1
          /\ ledger'[p][s].completed = ledger[p][s].completed
          /\ \A t \in Sessions \ {s} : ledger'[p][t] = ledger[p][t]
    /\ UNCHANGED binding

\* A write that raises what is wanted is a write of one session.
LEMMA WriteFacts ==
    ASSUME RowsBounded, ContentOK, CatalogWrite
    PROVE  \E s \in Sessions : \E gone \in SUBSET Active(s) : Written(s, gone)
<1>1. PICK s \in Sessions : \/ \E replaced \in SUBSET Active(s) : CommitObject(s, replaced)
                            \/ RetireSession(s)
                            \/ DeleteStorageSession(s)
    BY DEF CatalogWrite
<1>2. /\ content[s] \in [objects : SUBSET [id : Nat, retired : Nat \cup {None}],
                         state : {"absent", "ready", "retired", "deleted"}, revived : BOOLEAN]
      /\ DOMAIN content = Sessions
    BY DEF ContentOK
<1>3. ASSUME NEW p \in Projectors
      PROVE  /\ ledger'[p][s].desired = commitSeq + 1
             /\ ledger'[p][s].completed = ledger[p][s].completed
             /\ \A t \in Sessions \ {s} : ledger'[p][t] = ledger[p][t]
    <2>1. /\ ledger[p] \in [Sessions -> Row] /\ ledger[p][s] \in Row
        BY DEF RowsBounded
    <2>2. \/ ledger'[p] = [ledger[p] EXCEPT ![s] = Wanted(ledger[p][s], commitSeq + 1)]
          \/ ledger'[p] = [ledger[p] EXCEPT ![s] = WantedAfresh(ledger[p][s], commitSeq + 1)]
        BY <1>1 DEF CommitObject, RetireSession, DeleteStorageSession, BumpAll
    <2>3. /\ Wanted(ledger[p][s], commitSeq + 1).desired = commitSeq + 1
          /\ Wanted(ledger[p][s], commitSeq + 1).completed = ledger[p][s].completed
          /\ WantedAfresh(ledger[p][s], commitSeq + 1).desired = commitSeq + 1
          /\ WantedAfresh(ledger[p][s], commitSeq + 1).completed = ledger[p][s].completed
        BY <2>1 DEF Wanted, WantedAfresh, Row
    <2> QED BY <2>1, <2>2, <2>3
<1>4. ASSUME NEW gone \in SUBSET Active(s), CommitObject(s, gone)
      PROVE  /\ content' = [content EXCEPT ![s] = content'[s]]
             /\ content[s].state # "deleted"
             /\ content'[s].state = "ready"
             /\ content'[s].revived = (content[s].revived \/ content[s].state = "retired")
             /\ content'[s].objects = Retire(content[s].objects, gone, commitSeq + 1)
                                          \cup {[id |-> commitSeq + 1, retired |-> None]}
             /\ content'[s] = [objects |-> content'[s].objects, state |-> content'[s].state,
                               revived |-> content'[s].revived]
             /\ content'[s].revived \in BOOLEAN
    <2> DEFINE b == content[s].revived \/ content[s].state = "retired"
               O == Retire(content[s].objects, gone, commitSeq + 1)
               c == [objects |-> O \cup {[id |-> commitSeq + 1, retired |-> None]},
                     state   |-> "ready",
                     revived |-> b]
    <2>1. content' = [content EXCEPT ![s] = c] /\ content[s].state # "deleted"
        BY <1>4 DEF CommitObject
    <2>2. content'[s] = c
        BY <1>2, <2>1
    <2>3. O = Retire(content[s].objects, gone, commitSeq + 1)
        OBVIOUS
    <2> HIDE DEF O, b
    <2>4. /\ content'[s].state = "ready" /\ content'[s].revived = b
          /\ content'[s].objects = O \cup {[id |-> commitSeq + 1, retired |-> None]}
        BY <2>2
    <2>5. content'[s] = [objects |-> content'[s].objects, state |-> content'[s].state,
                         revived |-> content'[s].revived]
        BY <2>2
    <2>6. b = (content[s].revived \/ content[s].state = "retired") /\ b \in BOOLEAN
        BY DEF b
    <2> HIDE DEF c
    <2>7. content' = [content EXCEPT ![s] = content'[s]]
        BY <2>1, <2>2
    <2> QED BY <2>1, <2>3, <2>4, <2>5, <2>6, <2>7
<1>5. ASSUME NEW x \in {"retired", "deleted"},
             content' = [content EXCEPT ![s].objects = Retire(@, Active(s), commitSeq + 1),
                                        ![s].state = x]
      PROVE  /\ content' = [content EXCEPT ![s] = content'[s]]
             /\ content'[s].state = x /\ content'[s].revived = content[s].revived
             /\ content'[s].objects = Retire(content[s].objects, Active(s), commitSeq + 1)
             /\ content'[s] = [objects |-> content'[s].objects, state |-> content'[s].state,
                               revived |-> content'[s].revived]
             /\ content'[s].revived \in BOOLEAN
    <2> DEFINE R == Retire(content[s].objects, Active(s), commitSeq + 1)
               b == content[s].revived
               c == [objects |-> R, state |-> x, revived |-> b]
               mid == [content[s] EXCEPT !.objects = R]
    <2>0. content' = [content EXCEPT ![s] = [mid EXCEPT !.state = x]]
        BY <1>2, <1>5
    <2>1. /\ content[s] = [objects |-> content[s].objects, state |-> content[s].state,
                           revived |-> b]
          /\ b \in BOOLEAN
        BY <1>2
    <2> HIDE DEF R, b
    <2> HIDE DEF mid
    <2>2. [mid EXCEPT !.state = x] = c
        <3>1. mid = [objects |-> R, state |-> content[s].state, revived |-> b]
            BY <2>1 DEF mid
        <3> QED BY <3>1
    <2>3. content' = [content EXCEPT ![s] = c]
        BY <2>0, <2>2
    <2> HIDE DEF c
    <2>4. content'[s] = c /\ content' = [content EXCEPT ![s] = content'[s]]
        BY <1>2, <2>3
    <2> USE DEF c
    <2>5. content'[s].state = x /\ content'[s].revived = b /\ content'[s].objects = R
        BY <2>4
    <2>6. content'[s] = [objects |-> content'[s].objects, state |-> content'[s].state,
                         revived |-> content'[s].revived]
        BY <2>4
    <2> HIDE DEF c
    <2> QED BY <2>1, <2>4, <2>5, <2>6 DEF R, b
<1>6. commitSeq' = commitSeq + 1 /\ UNCHANGED binding
    BY <1>1 DEF CommitObject, RetireSession, DeleteStorageSession
<1>7. CASE \E replaced \in SUBSET Active(s) : CommitObject(s, replaced)
    BY <1>3, <1>4, <1>6, <1>7 DEF Written
<1>8. CASE RetireSession(s)
    <2>1. content[s].state = "ready"
        BY <1>8 DEF RetireSession
    <2>2. content' = [content EXCEPT ![s].objects = Retire(@, Active(s), commitSeq + 1),
                                     ![s].state = "retired"]
        BY <1>8 DEF RetireSession
    <2> QED BY <1>3, <1>5, <1>6, <2>1, <2>2 DEF Written
<1>9. CASE DeleteStorageSession(s)
    <2>1. content[s].state \in {"ready", "retired"}
        BY <1>9 DEF DeleteStorageSession
    <2>2. content' = [content EXCEPT ![s].objects = Retire(@, Active(s), commitSeq + 1),
                                     ![s].state = "deleted"]
        BY <1>9 DEF DeleteStorageSession
    <2> QED BY <1>3, <1>5, <1>6, <2>1, <2>2 DEF Written
<1> QED BY <1>1, <1>7, <1>8, <1>9

\* What a write that tells nobody does to a session, retiring the objects gone.
WrittenUntold(s, gone) ==
    /\ commitSeq' = commitSeq + 1
    /\ content' = [content EXCEPT ![s] = content'[s]]
    /\ \/ /\ content'[s].state = content[s].state
          /\ content[s].state \in {"absent", "ready"}
          /\ content'[s].revived = content[s].revived
       \/ content[s].state = "retired" /\ content'[s].state = "ready" /\ content'[s].revived
    /\ content'[s].objects = Retire(content[s].objects, gone, commitSeq + 1)
    /\ content'[s] = [objects |-> content'[s].objects, state |-> content'[s].state,
                      revived |-> content'[s].revived]
    /\ content'[s].revived \in BOOLEAN
    /\ UNCHANGED <<ledger, binding>>

\* A write that tells nobody is a write of one session.
LEMMA UntoldFacts ==
    ASSUME ContentOK, UntoldWrite
    PROVE  \E s \in Sessions : \E gone \in SUBSET Active(s) : WrittenUntold(s, gone)
<1>1. PICK s, gone : s \in Sessions /\ gone \in SUBSET Active(s) /\ CommitUnrendered(s, gone)
    BY DEF UntoldWrite
<1> s \in Sessions
    BY <1>1
<1>2. /\ content[s] \in [objects : SUBSET [id : Nat, retired : Nat \cup {None}],
                         state : {"absent", "ready", "retired", "deleted"}, revived : BOOLEAN]
      /\ DOMAIN content = Sessions
    BY DEF ContentOK
<1> DEFINE b == content[s].revived \/ content[s].state = "retired"
           O == Retire(content[s].objects, gone, commitSeq + 1)
           x == IF content[s].state = "absent" THEN "absent" ELSE "ready"
           c == [objects |-> O, state |-> x, revived |-> b]
<1>3. /\ content' = [content EXCEPT ![s] = c] /\ content[s].state # "deleted"
      /\ commitSeq' = commitSeq + 1 /\ UNCHANGED <<ledger, binding>>
    BY <1>1 DEF CommitUnrendered
<1>4. content'[s] = c
    BY <1>2, <1>3
<1>5. content[s].state \in {"absent", "ready", "retired"} /\ content[s].revived \in BOOLEAN
    BY <1>2, <1>3
<1>6. /\ \/ x = content[s].state /\ content[s].state \in {"absent", "ready"} /\ b = content[s].revived
         \/ content[s].state = "retired" /\ x = "ready" /\ b
      /\ b \in BOOLEAN
    BY <1>5
<1> HIDE DEF O, b, x
<1>7. content'[s].state = x /\ content'[s].revived = b /\ content'[s].objects = O
    BY <1>4
<1>8. content'[s] = [objects |-> content'[s].objects, state |-> content'[s].state,
                     revived |-> content'[s].revived]
    BY <1>4
<1> HIDE DEF c
<1>9. content' = [content EXCEPT ![s] = content'[s]]
    BY <1>3, <1>4
<1> QED BY <1>1, <1>3, <1>6, <1>7, <1>8, <1>9 DEF O, WrittenUntold

RenderObject == [id : Nat, retired : Nat \cup {None}]

Holds(objects, revision) ==
    {o.id : o \in {x \in objects :
                     x.id <= revision /\ (x.retired = None \/ x.retired > revision)}}

\* Retiring objects changes no earlier revision.
LEMMA RetireKeepsThePast ==
    ASSUME NEW O \in SUBSET RenderObject, NEW gone \in SUBSET {o \in O : o.retired = None},
           NEW r \in Nat, NEW seq \in Nat, r < seq
    PROVE  /\ Retire(O, gone, seq) \in SUBSET RenderObject
           /\ Holds(Retire(O, gone, seq), r) = Holds(O, r)
           /\ \A x \in Retire(O, gone, seq) : \E o \in O : x.id = o.id
<1> DEFINE F(o) == IF o \in gone THEN [o EXCEPT !.retired = seq] ELSE o
<1>1. ASSUME NEW o \in O
      PROVE  /\ F(o) \in RenderObject /\ F(o).id = o.id
             /\ F(o).retired = (IF o \in gone THEN seq ELSE o.retired)
    BY DEF RenderObject
<1>2. Retire(O, gone, seq) = {F(o) : o \in O}
    BY DEF Retire
<1>3. \A o \in O : o.id \in Nat /\ (o.retired \in Nat \/ o.retired = None)
    BY DEF RenderObject
<1>4. seq # None
    BY LedgerAssumption
<1> HIDE DEF F
<1>5. ASSUME NEW o \in O
      PROVE  (o.id <= r /\ (o.retired = None \/ o.retired > r))
             <=> (F(o).id <= r /\ (F(o).retired = None \/ F(o).retired > r))
    BY <1>1, <1>3, <1>4
<1>6. ASSUME NEW k \in Holds(O, r) PROVE k \in Holds(Retire(O, gone, seq), r)
    <2>1. PICK o \in O : k = o.id /\ o.id <= r /\ (o.retired = None \/ o.retired > r)
        BY DEF Holds
    <2>2. F(o) \in Retire(O, gone, seq) /\ k = F(o).id
        BY <1>1, <1>2, <2>1
    <2> QED BY <1>5, <2>1, <2>2 DEF Holds
<1>7. ASSUME NEW k \in Holds(Retire(O, gone, seq), r) PROVE k \in Holds(O, r)
    <2>1. PICK x \in Retire(O, gone, seq) :
              k = x.id /\ x.id <= r /\ (x.retired = None \/ x.retired > r)
        BY DEF Holds
    <2>2. PICK o \in O : x = F(o)
        BY <1>2
    <2> QED BY <1>1, <1>5, <2>1, <2>2 DEF Holds
<1> QED BY <1>1, <1>2, <1>6, <1>7

\* What a revision held, it holds.
LEMMA SnapshotStays ==
    ASSUME RowsBounded, ContentOK, [Next]_vars,
           NEW s \in Sessions, NEW r \in Nat, r <= commitSeq
    PROVE  Snapshot(s, r)' = Snapshot(s, r)
<1>1. CASE UNCHANGED content
    BY <1>1 DEF Snapshot
<1>2. CASE CatalogWrite \/ UntoldWrite
    <2>1. PICK t, gone :
             /\ t \in Sessions /\ gone \in SUBSET Active(t)
             /\ content' = [content EXCEPT ![t] = content'[t]]
             /\ \/ content'[t].objects = Retire(content[t].objects, gone, commitSeq + 1)
                \/ content'[t].objects = Retire(content[t].objects, gone, commitSeq + 1)
                                             \cup {[id |-> commitSeq + 1, retired |-> None]}
        <3>1. CASE CatalogWrite
            BY <3>1, WriteFacts DEF Written
        <3>2. CASE UntoldWrite
            BY <3>2, UntoldFacts DEF WrittenUntold
        <3> QED BY <1>2, <3>1, <3>2
    <2>2. CASE s # t
        <3>1. content'[s] = content[s]
            BY <2>1, <2>2 DEF ContentOK
        <3> QED BY <3>1 DEF Snapshot
    <2>3. CASE s = t
        <3> DEFINE seq == commitSeq + 1
                   new == [id |-> seq, retired |-> None]
                   P == content[s].objects
                   R == Retire(P, gone, seq)
        <3>1. commitSeq \in Nat /\ seq \in Nat /\ r < seq
            BY DEF RowsBounded
        <3>2. P \in SUBSET RenderObject
            BY DEF ContentOK, RenderObject
        <3>3. Holds(R, r) = Holds(P, r)
            <4>1. gone \in SUBSET {o \in P : o.retired = None}
                BY <2>1, <2>3 DEF Active
            <4> QED BY <3>1, <3>2, <4>1, RetireKeepsThePast
        <3>4. \A O : Holds(O \cup {new}, r) = Holds(O, r)
            BY <3>1 DEF Holds
        <3>5. content'[s].objects \in {R, R \cup {new}}
            BY <2>1, <2>3
        <3> HIDE DEF P, R, new
        <3>6. Holds(content'[s].objects, r) = Holds(P, r)
            BY <3>3, <3>4, <3>5
        <3>7. Snapshot(s, r)' = Holds(content'[s].objects, r)
            BY DEF Snapshot, Holds
        <3>8. Snapshot(s, r) = Holds(P, r)
            BY DEF Snapshot, Holds, P
        <3> QED BY <3>6, <3>7, <3>8
    <2> QED BY <2>2, <2>3
<1> QED BY <1>1, <1>2, ContentSteps

\* A revision holds objects that were committed by then.
LEMMA SnapshotFacts ==
    ASSUME ContentOK, NEW s \in Sessions, NEW r
    PROVE  /\ Snapshot(s, r) \subseteq Nat
           /\ \A k \in Snapshot(s, r) : 0 < k /\ k <= r /\ k <= ledger[Search][s].desired
<1>1. \A o \in content[s].objects : o.id \in Nat
    BY DEF ContentOK
<1> QED BY <1>1 DEF Snapshot, ContentOK

\* What is wanted of a session moves with the catalog's writes, and for both
\* projectors.
LEMMA DesiredStays ==
    ASSUME RowsBounded, PassOK, ListsOK, [Next]_vars, UNCHANGED commitSeq,
           NEW p \in Projectors, NEW s \in Sessions
    PROVE  ledger'[p][s].desired = ledger[p][s].desired
<1>1. /\ ledger \in [Projectors -> [Sessions -> Row]] /\ ledger[p][s] \in Row /\ commitSeq \in Nat
    BY DEF RowsBounded
<1>2. ~CatalogWrite /\ ~UntoldWrite
    <2>1. CatalogWrite \/ UntoldWrite => commitSeq' = commitSeq + 1
        BY DEF CatalogWrite, CommitObject, RetireSession, DeleteStorageSession, UntoldWrite,
               CommitUnrendered
    <2> QED BY <1>1, <2>1
<1>3. \A row : Reset(row).desired = row.desired
    BY DEF Reset, FreshRow
<1>4. ASSUME NEW q \in Projectors, NEW t \in Sessions,
             \/ \E token \in Tokens : \/ Claim(q, t, token)
                                      \/ Fail(q, t, token)
                                      \/ \E revision \in 0 .. commitSeq :
                                            Complete(q, t, token, revision)
             \/ LeaseExpires(q, t) \/ RetryDue(q, t) \/ Requeue(q, t)
      PROVE  ledger'[p][s].desired = ledger[p][s].desired
    <2>1. ledger[q][t] \in Row
        BY <1>1
    <2>2. ASSUME NEW row, ledger' = [ledger EXCEPT ![q][t] = row],
                 row.desired = ledger[q][t].desired
          PROVE  ledger'[p][s].desired = ledger[p][s].desired
        BY <1>1, <2>2
    <2>3. ASSUME NEW row \in Row, NEW c, NEW k, NEW u, NEW n
          PROVE  /\ [row EXCEPT !.claimed = c, !.token = k, !.until = u].desired = row.desired
                 /\ [row EXCEPT !.completed = n, !.claimed = c, !.token = k, !.until = u].desired
                        = row.desired
                 /\ [row EXCEPT !.until = u].desired = row.desired
        BY DEF Row
    <2>4. ASSUME NEW token \in Tokens, Claim(q, t, token)
          PROVE  ledger'[p][s].desired = ledger[p][s].desired
        BY <2>1, <2>2, <2>3, <2>4 DEF Claim
    <2>5. ASSUME NEW token \in Tokens, Fail(q, t, token)
          PROVE  ledger'[p][s].desired = ledger[p][s].desired
        BY <2>1, <2>2, <2>3, <2>5 DEF Fail
    <2>6. ASSUME NEW token \in Tokens, NEW revision \in 0 .. commitSeq,
                 Complete(q, t, token, revision)
          PROVE  ledger'[p][s].desired = ledger[p][s].desired
        BY <2>1, <2>2, <2>3, <2>6 DEF Complete
    <2>7. CASE LeaseExpires(q, t) \/ RetryDue(q, t)
        <3>1. ledger' = [ledger EXCEPT ![q][t] = [ledger[q][t] EXCEPT !.until = "now"]]
            BY <1>1, <2>7 DEF LeaseExpires, RetryDue
        <3> QED BY <2>1, <2>2, <2>3, <3>1
    <2>8. CASE Requeue(q, t)
        BY <1>3, <2>2, <2>8 DEF Requeue
    <2> QED BY <1>4, <2>4, <2>5, <2>6, <2>7, <2>8
<1>5. ASSUME NEW q \in Projectors, NEW x \in Stores, BindStore(q, x)
      PROVE  ledger'[p][s].desired = ledger[p][s].desired
    BY <1>1, <1>3, <1>5 DEF BindStore
<1>6. CASE ReleaseClaims
    BY <1>1, <1>6 DEF ReleaseClaims, Released, Row
<1>7. CASE UNCHANGED ledgerVars
    BY <1>7 DEF ledgerVars
<1> QED BY <1>2, <1>4, <1>5, <1>6, <1>7, LedgerSteps DEF LedgerNext

-----------------------------------------------------------------------------
(* Every step keeps the invariant.                                         *)

\* Bindings change only to stores that were seen.
LEMMA BindingSteps ==
    ASSUME [Next]_vars, NEW p \in Projectors
    PROVE  \/ UNCHANGED binding
           \/ \E w \in Slots : /\ Bind(w)
                               /\ binding' = [binding EXCEPT ![ProjectorOf(w)] = pass[w].store]
<1>1. CASE UNCHANGED vars
    BY <1>1 DEF vars, ledgerVars
<1>2. ASSUME NEW w \in Slots, RunOnce(w)
      PROVE  \/ UNCHANGED binding
             \/ Bind(w) /\ binding' = [binding EXCEPT ![ProjectorOf(w)] = pass[w].store]
    <2>1. CASE Bind(w)
        BY <2>1 DEF Bind, BindStore, ledgerVars
    <2> QED BY <1>2, <2>1 DEF RunOnce, Ping, ClaimNothing, ClaimRow, ListPage, Reuse, IndexObject,
           PublishSet, PublishLags, DeleteFromSearch, ListForEmbedding, ReadSource,
           WriteEmbeddings, CompletePass, CompletionRefused, FailPass, Claim, Complete,
           Fail, ledgerVars
<1>3. ASSUME NEW q \in Projectors, NEW s \in Sessions, TimePasses(q, s)
      PROVE  UNCHANGED binding
    BY <1>3 DEF TimePasses, LeaseExpires, RetryDue
<1>4. CASE Environment
    BY <1>4 DEF Environment, StepFails, FailureReportLost, ClaimReplyLost, RequeueOne, RestartHost,
           ReplaceStore, Claim, Requeue, ReleaseClaims, ledgerVars, Commit, RetireOne, DeleteOne,
           CommitObject, CommitUnrendered, RetireSession, DeleteStorageSession
<1> QED BY <1>1, <1>2, <1>3, <1>4 DEF Next

\* The catalog stays well-formed.
LEMMA ContentKept ==
    ASSUME SearchInv, [Next]_vars
    PROVE  ContentOK'
<1>1. RowsBounded /\ PassOK /\ ListsOK /\ ContentOK /\ commitSeq \in Nat
    BY DEF SearchInv, RowsBounded
<1>2. binding' \in [Projectors -> Stores \cup {None}]
    <2>1. ASSUME NEW w \in Slots, Bind(w) PROVE pass[w].store \in Stores
        BY <1>1, <2>1, PassFacts DEF Bind
    <2>2. Search \in Projectors
        BY DEF Projectors
    <2> QED BY <1>1, <2>1, <2>2, BindingSteps DEF ContentOK
<1>3. Search \in Projectors /\ Embedding \in Projectors
    BY DEF Projectors
<1>4. CASE UNCHANGED <<commitSeq, content>>
    BY <1>1, <1>2, <1>3, <1>4, DesiredStays DEF ContentOK
<1>5. CASE CatalogWrite \/ UntoldWrite
    <2>0. PICK s, gone : /\ s \in Sessions /\ gone \in SUBSET Active(s)
                         /\ Written(s, gone) \/ WrittenUntold(s, gone)
        <3>1. CASE CatalogWrite
            BY <1>1, <3>1, WriteFacts
        <3>2. CASE UntoldWrite
            BY <1>1, <3>2, UntoldFacts
        <3> QED BY <1>5, <3>1, <3>2
    <2>1. /\ content' = [content EXCEPT ![s] = content'[s]]
          /\ content'[s] = [objects |-> content'[s].objects, state |-> content'[s].state,
                            revived |-> content'[s].revived]
          /\ content'[s].state \in {"absent", "ready", "retired", "deleted"}
          /\ content'[s].revived \in BOOLEAN
          /\ \/ /\ \/ content'[s].objects = Retire(content[s].objects, gone, commitSeq + 1)
                   \/ content'[s].objects = Retire(content[s].objects, gone, commitSeq + 1)
                                                \cup {[id |-> commitSeq + 1, retired |-> None]}
                /\ \A p \in Projectors :
                      /\ ledger'[p][s].desired = commitSeq + 1
                      /\ \A t \in Sessions \ {s} : ledger'[p][t] = ledger[p][t]
             \/ /\ content'[s].objects = Retire(content[s].objects, gone, commitSeq + 1)
                /\ content'[s].state # "absent" => content[s].state # "absent"
                /\ UNCHANGED ledger
        <3>1. CASE Written(s, gone)
            BY <3>1 DEF Written
        <3>2. CASE WrittenUntold(s, gone)
            BY <3>2 DEF WrittenUntold
        <3> QED BY <2>0, <3>1, <3>2
    <2> s \in Sessions
        BY <2>0
    <2> DEFINE P == content[s].objects
               R == Retire(P, gone, commitSeq + 1)
               new == [id |-> commitSeq + 1, retired |-> None]
    <2>2. /\ P \in SUBSET RenderObject
          /\ \A o \in P : 0 < o.id /\ o.id <= commitSeq /\ o.id <= ledger[Search][s].desired
        <3>1. ledger[Search][s].desired <= commitSeq /\ ledger[Search][s].desired \in Nat
            BY <1>1, <1>3 DEF RowsBounded, RowBounded, Row
        <3>2. P \in SUBSET RenderObject
            BY <1>1 DEF ContentOK, RenderObject
        <3> QED BY <1>1, <3>1, <3>2 DEF ContentOK, RenderObject
    <2>3. /\ R \in SUBSET RenderObject
          /\ \A o \in R : 0 < o.id /\ o.id <= commitSeq /\ o.id <= ledger[Search][s].desired
        <3>1. commitSeq \in Nat /\ commitSeq < commitSeq + 1 /\ commitSeq + 1 \in Nat
            BY <1>1
        <3>2. gone \in SUBSET {o \in P : o.retired = None}
            BY <2>0 DEF Active
        <3> HIDE DEF P
        <3>3. R \in SUBSET RenderObject /\ \A x \in R : \E o \in P : x.id = o.id
            <4>1. P \in SUBSET RenderObject
                BY <2>2
            <4> QED BY <3>1, <3>2, <4>1, RetireKeepsThePast
        <3> QED BY <2>2, <3>3
    <2>4. new \in RenderObject /\ 0 < new.id /\ new.id = commitSeq + 1
        BY <1>1 DEF RenderObject
    <2>5. \/ /\ content'[s].objects \in {R, R \cup {new}}
             /\ ledger'[Search][s].desired = commitSeq + 1
          \/ content'[s].objects = R /\ ledger'[Search][s].desired = ledger[Search][s].desired
        BY <1>3, <2>1
    <2> HIDE DEF P, R, new
    <2>6. /\ content'[s].objects \in SUBSET RenderObject
          /\ \A o \in content'[s].objects : 0 < o.id /\ o.id <= ledger'[Search][s].desired
        <3>1. \A o \in R \cup {new} : o.id \in Nat /\ 0 < o.id /\ o.id <= commitSeq + 1
            BY <1>1, <2>3, <2>4 DEF RenderObject
        <3> QED BY <2>3, <2>4, <2>5, <3>1
    <2>7. content' \in [Sessions -> [objects : SUBSET [id : Nat, retired : Nat \cup {None}],
                                     state : {"absent", "ready", "retired", "deleted"},
                                     revived : BOOLEAN]]
        <3>1. content'[s] \in [objects : SUBSET RenderObject,
                               state : {"absent", "ready", "retired", "deleted"},
                               revived : BOOLEAN]
            BY <2>1, <2>6
        <3> QED BY <1>1, <2>1, <3>1 DEF ContentOK, RenderObject
    <2>8. ASSUME NEW t \in Sessions, t # s
          PROVE  content'[t] = content[t] /\ \A p \in Projectors : ledger'[p][t] = ledger[p][t]
        BY <1>1, <2>1, <2>8 DEF ContentOK
    <2>9. /\ ledger'[Search][s].desired = ledger'[Embedding][s].desired
          /\ content'[s].state # "absent" => ledger'[Search][s].desired > 0
        <3>1. commitSeq + 1 > 0
            BY <1>1
        <3> QED BY <1>1, <1>3, <2>1, <3>1 DEF ContentOK
    <2>10. ASSUME NEW t \in Sessions
           PROVE  /\ ledger'[Search][t].desired = ledger'[Embedding][t].desired
                  /\ content'[t].state # "absent" => ledger'[Search][t].desired > 0
                  /\ \A o \in content'[t].objects : 0 < o.id /\ o.id <= ledger'[Search][t].desired
        BY <1>1, <1>3, <2>6, <2>8, <2>9 DEF ContentOK
    <2> QED BY <1>2, <2>7, <2>10 DEF ContentOK
<1> QED BY <1>4, <1>5, ContentSteps

\* The page a pass is given is of its snapshot.
LEMMA PageFacts ==
    ASSUME PassOK, ContentOK, NEW w \in Slots, ListPage(w), ~Gone(pass[w].session)
    PROVE  /\ Working(w)
           /\ Smallest(Unlisted(w), PageSize) \subseteq Unlisted(w)
           /\ Unlisted(w) \subseteq Snapshot(pass[w].session, pass[w].revision)
           /\ pass'[w] = [pass[w] EXCEPT !.pc = "reuse", !.todo = Smallest(Unlisted(w), PageSize),
                                         !.more = (Unlisted(w) # Smallest(Unlisted(w), PageSize))]
<1>1. Working(w)
    BY DEF ListPage, Working, Steps
<1>2. DOMAIN pass = Slots
    BY DEF PassOK
<1> QED BY <1>1, <1>2 DEF ListPage, Become, Smallest, Unlisted

\* The slots stay well-formed.
LEMMA PassKept ==
    ASSUME SearchInv, [Next]_vars
    PROVE  PassOK'
<1>1. PassOK /\ ContentOK /\ StoresOK
    BY DEF SearchInv
<1> DEFINE States == {Idle, [pc |-> "claim"]} \cup [pc : {"bind"}, store : Stores] \cup ClaimedPass
<1>2. SUFFICES ASSUME NEW w \in Slots PROVE pass'[w] \in States
    <2>1. pass' = [w \in Slots |-> pass'[w]]
        BY <1>1, PassDomain
    <2> QED BY <1>2, <2>1 DEF PassOK
<1>3. CASE pass'[w] = pass[w]
    BY <1>1, <1>3 DEF PassOK
<1>4. CASE pass'[w] \in {Idle, [pc |-> "claim"]}
    BY <1>4
<1>5. CASE Ping(w) /\ pass'[w] = [pc |-> "bind", store |-> store.id]
    <2>1. store.id \in Stores
        BY <1>1 DEF StoresOK, Database
    <2> QED BY <1>5, <2>1
<1>6. ASSUME NEW s \in Sessions, ClaimRow(w, s) PROVE pass'[w] \in States
    <2> DEFINE p == ProjectorOf(w)
    <2>1. p \in Projectors
        BY DEF ProjectorOf, Projectors
    <2>2. ClaimRevision(p, s) \in Nat
        <3>1. RowsBounded /\ Eligible(p, s)
            BY <1>6 DEF SearchInv, ClaimRow, Claim
        <3> QED BY <2>1, <3>1, ClaimIsBounded
    <2>3. pass'[w] = StartPass(s, ClaimRevision(p, s), FreshToken)
        BY <1>1, <1>6 DEF ClaimRow, Become, PassOK
    <2>4. StartPass(s, ClaimRevision(p, s), FreshToken) \in ClaimedPass
        BY <2>2, TokenIsFresh DEF StartPass, ClaimedPass, Steps
    <2> QED BY <2>3, <2>4
<1>7. CASE ListPage(w) /\ ~Gone(pass[w].session)
    <2>1. pass[w] \in ClaimedPass
        BY <1>1, <1>7, PageFacts, PassFacts
    <2>2. Smallest(Unlisted(w), PageSize) \in SUBSET Nat
        <3>1. pass[w].session \in Sessions
            BY <2>1 DEF ClaimedPass
        <3> QED BY <1>1, <1>7, <3>1, PageFacts, SnapshotFacts
    <2>3. ASSUME NEW page \in SUBSET Nat, NEW more \in BOOLEAN
          PROVE  [pass[w] EXCEPT !.pc = "reuse", !.todo = page, !.more = more] \in ClaimedPass
        BY <2>1 DEF ClaimedPass, Steps
    <2> QED BY <1>1, <1>7, <2>2, <2>3, PageFacts
<1>8. CASE Reuse(w)
    <2>1. pass[w] \in ClaimedPass
        BY <1>1, <1>8, PassFacts DEF Reuse, Working, Steps
    <2>2. ASSUME NEW known, known \subseteq pass[w].todo
          PROVE  [pass[w] EXCEPT !.pc = "index", !.todo = @ \ known, !.seen = @ \cup known]
                     \in ClaimedPass
        BY <2>1, <2>2 DEF ClaimedPass, Steps
    <2>3. PICK known : /\ known \subseteq pass[w].todo
                       /\ pass'[w] = [pass[w] EXCEPT !.pc = "index", !.todo = @ \ known,
                                                     !.seen = @ \cup known]
        BY <1>1, <1>8 DEF Reuse, Become, PassOK
    <2> QED BY <2>2, <2>3
<1>9. CASE IndexObject(w)
    <2>1. pass[w] \in ClaimedPass
        BY <1>1, <1>9, PassFacts DEF IndexObject, Working, Steps
    <2>2. ASSUME NEW o \in pass[w].todo
          PROVE  [pass[w] EXCEPT !.todo = @ \ {o}, !.seen = @ \cup {o}] \in ClaimedPass
        BY <2>1 DEF ClaimedPass, Steps
    <2>3. PICK o \in pass[w].todo :
             pass'[w] = [pass[w] EXCEPT !.todo = @ \ {o}, !.seen = @ \cup {o}]
        BY <1>1, <1>9 DEF IndexObject, Become, PassOK, Smallest
    <2> QED BY <2>2, <2>3
<1>10. ASSUME Working(w), NEW pc \in {"delete", "complete", "fail", "source", "embed"},
              pass'[w] = [pass[w] EXCEPT !.pc = pc]
       PROVE  pass'[w] \in States
    <2>1. pass[w] \in ClaimedPass
        BY <1>1, <1>10, PassFacts
    <2> QED BY <1>10, <2>1 DEF ClaimedPass, Steps
<1> HIDE DEF States
<1> QED BY <1>1, <1>3, <1>4, <1>5, <1>6, <1>7, <1>8, <1>9, <1>10, PassMoves

\* What a pass has listed stays the lower part of its snapshot.
LEMMA ListsKept ==
    ASSUME SearchInv, [Next]_vars
    PROVE  ListsOK'
<1>1. /\ PassOK /\ ContentOK /\ StoresOK /\ RowsBounded /\ ListsOK /\ commitSeq \in Nat
      /\ RowsBounded' /\ PassOK'
    BY PassKept, LedgerSteps, BoundsAreInductive DEF SearchInv, RowsBounded
<1>2. commitSeq <= commitSeq' /\ commitSeq' \in Nat
    <2>1. CatalogWrite \/ UntoldWrite => commitSeq' = commitSeq + 1
        BY DEF CatalogWrite, CommitObject, RetireSession, DeleteStorageSession, UntoldWrite,
               CommitUnrendered
    <2> QED BY <1>1, <2>1, ContentSteps
<1>3. SUFFICES ASSUME NEW w \in Slots, Working(w)' PROVE ListsSnapshot(w)'
    BY DEF ListsOK
<1>4. ASSUME Working(w)
      PROVE  LET snap == Snapshot(pass[w].session, pass[w].revision)
             IN  /\ pass[w] \in ClaimedPass /\ pass[w].session \in Sessions
                 /\ pass[w].revision \in Nat /\ pass[w].revision <= commitSeq
                 /\ pass[w].pc = "list" => Listed(w) = {}
                 /\ Listed(w) \subseteq snap
                 /\ \A x \in Listed(w), y \in snap : y < x => y \in Listed(w)
                 /\ ~pass[w].more => Listed(w) = snap
                 /\ snap \subseteq Nat
    <2>1. pass[w] \in ClaimedPass
        BY <1>1, <1>4, PassFacts
    <2>2. pass[w].session \in Sessions /\ pass[w].revision \in Nat
        BY <2>1 DEF ClaimedPass
    <2>3. ListsSnapshot(w)
        BY <1>1, <1>4 DEF ListsOK
    <2>4. Snapshot(pass[w].session, pass[w].revision) \subseteq Nat
        BY <1>1, <2>2, SnapshotFacts
    <2> QED BY <2>1, <2>2, <2>3, <2>4 DEF ListsSnapshot
\* A pass that keeps its claim and lists U of its snapshot.
<1>5. ASSUME NEW s \in Sessions, NEW r \in Nat, r <= commitSeq, NEW U, NEW more \in BOOLEAN,
             pass'[w].session = s, pass'[w].revision = r, pass'[w].more = more,
             pass'[w].seen \cup pass'[w].todo = U,
             pass'[w].pc = "list" => U = {},
             U \subseteq Snapshot(s, r),
             \A x \in U, y \in Snapshot(s, r) : y < x => y \in U,
             ~more => U = Snapshot(s, r)
      PROVE  ListsSnapshot(w)'
    <2>1. Snapshot(s, r)' = Snapshot(s, r)
        BY <1>1, <1>5, SnapshotStays
    <2>2. Snapshot(pass[w].session, pass[w].revision)' = Snapshot(s, r)'
        BY <1>5 DEF Snapshot
    <2>3. Listed(w)' = U
        BY <1>5 DEF Listed
    <2>4. r <= commitSeq'
        BY <1>1, <1>2, <1>5
    <2> QED BY <1>5, <2>1, <2>2, <2>3, <2>4 DEF ListsSnapshot
<1>6. ASSUME Working(w),
             pass'[w].session = pass[w].session, pass'[w].revision = pass[w].revision,
             pass'[w].more = pass[w].more,
             pass'[w].seen \cup pass'[w].todo = pass[w].seen \cup pass[w].todo,
             pass'[w].pc = "list" => pass[w].pc = "list"
      PROVE  ListsSnapshot(w)'
    <2>1. pass[w].more \in BOOLEAN
        BY <1>4, <1>6 DEF ClaimedPass
    <2> DEFINE s == pass[w].session
               r == pass[w].revision
               U == Listed(w)
               more == pass[w].more
    <2>2. /\ s \in Sessions /\ r \in Nat /\ r <= commitSeq /\ U \subseteq Snapshot(s, r)
          /\ \A x \in U, y \in Snapshot(s, r) : y < x => y \in U
          /\ pass[w].pc = "list" => U = {}
        BY <1>4, <1>6
    <2>3. ~more => U = Snapshot(s, r)
        BY <1>4, <1>6
    <2>4. /\ pass'[w].session = s /\ pass'[w].revision = r /\ pass'[w].more = more
          /\ pass'[w].seen \cup pass'[w].todo = U
        BY <1>6 DEF Listed
    <2>5. pass'[w].pc = "list" => U = {}
        BY <1>6, <2>2
    <2> HIDE DEF s, r, U, more
    <2> QED BY <1>5, <2>1, <2>2, <2>3, <2>4, <2>5 DEF more
<1>7. CASE pass'[w] = pass[w]
    BY <1>3, <1>6, <1>7 DEF Working
<1>8. CASE pass'[w] \in {Idle, [pc |-> "claim"]} \/ pass'[w] = [pc |-> "bind", store |-> store.id]
    BY <1>3, <1>8 DEF Working, Steps, Idle
<1>9. ASSUME NEW s \in Sessions, ClaimRow(w, s) PROVE ListsSnapshot(w)'
    <2> DEFINE p == ProjectorOf(w)
               r == ClaimRevision(p, s)
    <2>1. p \in Projectors
        BY DEF ProjectorOf, Projectors
    <2>2. r \in Nat /\ r <= commitSeq
        <3>1. Eligible(p, s)
            BY <1>9 DEF ClaimRow, Claim
        <3>2. r \in Nat /\ r <= ledger[p][s].desired
            BY <1>1, <2>1, <3>1, ClaimIsBounded
        <3>3. ledger[p][s].desired \in Nat /\ ledger[p][s].desired <= commitSeq
            BY <1>1, <2>1 DEF RowsBounded, RowBounded, Row
        <3> QED BY <1>1, <3>2, <3>3
    <2>3. pass'[w] = StartPass(s, r, FreshToken)
        BY <1>1, <1>9 DEF ClaimRow, Become, PassOK
    <2> HIDE DEF r
    <2>4. /\ pass'[w].session = s /\ pass'[w].revision = r /\ pass'[w].more = TRUE
          /\ pass'[w].seen = {} /\ pass'[w].todo = {}
        BY <2>3 DEF StartPass
    <2> QED BY <1>5, <2>2, <2>4
<1>10. CASE ListPage(w) /\ ~Gone(pass[w].session)
    <2> DEFINE s == pass[w].session
               r == pass[w].revision
               snap == Snapshot(s, r)
               page == Smallest(Unlisted(w), PageSize)
               more == Unlisted(w) # page
    <2>1. /\ Working(w) /\ page \subseteq Unlisted(w) /\ Unlisted(w) \subseteq snap
          /\ pass'[w] = [pass[w] EXCEPT !.pc = "reuse", !.todo = page, !.more = more]
        BY <1>1, <1>10, PageFacts
    <2>2. pass[w].todo = {} /\ Listed(w) = pass[w].seen
        BY <1>4, <1>10, <2>1 DEF ListPage, Listed
    <2>3. snap = pass[w].seen \cup Unlisted(w)
        <3>1. ASSUME NEW o \in snap, o \notin pass[w].seen PROVE o \in Unlisted(w)
            <4>1. \A x \in pass[w].seen : ~(o < x) /\ x \in Nat /\ o \in Nat /\ x # o
                BY <1>4, <2>1, <2>2, <3>1
            <4>2. \A x \in pass[w].seen : x < o
                BY <4>1
            <4> QED BY <4>2 DEF Unlisted
        <3>2. pass[w].seen \subseteq snap
            BY <1>4, <2>1, <2>2
        <3> QED BY <2>1, <3>1, <3>2
    <2>4. ASSUME NEW x \in page, NEW y \in Unlisted(w), y < x PROVE y \in page
        <3> DEFINE below(z) == {u \in Unlisted(w) : u <= z}
        <3>1. Unlisted(w) \in SUBSET Nat
            BY <1>4, <2>1
        <3>2. below(x) \in SUBSET Nat /\ \A u \in below(x) : u <= x
            BY <3>1
        <3>3. x \in Nat /\ y \in Nat
            BY <2>1, <3>1
        <3>4. IsFiniteSet(below(x))
            BY <3>2, <3>3, FS_BoundedSetOfNaturals
        <3>5. below(y) \in SUBSET below(x)
            BY <2>4, <3>1, <3>3
        <3>6. Cardinality(below(x)) <= PageSize
            BY DEF Smallest
        <3> HIDE DEF below
        <3>7. Cardinality(below(y)) <= PageSize
            <4>1. IsFiniteSet(below(y)) /\ Cardinality(below(y)) <= Cardinality(below(x))
                BY <3>4, <3>5, FS_Subset
            <4>2. Cardinality(below(x)) \in Nat /\ Cardinality(below(y)) \in Nat
                BY <3>4, <4>1, FS_CardinalityType
            <4> QED BY <3>6, <4>1, <4>2, SearchAssumption
        <3> QED BY <3>7 DEF Smallest, below
    <2> HIDE DEF page, more
    <2>5. /\ pass'[w].session = s /\ pass'[w].revision = r /\ pass'[w].more = more
          /\ pass'[w].seen = pass[w].seen /\ pass'[w].todo = page /\ pass'[w].pc = "reuse"
        BY <1>4, <2>1 DEF ClaimedPass
    <2>6. more = (Unlisted(w) # page) /\ more \in BOOLEAN
        BY DEF more
    <2> DEFINE U == pass[w].seen \cup page
    <2>7. U \subseteq snap
        BY <2>1, <2>3
    <2>8. ASSUME NEW x \in U, NEW y \in snap, y < x PROVE y \in U
        <3>1. CASE x \in pass[w].seen
            BY <1>4, <2>1, <2>2, <2>8, <3>1
        <3>2. CASE x \in page
            BY <2>3, <2>4, <2>8, <3>2
        <3> QED BY <3>1, <3>2
    <2>9. ~more => U = snap
        BY <2>3, <2>6
    <2>10. s \in Sessions /\ r \in Nat /\ r <= commitSeq
        BY <1>4, <2>1
    <2> HIDE DEF U, s, r
    <2> QED BY <1>5, <2>5, <2>6, <2>7, <2>8, <2>9, <2>10 DEF U
<1>11. CASE Reuse(w)
    <2>1. Working(w)
        BY <1>11 DEF Reuse, Working, Steps
    <2>2. PICK known : /\ known \subseteq pass[w].todo
                       /\ pass'[w] = [pass[w] EXCEPT !.pc = "index", !.todo = @ \ known,
                                                     !.seen = @ \cup known]
        BY <1>1, <1>11 DEF Reuse, Become, PassOK
    <2>3. /\ pass'[w].session = pass[w].session /\ pass'[w].revision = pass[w].revision
          /\ pass'[w].more = pass[w].more /\ pass'[w].pc = "index"
          /\ pass'[w].seen = pass[w].seen \cup known /\ pass'[w].todo = pass[w].todo \ known
        BY <1>4, <2>1, <2>2 DEF ClaimedPass
    <2> QED BY <1>6, <2>1, <2>2, <2>3
<1>12. CASE IndexObject(w)
    <2>1. Working(w)
        BY <1>12 DEF IndexObject, Working, Steps
    <2>2. PICK o \in pass[w].todo :
             pass'[w] = [pass[w] EXCEPT !.todo = @ \ {o}, !.seen = @ \cup {o}]
        BY <1>1, <1>12 DEF IndexObject, Become, PassOK, Smallest
    <2>3. /\ pass'[w].session = pass[w].session /\ pass'[w].revision = pass[w].revision
          /\ pass'[w].more = pass[w].more /\ pass'[w].pc = pass[w].pc
          /\ pass'[w].seen = pass[w].seen \cup {o} /\ pass'[w].todo = pass[w].todo \ {o}
        BY <1>4, <2>1, <2>2 DEF ClaimedPass
    <2> QED BY <1>6, <2>1, <2>2, <2>3
<1>13. ASSUME Working(w), NEW pc \in {"delete", "complete", "fail", "source", "embed"},
              pass'[w] = [pass[w] EXCEPT !.pc = pc]
       PROVE  ListsSnapshot(w)'
    <2>1. /\ pass'[w].session = pass[w].session /\ pass'[w].revision = pass[w].revision
          /\ pass'[w].more = pass[w].more /\ pass'[w].pc = pc
          /\ pass'[w].seen = pass[w].seen /\ pass'[w].todo = pass[w].todo
        BY <1>4, <1>13 DEF ClaimedPass
    <2> QED BY <1>6, <1>13, <2>1
<1> QED BY <1>1, <1>7, <1>8, <1>9, <1>10, <1>11, <1>12, <1>13, PassMoves

\* What a step can do to the database.
LEMMA StoreSteps ==
    ASSUME PassOK, [Next]_vars
    PROVE  \/ UNCHANGED store
           \/ ReplaceStore
           \/ \E w \in Slots :
                 /\ Working(w)
                 /\ \/ \E O \in SUBSET pass[w].todo : Index(pass[w].session, pass[w].revision, O)
                    \/ PublishSet(w) \/ DeleteFromSearch(w)
                    \/ /\ WriteEmbeddings(w) /\ Serves(pass[w].session, pass[w].revision)
                       /\ store' = [store EXCEPT !.embedded[pass[w].session] = pass[w].revision]
<1>1. CASE UNCHANGED vars
    BY <1>1 DEF vars, searchVars
<1>2. ASSUME NEW w \in Slots, Reuse(w) \/ IndexObject(w)
      PROVE  Working(w) /\ \E O \in SUBSET pass[w].todo : Index(pass[w].session, pass[w].revision, O)
    <2>1. Working(w)
        BY <1>2 DEF Reuse, IndexObject, Working, Steps
    <2>2. \A o \in Smallest(pass[w].todo, 1) : {o} \in SUBSET pass[w].todo
        BY DEF Smallest
    <2> QED BY <1>2, <2>1, <2>2 DEF Reuse, IndexObject
<1>3. ASSUME NEW w \in Slots, PublishSet(w) \/ DeleteFromSearch(w) \/ WriteEmbeddings(w)
      PROVE  Working(w)
    BY <1>3 DEF PublishSet, ReadyToPublish, DeleteFromSearch, WriteEmbeddings, Working, Steps
<1>4. ASSUME NEW w \in Slots, WriteEmbeddings(w)
      PROVE  \/ UNCHANGED store
             \/ /\ Serves(pass[w].session, pass[w].revision)
                /\ store' = [store EXCEPT !.embedded[pass[w].session] = pass[w].revision]
    BY <1>4 DEF WriteEmbeddings
<1>5. ASSUME NEW w \in Slots, RunOnce(w)
      PROVE  \/ UNCHANGED store \/ Reuse(w) \/ IndexObject(w)
             \/ PublishSet(w) \/ DeleteFromSearch(w) \/ WriteEmbeddings(w)
    BY <1>5 DEF RunOnce, Ping, Bind, ClaimNothing, ClaimRow, ListPage, PublishLags,
           ListForEmbedding, ReadSource, CompletePass, CompletionRefused, FailPass
<1>6. CASE Environment
    BY <1>6 DEF Environment, StepFails, FailureReportLost, ClaimReplyLost, RequeueOne, RestartHost,
           Commit, RetireOne, DeleteOne
<1> QED BY <1>1, <1>2, <1>3, <1>4, <1>5, <1>6 DEF Next, TimePasses, searchVars

\* What that leaves a reader of the database.
DatabaseStep ==
    /\ store' \in Database
    /\ store'.id = store.id \/ ReplaceStore
    /\ \A s \in Sessions :
          \/ /\ store'.published[s] = store.published[s]
             /\ store'.embedded[s] = store.embedded[s]
          \/ /\ store'.published[s] = None /\ store'.embedded[s] = None
             /\ ReplaceStore \/ \E w \in Slots : DeleteFromSearch(w) /\ pass[w].session = s
          \/ \E w \in Slots :
                /\ PublishSet(w) /\ pass[w].session = s
                /\ store'.published[s] = [revision |-> pass[w].revision, objects |-> pass[w].seen]
                /\ store'.embedded[s] = EmbeddingsAfter(s, pass[w].revision)
          \/ \E w \in Slots :
                /\ WriteEmbeddings(w) /\ pass[w].session = s /\ Serves(s, pass[w].revision)
                /\ store'.published[s] = store.published[s]
                /\ store'.embedded[s] = pass[w].revision

\* Every step is of that kind.
LEMMA ServedSteps ==
    ASSUME PassOK, StoresOK, [Next]_vars
    PROVE  DatabaseStep
<1> USE DEF DatabaseStep
<1>1. store \in Database /\ store.id \in Nat
    BY SearchAssumption DEF StoresOK, Database
<1>2. ASSUME UNCHANGED store PROVE DatabaseStep
    BY <1>1, <1>2
<1>3. ASSUME ReplaceStore PROVE DatabaseStep
    <2>1. store' = EmptyStore(store.id + 1) /\ budget.faults > 0 /\ budget.faults \in Nat
        BY <1>3 DEF ReplaceStore, StoresOK
    <2>2. store.id + 1 \in Stores
        BY <1>1, <2>1, SearchAssumption DEF StoresOK
    <2>3. EmptyStore(store.id + 1) \in Database
        BY <2>2 DEF EmptyStore, Database
    <2>4. \A s \in Sessions : store'.published[s] = None /\ store'.embedded[s] = None
        BY <2>1 DEF EmptyStore
    <2> QED BY <1>3, <2>1, <2>3, <2>4
<1>4. ASSUME NEW w \in Slots, Working(w)
      PROVE  /\ pass[w] \in ClaimedPass /\ pass[w].session \in Sessions /\ pass[w].revision \in Nat
             /\ pass[w].seen \in SUBSET Nat /\ pass[w].todo \in SUBSET Nat
    BY <1>4, PassFacts DEF ClaimedPass
<1>5. ASSUME NEW w \in Slots, Working(w), NEW O \in SUBSET pass[w].todo,
             Index(pass[w].session, pass[w].revision, O)
      PROVE  /\ store' \in Database /\ store'.id = store.id
             /\ \A s \in Sessions : /\ store'.published[s] = store.published[s]
                                    /\ store'.embedded[s] = store.embedded[s]
    <2> DEFINE s == pass[w].session
               i == store.indexed[s] \cup O
               m == store.members[s] \cup {<<pass[w].revision, o>> : o \in O}
    <2>1. s \in Sessions /\ i \in SUBSET Nat /\ m \in SUBSET (Nat \X Nat)
        BY <1>1, <1>4, <1>5 DEF Database
    <2>2. store' = [store EXCEPT !.indexed[s] = i, !.members[s] = m]
        BY <1>5 DEF Index
    <2> HIDE DEF i, m, s
    <2> QED BY <1>1, <2>1, <2>2 DEF Database
<1>6. ASSUME NEW w \in Slots, Working(w), PublishSet(w)
      PROVE  /\ store' \in Database /\ store'.id = store.id
             /\ \A t \in Sessions \ {pass[w].session} :
                    /\ store'.published[t] = store.published[t]
                    /\ store'.embedded[t] = store.embedded[t]
             /\ store'.published[pass[w].session]
                    = [revision |-> pass[w].revision, objects |-> pass[w].seen]
             /\ store'.embedded[pass[w].session] = EmbeddingsAfter(pass[w].session, pass[w].revision)
    <2> DEFINE s == pass[w].session
               r == pass[w].revision
               p == [revision |-> r, objects |-> pass[w].seen]
               m == {x \in store.members[s] : x[1] = r}
               i == pass[w].seen
               e == EmbeddingsAfter(s, r)
    <2>1. MembersAt(s, r) = i
        BY <1>6 DEF PublishSet, Covers
    <2>2. /\ s \in Sessions /\ p \in Publication /\ m \in SUBSET (Nat \X Nat) /\ i \in SUBSET Nat
          /\ e \in Nat \cup {None}
        BY <1>1, <1>4, <1>6 DEF Database, Publication, EmbeddingsAfter
    <2>3. store' = [store EXCEPT !.published[s] = p, !.members[s] = m, !.indexed[s] = i,
                                 !.embedded[s] = e]
        BY <1>6, <2>1 DEF PublishSet, Publish
    <2> HIDE DEF s, p, m, i, e
    <2>4. /\ store' \in Database /\ store'.id = store.id
          /\ \A t \in Sessions \ {s} : /\ store'.published[t] = store.published[t]
                                       /\ store'.embedded[t] = store.embedded[t]
          /\ store'.published[s] = p /\ store'.embedded[s] = e
        BY <1>1, <2>2, <2>3 DEF Database
    <2> QED BY <2>4 DEF s, p, e
<1>7. ASSUME NEW w \in Slots, Working(w), DeleteFromSearch(w)
      PROVE  /\ store' \in Database /\ store'.id = store.id
             /\ \A t \in Sessions \ {pass[w].session} :
                    /\ store'.published[t] = store.published[t]
                    /\ store'.embedded[t] = store.embedded[t]
             /\ store'.published[pass[w].session] = None /\ store'.embedded[pass[w].session] = None
    <2> DEFINE s == pass[w].session
    <2>1. s \in Sessions
        BY <1>4, <1>7
    <2>2. store' = [store EXCEPT !.indexed[s] = {}, !.members[s] = {}, !.published[s] = None,
                                 !.embedded[s] = None]
        BY <1>7 DEF DeleteFromSearch, Forget
    <2> HIDE DEF s
    <2>3. /\ store' \in Database /\ store'.id = store.id
          /\ \A t \in Sessions \ {s} : /\ store'.published[t] = store.published[t]
                                       /\ store'.embedded[t] = store.embedded[t]
          /\ store'.published[s] = None /\ store'.embedded[s] = None
        BY <1>1, <2>1, <2>2 DEF Database
    <2> QED BY <2>3 DEF s
<1>8. ASSUME NEW w \in Slots, Working(w),
             store' = [store EXCEPT !.embedded[pass[w].session] = pass[w].revision]
      PROVE  /\ store' \in Database /\ store'.id = store.id
             /\ \A t \in Sessions : store'.published[t] = store.published[t]
             /\ \A t \in Sessions \ {pass[w].session} : store'.embedded[t] = store.embedded[t]
             /\ store'.embedded[pass[w].session] = pass[w].revision
    <2>1. pass[w].session \in Sessions /\ pass[w].revision \in Nat
        BY <1>4, <1>8
    <2> QED BY <1>1, <1>8, <2>1 DEF Database
<1>9. ASSUME NEW w \in Slots, Working(w), NEW O \in SUBSET pass[w].todo,
             Index(pass[w].session, pass[w].revision, O)
      PROVE  DatabaseStep
    BY <1>5, <1>9
<1>10. ASSUME NEW w \in Slots, Working(w), PublishSet(w) PROVE DatabaseStep
    BY <1>6, <1>10
<1>11. ASSUME NEW w \in Slots, Working(w), DeleteFromSearch(w) PROVE DatabaseStep
    BY <1>7, <1>11
<1>12. ASSUME NEW w \in Slots, Working(w), WriteEmbeddings(w),
              Serves(pass[w].session, pass[w].revision),
              store' = [store EXCEPT !.embedded[pass[w].session] = pass[w].revision]
       PROVE  DatabaseStep
    BY <1>8, <1>12
<1> HIDE DEF DatabaseStep
<1> QED BY <1>2, <1>3, <1>9, <1>10, <1>11, <1>12, StoreSteps

\* The stores stay well-formed.
LEMMA StoresKept ==
    ASSUME SearchInv, [Next]_vars
    PROVE  StoresOK'
<1>1. PassOK /\ StoresOK /\ ContentOK /\ store \in Database /\ store.id \in Nat /\ Stores \subseteq Nat
    BY SearchAssumption DEF SearchInv, StoresOK, Database
<1>2. DatabaseStep
    BY <1>1, ServedSteps
<1>3. \A w \in Slots : ProjectorOf(w) \in Projectors
    BY DEF ProjectorOf, Projectors
<1>4. bound' \in [Projectors -> Stores \cup {None}]
    <2>1. bound \in [Projectors -> Stores \cup {None}]
        BY <1>1 DEF StoresOK
    <2>2. ASSUME NEW w \in Slots, Bind(w) PROVE bound' \in [Projectors -> Stores \cup {None}]
        <3>1. pass[w].store \in Stores
            BY <1>1, <2>2, PassFacts DEF Bind
        <3> QED BY <1>3, <2>1, <2>2, <3>1 DEF Bind
    <2>3. CASE RestartHost
        BY <2>3 DEF RestartHost
    <2>4. CASE UNCHANGED bound
        BY <2>1, <2>4
    <2>5. RestartHost \/ UNCHANGED bound \/ \E w \in Slots : Bind(w)
        <3>1. ASSUME NEW w \in Slots, RunOnce(w) PROVE UNCHANGED bound \/ Bind(w)
            BY <3>1 DEF RunOnce, Ping, ClaimNothing, ClaimRow, ListPage, Reuse, IndexObject,
               PublishSet, PublishLags, DeleteFromSearch, ListForEmbedding, ReadSource,
               WriteEmbeddings, CompletePass, CompletionRefused, FailPass
        <3>2. CASE Environment
            BY <3>2 DEF Environment, StepFails, FailureReportLost, ClaimReplyLost, RequeueOne,
               ReplaceStore, Commit, RetireOne, DeleteOne
        <3> QED BY <3>1, <3>2 DEF Next, TimePasses, vars, searchVars
    <2> QED BY <2>2, <2>3, <2>4, <2>5
<1>5. /\ budget' \in [commits : Nat, removals : Nat, faults : Nat]
      /\ store'.id + budget'.faults <= MaxFaults
    <2>1. /\ budget \in [commits : Nat, removals : Nat, faults : Nat]
          /\ store.id + budget.faults <= MaxFaults
        BY <1>1 DEF StoresOK
    <2>2. CASE UNCHANGED budget /\ ~ReplaceStore
        BY <1>2, <2>1, <2>2 DEF DatabaseStep
    <2>3. ASSUME budget.faults > 0, budget' = [budget EXCEPT !.faults = @ - 1],
                 store'.id = store.id \/ store'.id = store.id + 1
          PROVE  /\ budget' \in [commits : Nat, removals : Nat, faults : Nat]
                 /\ store'.id + budget'.faults <= MaxFaults
        <3>1. budget'.faults = budget.faults - 1 /\ budget.faults \in Nat
            BY <2>1, <2>3
        <3>2. budget' \in [commits : Nat, removals : Nat, faults : Nat]
            BY <2>1, <2>3
        <3> QED BY <1>1, <2>1, <2>3, <3>1, <3>2, SearchAssumption
    <2>4. CASE ReplaceStore
        <3>1. store'.id = store.id + 1
            BY <2>4 DEF ReplaceStore, EmptyStore
        <3> QED BY <2>3, <2>4, <3>1 DEF ReplaceStore
    <2>5. CASE \/ RestartHost
               \/ \E w \in Slots : \/ StepFails(w) \/ FailureReportLost(w)
                                   \/ \E s \in Sessions : ClaimReplyLost(w, s)
               \/ \E s \in Sessions, p \in Projectors : RequeueOne(p, s)
        <3>1. UNCHANGED store /\ budget.faults > 0 /\ budget' = [budget EXCEPT !.faults = @ - 1]
            BY <2>5 DEF RestartHost, StepFails, FailureReportLost, ClaimReplyLost, RequeueOne
        <3> QED BY <2>3, <3>1
    <2>6. ASSUME NEW s \in Sessions, \/ \E replaced \in SUBSET Active(s) : Commit(s, replaced)
                                     \/ RetireOne(s) \/ DeleteOne(s)
          PROVE  /\ budget' \in [commits : Nat, removals : Nat, faults : Nat]
                 /\ store'.id + budget'.faults <= MaxFaults
        <3>1. /\ UNCHANGED store
              /\ \/ budget.commits > 0 /\ budget' = [budget EXCEPT !.commits = @ - 1]
                 \/ budget.removals > 0 /\ budget' = [budget EXCEPT !.removals = @ - 1]
            BY <2>6 DEF Commit, RetireOne, DeleteOne
        <3>2. budget'.faults = budget.faults /\ budget' \in [commits : Nat, removals : Nat, faults : Nat]
            BY <2>1, <3>1
        <3> QED BY <2>1, <3>1, <3>2
    <2>7. \A w \in Slots : RunOnce(w) => UNCHANGED budget
        BY DEF RunOnce, Ping, Bind, ClaimNothing, ClaimRow, ListPage, Reuse, IndexObject,
           PublishSet, PublishLags, DeleteFromSearch, ListForEmbedding, ReadSource,
           WriteEmbeddings, CompletePass, CompletionRefused, FailPass
    <2>8. \A p \in Projectors, s \in Sessions : TimePasses(p, s) => UNCHANGED budget
        BY DEF TimePasses, searchVars
    <2>9. UNCHANGED vars => UNCHANGED budget
        BY DEF vars, searchVars
    <2> QED BY <2>2, <2>4, <2>5, <2>6, <2>7, <2>8, <2>9 DEF Next, Environment
<1>6. store'.id \in Nat /\ store.id <= store'.id
    <2>1. ReplaceStore => store'.id = store.id + 1
        BY DEF ReplaceStore, EmptyStore
    <2> QED BY <1>1, <1>2, <2>1 DEF DatabaseStep
<1>7. ASSUME NEW p \in Projectors, binding'[p] # None PROVE binding'[p] <= store'.id
    <2>1. binding[p] # None => binding[p] \in Nat /\ binding[p] <= store.id
        BY <1>1 DEF ContentOK, StoresOK
    <2>2. CASE UNCHANGED binding
        BY <1>1, <1>6, <1>7, <2>1, <2>2
    <2>3. ASSUME NEW w \in Slots, Bind(w),
                 binding' = [binding EXCEPT ![ProjectorOf(w)] = pass[w].store]
          PROVE  binding'[p] <= store'.id
        <3>1. pass[w].store \in Nat /\ pass[w].store <= store.id
            BY <1>1, <2>3, PassFacts DEF Bind, StoresOK
        <3>2. binding'[p] = pass[w].store \/ binding'[p] = binding[p]
            BY <1>1, <2>3 DEF ContentOK
        <3> QED BY <1>1, <1>6, <1>7, <2>1, <3>1, <3>2
    <2> QED BY <2>2, <2>3, BindingSteps
<1>8. ASSUME NEW w \in Slots, pass'[w].pc = "bind" PROVE pass'[w].store <= store'.id
    <2>1. CASE pass'[w] = pass[w]
        <3>1. pass[w].store \in Nat /\ pass[w].store <= store.id
            BY <1>1, <1>8, <2>1, PassFacts DEF StoresOK
        <3> QED BY <1>1, <1>6, <2>1, <3>1
    <2>2. CASE pass'[w] = [pc |-> "bind", store |-> store.id]
        BY <1>1, <1>6, <2>2
    <2>3. CASE pass'[w] \in {Idle, [pc |-> "claim"]}
        BY <1>8, <2>3 DEF Idle
    <2>4. ASSUME NEW s \in Sessions, ClaimRow(w, s) PROVE FALSE
        BY <1>1, <1>8, <2>4 DEF ClaimRow, Become, PassOK, StartPass
    <2>5. CASE ListPage(w) /\ ~Gone(pass[w].session)
        <3>1. pass[w] \in ClaimedPass
            BY <1>1, <2>5, PageFacts, PassFacts
        <3> QED BY <1>1, <1>8, <2>5, <3>1, PageFacts DEF ClaimedPass
    <2>6. CASE Reuse(w) \/ IndexObject(w)
        <3>1. pass[w] \in ClaimedPass
            BY <1>1, <2>6, PassFacts DEF Reuse, IndexObject, Working, Steps
        <3>2. pass'[w].pc = "index"
            <4>1. ASSUME NEW known
                  PROVE  /\ [pass[w] EXCEPT !.pc = "index", !.todo = @ \ known,
                                            !.seen = @ \cup known].pc = "index"
                         /\ [pass[w] EXCEPT !.todo = @ \ known, !.seen = @ \cup known].pc
                                = pass[w].pc
                BY <3>1 DEF ClaimedPass
            <4> QED BY <1>1, <2>6, <4>1 DEF Reuse, IndexObject, Become, PassOK
        <3> QED BY <1>8, <3>2
    <2>7. ASSUME Working(w), NEW pc \in {"delete", "complete", "fail", "source", "embed"},
                 pass'[w] = [pass[w] EXCEPT !.pc = pc]
          PROVE  FALSE
        <3>1. pass[w] \in ClaimedPass
            BY <1>1, <2>7, PassFacts
        <3> QED BY <1>8, <2>7, <3>1 DEF ClaimedPass
    <2> QED BY <1>1, <2>1, <2>2, <2>3, <2>4, <2>5, <2>6, <2>7, PassMoves
<1>9. store' \in Database
    BY <1>2 DEF DatabaseStep
<1> QED BY <1>4, <1>5, <1>7, <1>8, <1>9 DEF StoresOK

\* What is served stays a snapshot, and vectors stay with it.
LEMMA ServedKept ==
    ASSUME SearchInv, [Next]_vars
    PROVE  ServedOK' /\ EmbeddingsFollowServed'
<1>1. /\ PassOK /\ StoresOK /\ ContentOK /\ ListsOK /\ RowsBounded /\ ServedOK
      /\ EmbeddingsFollowServed /\ store \in Database /\ commitSeq \in Nat
    BY DEF SearchInv, StoresOK, RowsBounded
<1>2. DatabaseStep
    BY <1>1, ServedSteps
<1>3. commitSeq <= commitSeq' /\ commitSeq' \in Nat
    <2>1. CatalogWrite \/ UntoldWrite => commitSeq' = commitSeq + 1
        BY DEF CatalogWrite, CommitObject, RetireSession, DeleteStorageSession, UntoldWrite,
               CommitUnrendered
    <2> QED BY <1>1, <2>1, ContentSteps
<1>4. None \notin Publication /\ None \notin Nat
    BY SearchAssumption, LedgerAssumption DEF Publication
<1>5. ASSUME NEW s \in Sessions
      PROVE  /\ store'.published[s] # None =>
                    /\ store'.published[s].revision <= commitSeq'
                    /\ store'.published[s].objects = Snapshot(s, store.published[s].revision)'
             /\ store'.embedded[s] # None =>
                    /\ store'.published[s] # None
                    /\ store'.embedded[s] = store'.published[s].revision
    <2>1. /\ store.published[s] # None =>
                /\ store.published[s] \in Publication
                /\ store.published[s].revision \in Nat
                /\ store.published[s].revision <= commitSeq
                /\ store.published[s].objects = Snapshot(s, store.published[s].revision)
          /\ store.embedded[s] # None =>
                /\ store.published[s] # None /\ store.embedded[s] = store.published[s].revision
        BY <1>1 DEF ServedOK, EmbeddingsFollowServed, Database, Publication
    <2>2. ASSUME NEW r \in Nat, r <= commitSeq, store'.published[s].revision = r,
                 store'.published[s].objects = Snapshot(s, r)
          PROVE  /\ store'.published[s].revision <= commitSeq'
                 /\ store'.published[s].objects = Snapshot(s, store.published[s].revision)'
        <3>1. Snapshot(s, r)' = Snapshot(s, r)
            BY <1>1, <2>2, SnapshotStays
        <3>2. Snapshot(s, store.published[s].revision)' = Snapshot(s, r)'
            BY <2>2 DEF Snapshot
        <3> QED BY <1>1, <1>3, <2>2, <3>1, <3>2
    <2>3. CASE store'.published[s] = store.published[s] /\ store'.embedded[s] = store.embedded[s]
        BY <2>1, <2>2, <2>3
    <2>4. CASE store'.published[s] = None /\ store'.embedded[s] = None
        BY <2>4
    <2>5. ASSUME NEW w \in Slots, PublishSet(w), pass[w].session = s,
                 store'.published[s] = [revision |-> pass[w].revision, objects |-> pass[w].seen],
                 store'.embedded[s] = EmbeddingsAfter(s, pass[w].revision)
          PROVE  /\ store'.published[s].revision <= commitSeq'
                 /\ store'.published[s].objects = Snapshot(s, store.published[s].revision)'
                 /\ store'.embedded[s] # None =>
                        /\ store'.published[s] # None
                        /\ store'.embedded[s] = store'.published[s].revision
        <3>1. Working(w) /\ pass[w].todo = {} /\ ~pass[w].more
            BY <2>5 DEF PublishSet, ReadyToPublish, Working, Steps
        <3>2. pass[w] \in ClaimedPass /\ pass[w].revision \in Nat /\ pass[w].seen \in SUBSET Nat
            BY <1>1, <3>1, PassFacts DEF ClaimedPass
        <3>3. ListsSnapshot(w)
            BY <1>1, <3>1 DEF ListsOK
        <3>4. pass[w].revision <= commitSeq /\ pass[w].seen = Snapshot(s, pass[w].revision)
            BY <2>5, <3>1, <3>3 DEF ListsSnapshot, Listed
        <3>5. store'.published[s] \in Publication
            BY <2>5, <3>2 DEF Publication
        <3>6. /\ store'.published[s].revision = pass[w].revision
              /\ store'.published[s].objects = pass[w].seen
            BY <2>5
        <3>7. store'.embedded[s] # None => store'.embedded[s] = pass[w].revision
            BY <2>5 DEF EmbeddingsAfter
        <3> QED BY <1>4, <2>2, <3>2, <3>4, <3>5, <3>6, <3>7
    <2>6. ASSUME NEW w \in Slots, Serves(s, pass[w].revision),
                 store'.published[s] = store.published[s], store'.embedded[s] = pass[w].revision
          PROVE  /\ store'.published[s] # None
                 /\ store'.published[s].revision <= commitSeq'
                 /\ store'.published[s].objects = Snapshot(s, store.published[s].revision)'
                 /\ store'.embedded[s] = store'.published[s].revision
        <3>1. store.published[s] # None /\ store.published[s].revision = pass[w].revision
            BY <2>6 DEF Serves
        <3> QED BY <2>1, <2>2, <2>6, <3>1
    <2> QED BY <1>2, <2>3, <2>4, <2>5, <2>6 DEF DatabaseStep
<1> QED BY <1>5 DEF ServedOK, EmbeddingsFollowServed

\* The invariant holds at first, ...
LEMMA SearchStarts == SearchInit => SearchInv
<1> SUFFICES ASSUME SearchInit PROVE SearchInv
    OBVIOUS
<1>1. LedgerInit
    BY DEF SearchInit
<1>2. RowsBounded
    BY <1>1 DEF LedgerInit, RowsBounded, RowBounded, FreshRow, Row
<1>3. PassOK /\ \A w \in Slots : ~Working(w) /\ pass[w].pc = "idle"
    BY DEF SearchInit, PassOK, Idle, Working, Steps
<1>4. store = EmptyStore(0) /\ EmptyStore(0) \in Database /\ store.id = 0
    BY SearchAssumption DEF SearchInit, EmptyStore, Database
<1>5. StoresOK
    <2>1. budget \in [commits : Nat, removals : Nat, faults : Nat] /\ budget.faults = MaxFaults
        BY SearchAssumption DEF SearchInit
    <2>2. bound \in [Projectors -> Stores \cup {None}]
        BY DEF SearchInit
    <2>3. \A p \in Projectors : binding[p] = None
        BY <1>1 DEF LedgerInit
    <2> QED BY <1>3, <1>4, <2>1, <2>2, <2>3, SearchAssumption DEF StoresOK
<1>6. ContentOK
    BY <1>1 DEF LedgerInit, ContentOK, FreshRow, Projectors
<1>7. ListsOK
    BY <1>3 DEF ListsOK
<1>8. \A s \in Sessions : store.published[s] = None /\ store.embedded[s] = None
    BY <1>4 DEF EmptyStore
<1> QED BY <1>2, <1>3, <1>5, <1>6, <1>7, <1>8 DEF SearchInv, ServedOK, EmbeddingsFollowServed

\* ... and for ever.
LEMMA SearchKept == SearchInv /\ [Next]_vars => SearchInv'
<1> SUFFICES ASSUME SearchInv, [Next]_vars PROVE SearchInv'
    OBVIOUS
<1>1. RowsBounded'
    BY LedgerSteps, BoundsAreInductive DEF SearchInv
<1> QED BY <1>1, PassKept, StoresKept, ContentKept, ListsKept, ServedKept DEF SearchInv

\* Search never serves a mixture, with any number of passes at a time: what it
\* serves of a session is what the session held at one revision
\* (publish_generation's check of the object set, over listings that commits,
\* deletions, retries and replaced databases interleave with).
THEOREM SearchServesSnapshots == Spec => []ServedIsASnapshot
<1>1. SearchInv => ServedIsASnapshot
    BY DEF SearchInv, ServedOK, ServedIsASnapshot
<1> QED BY <1>1, SearchStarts, SearchKept, PTL DEF Spec

\* Vectors are of the text that is served, with any number of passes at a time
\* (write_episode_embeddings and publish_generation together).
THEOREM VectorsFollowText == Spec => []EmbeddingsFollowServed
<1>1. SearchInv => EmbeddingsFollowServed
    BY DEF SearchInv
<1> QED BY <1>1, SearchStarts, SearchKept, PTL DEF Spec

\* The projectors use the ledger only as it allows: what LedgerProofs shows of
\* any workers (CoverageIsBounded, ProgressIsFenced) is true of these.
THEOREM ProjectionImplementsLedger == Spec => LedgerSpec
<1>1. SearchInit => LedgerInit
    BY DEF SearchInit
<1>2. SearchInv /\ [Next]_vars => [LedgerNext]_ledgerVars
    BY LedgerSteps DEF SearchInv
<1> QED BY <1>1, <1>2, SearchStarts, SearchKept, PTL DEF Spec, LedgerSpec

\* So coverage is never overstated and completion is fenced by the claim in
\* force, however many passes run at a time (claim_projector_lag and
\* complete_projector_claim as the two projectors call them).
THEOREM PassesKeepTheLedger == Spec => []CoverageIsBounded /\ ProgressIsFenced
BY ProjectionImplementsLedger, LedgerCoverage, CompletionIsFenced

-----------------------------------------------------------------------------
(* One pass of each projector at a time.                                   *)

\* A row's progress moves when a pass completes it, or starts again.
LEMMA ProgressSteps ==
    ASSUME RowsBounded, PassOK, [Next]_vars, NEW p \in Projectors, NEW s \in Sessions
    PROVE  \/ ledger'[p][s].completed = ledger[p][s].completed
           \/ ledger'[p][s].completed = 0
           \/ \E w \in Slots : /\ CompletePass(w) /\ ProjectorOf(w) = p /\ pass[w].session = s
                               /\ ledger'[p][s].completed = pass[w].revision
<1> DEFINE Same == ledger'[p][s].completed = ledger[p][s].completed
           Zero == ledger'[p][s].completed = 0
<1>1. /\ ledger \in [Projectors -> [Sessions -> Row]] /\ ledger[p][s] \in Row
      /\ \A q \in Projectors, t \in Sessions : ledger[q][t] \in Row
    BY DEF RowsBounded
<1>2. ASSUME NEW q \in Projectors, NEW t \in Sessions, NEW row,
             ledger' = [ledger EXCEPT ![q][t] = row], row.completed = ledger[q][t].completed
      PROVE  Same
    BY <1>1, <1>2
<1>3. ASSUME NEW row \in Row, NEW c, NEW k, NEW u
      PROVE  /\ [row EXCEPT !.claimed = c, !.token = k, !.until = u].completed = row.completed
             /\ [row EXCEPT !.until = u].completed = row.completed
    BY DEF Row
<1>4. \A row : Reset(row).completed = 0
    BY DEF Reset, FreshRow
<1>5. ASSUME NEW q \in Projectors, NEW t \in Sessions, NEW k, Claim(q, t, k) PROVE Same
    BY <1>1, <1>2, <1>3, <1>5 DEF Claim
<1>6. ASSUME NEW q \in Projectors, NEW t \in Sessions, NEW k, Fail(q, t, k) PROVE Same
    BY <1>1, <1>2, <1>3, <1>6 DEF Fail
<1>7. ASSUME NEW q \in Projectors, NEW t \in Sessions, LeaseExpires(q, t) \/ RetryDue(q, t)
      PROVE  Same
    <2>1. ledger' = [ledger EXCEPT ![q][t] = [ledger[q][t] EXCEPT !.until = "now"]]
        BY <1>1, <1>7 DEF LeaseExpires, RetryDue
    <2> QED BY <1>1, <1>2, <1>3, <2>1
<1>8. ASSUME NEW q \in Projectors, NEW t \in Sessions, Requeue(q, t) PROVE Same \/ Zero
    <2>1. ledger' = [ledger EXCEPT ![q][t] = Reset(ledger[q][t])]
        BY <1>8 DEF Requeue
    <2> QED BY <1>1, <1>4, <2>1
<1>9. ASSUME NEW q \in Projectors, NEW x, BindStore(q, x) PROVE Same \/ Zero
    BY <1>1, <1>4, <1>9 DEF BindStore
<1>10. ASSUME ReleaseClaims PROVE Same
    BY <1>1, <1>10 DEF ReleaseClaims, Released, Row
<1>11. ASSUME CatalogWrite PROVE Same
    <2>1. PICK t \in Sessions :
              \/ ledger' = [q \in Projectors |-> [ledger[q] EXCEPT ![t] = Wanted(@, commitSeq + 1)]]
              \/ ledger' = [q \in Projectors |->
                               [ledger[q] EXCEPT ![t] = WantedAfresh(@, commitSeq + 1)]]
        BY <1>11 DEF CatalogWrite, CommitObject, RetireSession, DeleteStorageSession, BumpAll
    <2>2. \A row \in Row : /\ Wanted(row, commitSeq + 1).completed = row.completed
                           /\ WantedAfresh(row, commitSeq + 1).completed = row.completed
        BY DEF Wanted, WantedAfresh, Row
    <2>3. ledger'[p][s] \in {ledger[p][s], Wanted(ledger[p][s], commitSeq + 1),
                             WantedAfresh(ledger[p][s], commitSeq + 1)}
        BY <1>1, <2>1
    <2> QED BY <1>1, <2>2, <2>3
<1>12. ASSUME NEW w \in Slots, CompletePass(w)
       PROVE  \/ Same
              \/ /\ ProjectorOf(w) = p /\ pass[w].session = s
                 /\ ledger'[p][s].completed = pass[w].revision
    <2> DEFINE q == ProjectorOf(w)
               t == pass[w].session
               row == [ledger[q][t] EXCEPT !.completed = pass[w].revision, !.claimed = None,
                                           !.token = None, !.until = "now"]
    <2>1. q \in Projectors /\ t \in Sessions
        <3>1. Working(w)
            BY <1>12 DEF CompletePass, Working, Steps
        <3> QED BY <3>1, PassFacts DEF ProjectorOf, Projectors, ClaimedPass
    <2>2. ledger' = [ledger EXCEPT ![q][t] = row]
        BY <1>12 DEF CompletePass, Complete
    <2>3. row.completed = pass[w].revision
        BY <1>1, <2>1 DEF Row
    <2> HIDE DEF row, q, t
    <2>4. Same \/ (q = p /\ t = s /\ ledger'[p][s].completed = row.completed)
        BY <1>1, <2>1, <2>2
    <2> QED BY <2>3, <2>4 DEF q, t
<1>13. ASSUME UNCHANGED ledgerVars PROVE Same
    BY <1>13 DEF ledgerVars
<1>14. \A w \in Slots : ProjectorOf(w) \in Projectors
    BY DEF ProjectorOf, Projectors
<1>15. \A w \in Slots : Working(w) => pass[w].session \in Sessions
    BY PassFacts DEF ClaimedPass
<1> HIDE DEF Same, Zero
<1>16. ASSUME NEW w \in Slots, RunOnce(w) PROVE Same \/ Zero \/ CompletePass(w)
    <2>1. CASE Bind(w)
        BY <1>9, <1>13, <1>14, <2>1 DEF Bind
    <2>2. ASSUME NEW t \in Sessions, ClaimRow(w, t) PROVE Same
        BY <1>5, <1>14, <2>2 DEF ClaimRow
    <2>3. CASE FailPass(w)
        <3>1. Working(w)
            BY <2>3 DEF FailPass, Working, Steps
        <3> QED BY <1>6, <1>13, <1>14, <1>15, <2>3, <3>1 DEF FailPass
    <2> QED BY <1>13, <1>16, <2>1, <2>2, <2>3 DEF RunOnce, Ping, ClaimNothing, ListPage, Reuse,
               IndexObject, PublishSet, PublishLags, DeleteFromSearch, ListForEmbedding, ReadSource,
               WriteEmbeddings, CompletionRefused
<1>17. ASSUME Environment PROVE Same \/ Zero
    <2>1. ASSUME NEW w \in Slots, NEW t \in Sessions, ClaimReplyLost(w, t) PROVE Same
        BY <1>5, <1>14, <2>1 DEF ClaimReplyLost
    <2>2. ASSUME NEW t \in Sessions, \/ \E replaced \in SUBSET Active(t) : Commit(t, replaced)
                                     \/ RetireOne(t) \/ DeleteOne(t)
          PROVE  Same
        <3>1. ASSUME UNCHANGED ledger PROVE Same
            BY <3>1 DEF Same
        <3> QED BY <1>11, <2>2, <3>1 DEF Commit, RetireOne, DeleteOne, CatalogWrite, CommitUnrendered
    <2>3. ASSUME NEW t \in Sessions, NEW q \in Projectors, RequeueOne(q, t) PROVE Same \/ Zero
        BY <1>8, <2>3 DEF RequeueOne
    <2>4. CASE RestartHost
        BY <1>10, <2>4 DEF RestartHost
    <2>5. CASE ReplaceStore \/ \E w \in Slots : StepFails(w) \/ FailureReportLost(w)
        BY <1>13, <2>5 DEF ReplaceStore, StepFails, FailureReportLost
    <2> QED BY <1>17, <2>1, <2>2, <2>3, <2>4, <2>5 DEF Environment
<1>18. ASSUME NEW q \in Projectors, NEW t \in Sessions, TimePasses(q, t) PROVE Same
    BY <1>7, <1>18 DEF TimePasses
<1>19. UNCHANGED vars => Same
    BY <1>13 DEF vars
<1>20. Same \/ Zero \/ \E w \in Slots : CompletePass(w)
    BY <1>16, <1>17, <1>18, <1>19 DEF Next
<1> QED BY <1>12, <1>20 DEF Same, Zero

\* A new store starts the rows of its projector again.
LEMMA NewBinding ==
    ASSUME RowsBounded, ContentOK, [Next]_vars, NEW p \in Projectors, binding'[p] # binding[p],
           NEW s \in Sessions
    PROVE  /\ ledger'[p][s].completed = 0
           /\ \E w \in Slots : Bind(w) /\ ProjectorOf(w) = p
<1>1. PICK w \in Slots : /\ Bind(w)
                         /\ binding' = [binding EXCEPT ![ProjectorOf(w)] = pass[w].store]
    BY BindingSteps
<1>2. ProjectorOf(w) = p
    BY <1>1 DEF ContentOK
<1>3. BindStore(p, pass[w].store)
    BY <1>1, <1>2 DEF Bind, ledgerVars
<1>4. Reset(ledger[p][s]).completed = 0
    BY DEF Reset, FreshRow
<1> QED BY <1>1, <1>2, <1>3, <1>4 DEF BindStore, RowsBounded

\* A session whose wanted revision is one of the past has not been written, but
\* for writes that tell nobody; and these may bring it back from retirement.
LEMMA StillWanted ==
    ASSUME RowsBounded, ContentOK, PassOK, ListsOK, [Next]_vars, NEW s \in Sessions,
           ledger'[Search][s].desired <= commitSeq
    PROVE  /\ \A p \in Projectors : ledger'[p][s].desired = ledger[p][s].desired
           /\ Gone(s)' => Gone(s)
           /\ Gone(s) => Gone(s)' \/ content'[s].revived
           /\ content[s].revived => content'[s].revived
           /\ GoneOrRevived(s)' <=> GoneOrRevived(s)
           /\ content'[s].state = "ready" /\ ~content'[s].revived => content[s].state = "ready"
<1>1. Search \in Projectors /\ commitSeq \in Nat
    BY DEF Projectors, RowsBounded
<1> DEFINE Kept == \/ content'[s] = content[s]
                   \/ /\ content'[s].state = content[s].state
                      /\ content'[s].revived = content[s].revived
                   \/ content[s].state = "retired" /\ content'[s].state = "ready" /\ content'[s].revived
<1>2. SUFFICES Kept /\ \A p \in Projectors : ledger'[p][s].desired = ledger[p][s].desired
    BY DEF Gone, GoneOrRevived
<1>3. CASE UNCHANGED <<commitSeq, content>>
    BY <1>3, DesiredStays
<1>4. CASE CatalogWrite
    <2>1. PICK t \in Sessions :
             /\ content' = [content EXCEPT ![t] = content'[t]]
             /\ \A p \in Projectors :
                   /\ ledger'[p][t].desired = commitSeq + 1
                   /\ \A u \in Sessions \ {t} : ledger'[p][u] = ledger[p][u]
        BY <1>4, WriteFacts DEF Written
    <2>2. s # t
        BY <1>1, <2>1
    <2> QED BY <2>1, <2>2 DEF ContentOK
<1>5. CASE UntoldWrite
    <2>1. PICK t \in Sessions :
             /\ content' = [content EXCEPT ![t] = content'[t]]
             /\ \/ /\ content'[t].state = content[t].state
                   /\ content'[t].revived = content[t].revived
                \/ content[t].state = "retired" /\ content'[t].state = "ready" /\ content'[t].revived
             /\ UNCHANGED ledger
        BY <1>5, UntoldFacts DEF WrittenUntold
    <2>2. s # t => content'[s] = content[s]
        BY <2>1 DEF ContentOK
    <2> QED BY <2>1, <2>2
<1> QED BY <1>3, <1>4, <1>5, ContentSteps

\* What is wanted only grows.
LEMMA DesiredGrows ==
    ASSUME RowsBounded, ContentOK, PassOK, ListsOK, [Next]_vars, NEW p \in Projectors,
           NEW s \in Sessions
    PROVE  /\ ledger[p][s].desired <= ledger'[p][s].desired
           /\ ledger[p][s].desired \in Nat /\ ledger'[p][s].desired \in Nat
<1>1. ledger[p][s] \in Row /\ ledger[p][s].desired <= commitSeq /\ commitSeq \in Nat
    BY DEF RowsBounded, RowBounded
<1>2. ledger[p][s].desired \in Nat
    BY <1>1 DEF Row
<1>3. CASE UNCHANGED <<commitSeq, content>>
    BY <1>2, <1>3, DesiredStays
<1>4. CASE CatalogWrite
    <2>1. ledger'[p][s].desired = commitSeq + 1 \/ ledger'[p][s] = ledger[p][s]
        BY <1>4, WriteFacts DEF Written
    <2> QED BY <1>1, <1>2, <2>1
<1>5. CASE UntoldWrite
    <2>1. UNCHANGED ledger
        BY <1>5, UntoldFacts DEF WrittenUntold
    <2> QED BY <1>2, <2>1
<1> QED BY <1>3, <1>4, <1>5, ContentSteps

\* A session that went is gone, or came back.
LEMMA GoneStays ==
    ASSUME RowsBounded, ContentOK, [Next]_vars, NEW s \in Sessions, GoneOrRevived(s)
    PROVE  GoneOrRevived(s)'
<1>1. CASE UNCHANGED content
    BY <1>1 DEF GoneOrRevived, Gone
<1>2. CASE CatalogWrite \/ UntoldWrite
    <2>1. PICK t \in Sessions :
              /\ content' = [content EXCEPT ![t] = content'[t]]
              /\ \/ /\ content[t].state # "deleted"
                    /\ content'[t].revived = (content[t].revived \/ content[t].state = "retired")
                 \/ content'[t].state \in {"retired", "deleted"} \/ content'[t].revived
                 \/ /\ content'[t].state = content[t].state
                    /\ content'[t].revived = content[t].revived
        <3>1. CASE CatalogWrite
            BY <3>1, WriteFacts DEF Written
        <3>2. CASE UntoldWrite
            BY <3>2, UntoldFacts DEF WrittenUntold
        <3> QED BY <1>2, <3>1, <3>2
    <2>2. CASE s # t
        <3>1. content'[s] = content[s]
            BY <2>1, <2>2 DEF ContentOK
        <3> QED BY <3>1 DEF GoneOrRevived, Gone
    <2>3. CASE s = t
        BY <2>1, <2>3 DEF GoneOrRevived, Gone
    <2> QED BY <2>2, <2>3
<1> QED BY <1>1, <1>2, ContentSteps

\* The projector of a slot.
LEMMA SlotFacts ==
    ASSUME NEW w \in Slots
    PROVE  /\ ProjectorOf(w) = Search <=> w \in SearchSlots
           /\ ProjectorOf(w) = Embedding <=> w \in EmbeddingSlots
           /\ ProjectorOf(w) \in Projectors /\ Search # Embedding
           /\ Search \in Projectors /\ Embedding \in Projectors
BY SearchAssumption DEF ProjectorOf, Search, Embedding, Projectors, Slots

\* Where a pass that works on a session comes from.
CameFrom(w) ==
    \/ \E s \in Sessions :
          /\ ClaimRow(w, s) /\ pass'[w].pc = "list"
          /\ pass'[w].session = s /\ pass'[w].revision = ClaimRevision(ProjectorOf(w), s)
    \/ /\ Working(w)
       /\ pass'[w].session = pass[w].session /\ pass'[w].revision = pass[w].revision
       /\ \/ pass'[w] = pass[w]
          \/ pass'[w].pc = "fail"
          \/ pass'[w].pc = "reuse" /\ w \in SearchSlots /\ ~Gone(pass[w].session)
          \/ pass'[w].pc = "index" /\ pass[w].pc \in {"reuse", "index"}
          \/ pass'[w].pc = "source" /\ w \in EmbeddingSlots
          \/ pass'[w].pc = "embed" /\ pass[w].pc = "source"
          \/ pass'[w].pc = "delete" /\ Gone(pass[w].session)
          \/ /\ pass'[w].pc = "complete"
             /\ \/ PublishSet(w) \/ DeleteFromSearch(w)
                \/ WriteEmbeddings(w) /\ Serves(pass[w].session, pass[w].revision)

\* It was claimed just now, or worked on the same session and revision before.
LEMMA PassOrigin ==
    ASSUME PassOK, ContentOK, [Next]_vars, NEW w \in Slots, Working(w)'
    PROVE  CameFrom(w)
<1>1. pass'[w].pc \in Steps
    BY DEF Working
<1>2. CASE pass'[w] = pass[w]
    BY <1>1, <1>2 DEF CameFrom, Working
<1>3. CASE pass'[w] \in {Idle, [pc |-> "claim"]} \/ pass'[w] = [pc |-> "bind", store |-> store.id]
    BY <1>1, <1>3 DEF Steps, Idle
<1>4. ASSUME NEW s \in Sessions, ClaimRow(w, s) PROVE CameFrom(w)
    <2> DEFINE r == ClaimRevision(ProjectorOf(w), s)
    <2>1. pass'[w] = StartPass(s, r, FreshToken)
        BY <1>4 DEF ClaimRow, Become, PassOK
    <2> HIDE DEF r
    <2>2. pass'[w].pc = "list" /\ pass'[w].session = s /\ pass'[w].revision = r
        BY <2>1 DEF StartPass
    <2> QED BY <1>4, <2>2 DEF CameFrom, r
<1>5. ASSUME Working(w) PROVE pass[w] \in ClaimedPass
    BY <1>5, PassFacts
<1>6. CASE ListPage(w) /\ ~Gone(pass[w].session)
    <2>1. Working(w) /\ w \in SearchSlots
        BY <1>6, PageFacts DEF ListPage
    <2>2. ASSUME NEW page, NEW more,
                 pass'[w] = [pass[w] EXCEPT !.pc = "reuse", !.todo = page, !.more = more]
          PROVE  /\ pass'[w].pc = "reuse" /\ pass'[w].session = pass[w].session
                 /\ pass'[w].revision = pass[w].revision
        BY <1>5, <2>1, <2>2 DEF ClaimedPass
    <2>3. /\ pass'[w].pc = "reuse" /\ pass'[w].session = pass[w].session
          /\ pass'[w].revision = pass[w].revision
        <3> DEFINE more == Unlisted(w) # Smallest(Unlisted(w), PageSize)
        <3>1. pass'[w] = [pass[w] EXCEPT !.pc = "reuse", !.todo = Smallest(Unlisted(w), PageSize),
                                         !.more = more]
            BY <1>6, PageFacts
        <3> HIDE DEF more
        <3> QED BY <2>2, <3>1
    <2> QED BY <1>6, <2>1, <2>3 DEF CameFrom
<1>7. CASE Reuse(w) \/ IndexObject(w)
    <2>1. Working(w) /\ pass[w].pc \in {"reuse", "index"} /\ DOMAIN pass = Slots
        BY <1>7 DEF Reuse, IndexObject, Working, Steps, PassOK
    <2>2. ASSUME NEW known,
                 \/ pass'[w] = [pass[w] EXCEPT !.pc = "index", !.todo = @ \ known, !.seen = @ \cup known]
                 \/ /\ pass'[w] = [pass[w] EXCEPT !.todo = @ \ known, !.seen = @ \cup known]
                    /\ pass[w].pc = "index"
          PROVE  /\ pass'[w].pc = "index" /\ pass'[w].session = pass[w].session
                 /\ pass'[w].revision = pass[w].revision
        BY <1>5, <2>1, <2>2 DEF ClaimedPass
    <2>3. \E known :
                 \/ pass'[w] = [pass[w] EXCEPT !.pc = "index", !.todo = @ \ known, !.seen = @ \cup known]
                 \/ /\ pass'[w] = [pass[w] EXCEPT !.todo = @ \ known, !.seen = @ \cup known]
                    /\ pass[w].pc = "index"
        BY <1>7, <2>1 DEF Reuse, IndexObject, Become
    <2> QED BY <2>1, <2>2, <2>3 DEF CameFrom
<1>8. ASSUME Working(w), NEW pc, pass'[w] = [pass[w] EXCEPT !.pc = pc]
      PROVE  /\ pass'[w].pc = pc /\ pass'[w].session = pass[w].session
             /\ pass'[w].revision = pass[w].revision
    BY <1>5, <1>8 DEF ClaimedPass
<1>9. ASSUME Working(w), NEW pc \in {"fail", "source", "embed"},
             pass'[w] = [pass[w] EXCEPT !.pc = pc],
             \/ pc = "fail"
             \/ pc = "source" /\ ListForEmbedding(w)
             \/ pc = "embed" /\ ReadSource(w)
      PROVE  CameFrom(w)
    BY <1>8, <1>9 DEF CameFrom, ListForEmbedding, ReadSource
<1>10. ASSUME Working(w), Gone(pass[w].session), pass'[w] = [pass[w] EXCEPT !.pc = "delete"]
       PROVE  CameFrom(w)
    BY <1>8, <1>10 DEF CameFrom
<1>11. ASSUME Working(w), pass'[w] = [pass[w] EXCEPT !.pc = "complete"],
              \/ PublishSet(w) \/ DeleteFromSearch(w)
              \/ WriteEmbeddings(w) /\ Serves(pass[w].session, pass[w].revision)
       PROVE  CameFrom(w)
    BY <1>8, <1>11 DEF CameFrom
<1>12. \/ pass'[w] = pass[w]
       \/ pass'[w] \in {Idle, [pc |-> "claim"]} \/ pass'[w] = [pc |-> "bind", store |-> store.id]
       \/ \E s \in Sessions : ClaimRow(w, s)
       \/ ListPage(w) /\ ~Gone(pass[w].session)
       \/ Reuse(w) \/ IndexObject(w)
       \/ Working(w) /\ \E pc \in {"fail", "source", "embed"} :
                            /\ pass'[w] = [pass[w] EXCEPT !.pc = pc]
                            /\ \/ pc = "fail"
                               \/ pc = "source" /\ ListForEmbedding(w)
                               \/ pc = "embed" /\ ReadSource(w)
       \/ /\ Working(w) /\ Gone(pass[w].session)
          /\ pass'[w] = [pass[w] EXCEPT !.pc = "delete"]
       \/ /\ Working(w)
          /\ \/ PublishSet(w) \/ DeleteFromSearch(w)
             \/ WriteEmbeddings(w) /\ Serves(pass[w].session, pass[w].revision)
          /\ pass'[w] = [pass[w] EXCEPT !.pc = "complete"]
    BY PassActs
<1>13. CASE Working(w) /\ \E pc \in {"fail", "source", "embed"} :
                            /\ pass'[w] = [pass[w] EXCEPT !.pc = pc]
                            /\ \/ pc = "fail"
                               \/ pc = "source" /\ ListForEmbedding(w)
                               \/ pc = "embed" /\ ReadSource(w)
    BY <1>9, <1>13
<1>14. CASE /\ Working(w) /\ Gone(pass[w].session)
            /\ pass'[w] = [pass[w] EXCEPT !.pc = "delete"]
    BY <1>10, <1>14
<1>15. CASE /\ Working(w)
            /\ \/ PublishSet(w) \/ DeleteFromSearch(w)
               \/ WriteEmbeddings(w) /\ Serves(pass[w].session, pass[w].revision)
            /\ pass'[w] = [pass[w] EXCEPT !.pc = "complete"]
    BY <1>11, <1>15
<1> QED BY <1>2, <1>3, <1>4, <1>6, <1>7, <1>12, <1>13, <1>14, <1>15

\* The passes that find a session gone, and whose steps are whose.
LEMMA DeletesKept ==
    ASSUME SearchInv, OnePassInv, [Next]_vars
    PROVE  DeletesTheGone' /\ StepsBySlot'
<1>1. PassOK /\ ContentOK /\ RowsBounded /\ DeletesTheGone /\ StepsBySlot
    BY DEF SearchInv, OnePassInv
<1>2. ASSUME NEW w \in Slots, pass'[w].pc = "delete" PROVE GoneOrRevived(pass[w].session)'
    <2>1. CameFrom(w)
        BY <1>1, <1>2, PassOrigin DEF Working, Steps
    <2>2. Working(w) /\ pass'[w].session = pass[w].session /\ GoneOrRevived(pass[w].session)
        BY <1>1, <1>2, <2>1 DEF CameFrom, DeletesTheGone, GoneOrRevived
    <2>3. PICK s \in Sessions : s = pass[w].session
        BY <1>1, <2>2, PassFacts DEF ClaimedPass
    <2>4. GoneOrRevived(s)'
        BY <1>1, <2>2, <2>3, GoneStays
    <2> QED BY <2>2, <2>3, <2>4 DEF GoneOrRevived, Gone
<1>3. ASSUME NEW w \in Slots
      PROVE  /\ pass'[w].pc \in {"reuse", "index"} => w \in SearchSlots
             /\ pass'[w].pc \in {"source", "embed"} => w \in EmbeddingSlots
    <2>1. pass'[w].pc \in {"reuse", "index", "source", "embed"} => CameFrom(w)
        BY <1>1, PassOrigin DEF Working, Steps
    <2> QED BY <1>1, <2>1 DEF CameFrom, StepsBySlot
<1> QED BY <1>2, <1>3 DEF DeletesTheGone, StepsBySlot

\* What a step makes of the row of a pass.
LEMMA RowOfPass ==
    ASSUME SearchInv, [Next]_vars, NEW p \in Projectors, NEW s \in Sessions
    PROVE  /\ ledger[p][s].completed \in Nat /\ ledger[p][s].completed <= ledger[p][s].desired
           /\ ledger[p][s].desired \in Nat /\ ledger[p][s].desired <= commitSeq
           /\ ledger'[p][s].desired \in Nat /\ ledger[p][s].desired <= ledger'[p][s].desired
           /\ ledger'[p][s].completed \in Nat
           /\ ledger'[p][s].completed <= ledger'[p][s].desired
           /\ commitSeq \in Nat
<1>1. RowsBounded /\ RowsBounded' /\ ContentOK /\ PassOK /\ ListsOK
    BY LedgerSteps, BoundsAreInductive DEF SearchInv
<1>2. /\ ledger[p][s] \in Row /\ RowBounded(ledger[p][s], commitSeq)
      /\ ledger'[p][s] \in Row /\ RowBounded(ledger'[p][s], commitSeq') /\ commitSeq \in Nat
    BY <1>1 DEF RowsBounded
<1> QED BY <1>1, <1>2, DesiredGrows DEF Row, RowBounded

\* A pass stays ahead of its row.
LEMMA AheadKept ==
    ASSUME SearchInv, OnePassPerSession, OnePassInv, [Next]_vars
    PROVE  PassAhead'
<1>1. /\ RowsBounded /\ PassOK /\ ContentOK /\ ListsOK /\ PassAhead /\ PassOK'
    BY PassKept DEF SearchInv, OnePassInv
<1>2. SUFFICES ASSUME NEW w \in Slots, Working(w)'
               PROVE  /\ ledger'[ProjectorOf(w)][pass'[w].session].completed < pass'[w].revision
                      /\ pass'[w].revision <= ledger'[ProjectorOf(w)][pass'[w].session].desired
    BY DEF PassAhead, ProjectorOf
<1> DEFINE p == ProjectorOf(w)
<1>3. p \in Projectors
    BY SlotFacts
<1>4. ASSUME NEW s \in Sessions, ClaimRow(w, s), pass'[w].session = s,
             pass'[w].revision = ClaimRevision(p, s)
      PROVE  /\ ledger'[p][s].completed < pass'[w].revision
             /\ pass'[w].revision <= ledger'[p][s].desired
    <2>1. Eligible(p, s) /\ UNCHANGED commitSeq
        BY <1>4 DEF ClaimRow, Claim
    <2>2. /\ ClaimRevision(p, s) \in Nat /\ ledger[p][s].completed < ClaimRevision(p, s)
          /\ ClaimRevision(p, s) <= ledger[p][s].desired
        BY <1>1, <1>3, <2>1, ClaimIsBounded
    <2>3. ledger'[p][s].desired = ledger[p][s].desired
        BY <1>1, <1>3, <2>1, DesiredStays
    <2>4. ledger'[p][s].completed = ledger[p][s].completed
        <3>1. pass[w].pc = "claim"
            BY <1>4 DEF ClaimRow
        <3>2. /\ ledger[p][s] \in Row /\ ledger \in [Projectors -> [Sessions -> Row]]
            BY <1>1, <1>3 DEF RowsBounded
        <3>3. ledger' = [ledger EXCEPT ![p][s] = [ledger[p][s] EXCEPT
                            !.claimed = ClaimRevision(p, s), !.token = FreshToken, !.until = "lease"]]
            BY <1>4 DEF ClaimRow, Claim
        <3>4. ledger'[p][s] = [ledger[p][s] EXCEPT
                            !.claimed = ClaimRevision(p, s), !.token = FreshToken, !.until = "lease"]
            BY <1>3, <3>2, <3>3
        <3> QED BY <3>2, <3>4 DEF Row
    <2> QED BY <1>4, <2>2, <2>3, <2>4
<1>5. ASSUME Working(w), pass'[w].session = pass[w].session, pass'[w].revision = pass[w].revision
      PROVE  /\ ledger'[p][pass[w].session].completed < pass[w].revision
             /\ pass[w].revision <= ledger'[p][pass[w].session].desired
    <2>1. PICK s \in Sessions : s = pass[w].session
        BY <1>1, <1>5, PassFacts DEF ClaimedPass
    <2>2. pass[w].revision \in Nat
        BY <1>1, <1>5, PassFacts DEF ClaimedPass
    <2>3. ledger[p][s].completed < pass[w].revision /\ pass[w].revision <= ledger[p][s].desired
        BY <1>1, <1>5, <2>1 DEF PassAhead
    <2>4. /\ ledger[p][s].completed \in Nat /\ ledger[p][s].desired \in Nat
          /\ ledger'[p][s].desired \in Nat /\ ledger[p][s].desired <= ledger'[p][s].desired
        BY <1>3, RowOfPass
    <2>5. ASSUME NEW v \in Slots, CompletePass(v), ProjectorOf(v) = p, pass[v].session = s
          PROVE  FALSE
        <3>1. v = w
            BY <1>5, <2>1, <2>5 DEF OnePassPerSession, CompletePass, Working, Steps
        <3>2. pass'[w] = Idle
            BY <1>1, <2>5, <3>1 DEF CompletePass, Become, PassOK
        <3> QED BY <1>2, <3>2 DEF Working, Steps, Idle
    <2>6. ledger'[p][s].completed = ledger[p][s].completed \/ ledger'[p][s].completed = 0
        BY <1>1, <1>3, <2>5, ProgressSteps
    <2> QED BY <2>1, <2>2, <2>3, <2>4, <2>6
<1>6. CameFrom(w)
    BY <1>1, <1>2, PassOrigin
<1> QED BY <1>4, <1>5, <1>6 DEF CameFrom

\* What a search pass works on stays ahead of the embeddings.
LEMMA LeadKept ==
    ASSUME SearchInv, OnePassPerSession, OnePassInv, [Next]_vars
    PROVE  PassLeads'
<1>1. /\ RowsBounded /\ PassOK /\ ContentOK /\ ListsOK /\ PassAhead /\ PassLeads /\ PassAhead' /\ PassOK'
    BY AheadKept, PassKept DEF SearchInv, OnePassInv
<1>2. SUFFICES ASSUME NEW w \in SearchSlots, Working(w)'
               PROVE  /\ ledger'[Embedding][pass'[w].session].completed <= pass'[w].revision
                      /\ \A v \in EmbeddingSlots :
                            Working(v)' /\ pass'[v].session = pass'[w].session
                            => pass'[v].revision <= pass'[w].revision
    BY DEF PassLeads
<1>3. w \in Slots /\ ProjectorOf(w) = Search /\ CameFrom(w) /\ Embedding \in Projectors
    BY <1>1, <1>2, PassOrigin, SlotFacts DEF Slots
<1>4. PICK s \in Sessions : s = pass'[w].session
    <2>1. pass'[w] \in ClaimedPass
        BY <1>1, <1>2, <1>3 DEF PassOK, Working, ClaimedPass, Steps, Idle
    <2> QED BY <2>1 DEF ClaimedPass
<1>5. /\ ledger'[Embedding][s].completed \in Nat /\ ledger'[Embedding][s].desired \in Nat
      /\ ledger'[Embedding][s].completed <= ledger'[Embedding][s].desired
    BY <1>3, RowOfPass
<1>6. CASE ClaimRow(w, s) /\ pass'[w].revision = ClaimRevision(Search, s)
    <2>1. pass'[w].revision = ledger[Search][s].desired
        BY <1>6 DEF ClaimRevision, Search, Embedding
    <2>2. UNCHANGED commitSeq
        BY <1>6 DEF ClaimRow, Claim
    <2>3. Search \in Projectors
        BY <1>3, SlotFacts
    <2>4. pass'[w].revision = ledger'[Embedding][s].desired
        BY <1>1, <1>3, <2>1, <2>2, <2>3, DesiredStays DEF ContentOK
    <2>5. ASSUME NEW v \in EmbeddingSlots, Working(v)', pass'[v].session = s
          PROVE  pass'[v].revision <= pass'[w].revision
        <3>1. v \in Slots /\ ProjectorOf(v) = Embedding
            BY SlotFacts DEF Slots
        <3>2. pass'[v].revision <= ledger'[ProjectorOf(v)][pass'[v].session].desired
            BY <1>1, <2>5, <3>1 DEF PassAhead, ProjectorOf
        <3> QED BY <2>4, <2>5, <3>1, <3>2
    <2> QED BY <1>4, <1>5, <2>4, <2>5
<1>7. CASE Working(w) /\ pass'[w].session = pass[w].session /\ pass'[w].revision = pass[w].revision
    <2>1. /\ pass[w].revision \in Nat /\ s = pass[w].session
          /\ ledger[Embedding][s].completed <= pass[w].revision
          /\ ledger[Search][s].completed < pass[w].revision
          /\ \A v \in EmbeddingSlots :
                Working(v) /\ pass[v].session = s => pass[v].revision <= pass[w].revision
        <3>1. pass[w].revision \in Nat
            BY <1>1, <1>3, <1>7, PassFacts DEF ClaimedPass
        <3> QED BY <1>1, <1>3, <1>4, <1>7, <3>1 DEF PassLeads, PassAhead
    <2>2. ledger'[Embedding][s].completed <= pass[w].revision
        <3>1. ASSUME NEW v \in Slots, CompletePass(v), ProjectorOf(v) = Embedding,
                     pass[v].session = s
              PROVE  pass[v].revision <= pass[w].revision
            <4>1. v \in EmbeddingSlots /\ Working(v)
                BY <3>1, SlotFacts DEF CompletePass, Working, Steps
            <4> QED BY <2>1, <3>1, <4>1
        <3> QED BY <1>1, <1>3, <2>1, <3>1, ProgressSteps
    <2>3. ASSUME NEW v \in EmbeddingSlots, Working(v)', pass'[v].session = s
          PROVE  pass'[v].revision <= pass[w].revision
        <3>1. v \in Slots /\ ProjectorOf(v) = Embedding /\ CameFrom(v)
            BY <1>1, <2>3, PassOrigin, SlotFacts DEF Slots
        <3>2. CASE Working(v) /\ pass'[v].session = pass[v].session
                       /\ pass'[v].revision = pass[v].revision
            BY <2>1, <2>3, <3>2
        <3>3. CASE ClaimRow(v, s) /\ pass'[v].revision = ClaimRevision(Embedding, s)
            <4>1. /\ ledger[Search][s].completed \in Nat
                  /\ ledger[Search][s].completed <= ledger[Search][s].desired
                  /\ ledger[Search][s].desired = ledger[Embedding][s].desired
                  /\ ledger[Search][s].desired \in Nat
                BY <1>1, <1>3, RowOfPass, SlotFacts DEF ContentOK
            <4>2. ClaimRevision(Embedding, s) <= ledger[Search][s].completed
                BY <4>1 DEF ClaimRevision
            <4>3. ClaimRevision(Embedding, s) \in Nat
                BY <4>1 DEF ClaimRevision
            <4> QED BY <2>1, <3>3, <4>1, <4>2, <4>3
        <3> QED BY <2>3, <3>1, <3>2, <3>3 DEF CameFrom
    <2> QED BY <1>4, <1>7, <2>2, <2>3
<1> QED BY <1>3, <1>4, <1>6, <1>7 DEF CameFrom

\* A pass on the wanted revision has not seen the session go.
LEMMA ReadyKept ==
    ASSUME SearchInv, OnePassInv, [Next]_vars
    PROVE  PassSeesReady'
<1>1. /\ RowsBounded /\ PassOK /\ ContentOK /\ ListsOK /\ PassSeesReady
    BY DEF SearchInv, OnePassInv
<1>2. SUFFICES ASSUME NEW w \in SearchSlots, pass'[w].pc \in {"reuse", "index"},
                      pass'[w].revision = ledger'[Search][pass'[w].session].desired
               PROVE  ~Gone(pass[w].session)'
    BY DEF PassSeesReady
<1>3. w \in Slots /\ CameFrom(w)
    BY <1>1, <1>2, PassOrigin DEF Slots, Working, Steps
<1>4. /\ Working(w) /\ pass'[w].session = pass[w].session /\ pass'[w].revision = pass[w].revision
      /\ ~Gone(pass[w].session) \/ pass[w].pc \in {"reuse", "index"}
    BY <1>2, <1>3 DEF CameFrom
<1>5. PICK s \in Sessions : s = pass[w].session
    BY <1>1, <1>3, <1>4, PassFacts DEF ClaimedPass
<1>6. pass[w].revision <= commitSeq
    BY <1>1, <1>3, <1>4 DEF ListsOK, ListsSnapshot
<1>7. (Gone(s)' => Gone(s)) /\ ledger'[Search][s].desired = ledger[Search][s].desired
    BY <1>1, <1>2, <1>4, <1>5, <1>6, StillWanted, SlotFacts, <1>3
<1>8. ~Gone(s)
    BY <1>1, <1>2, <1>4, <1>5, <1>7 DEF PassSeesReady
<1> QED BY <1>4, <1>5, <1>7, <1>8 DEF Gone

\* While a binding is to the present store, the store has not been replaced; and
\* a projector with a pass under way binds no other.
LEMMA SameStore ==
    ASSUME SearchInv, [Next]_vars, NEW p \in Projectors, binding'[p] = store'.id,
           binding'[p] = binding[p]
    PROVE  binding[p] = store.id /\ ~ReplaceStore
<1>1. store \in Database /\ store.id \in Nat /\ StoresOK /\ PassOK
    BY SearchAssumption DEF SearchInv, StoresOK, Database
<1>2. DatabaseStep
    BY <1>1, ServedSteps
<1>3. binding[p] # None => binding[p] <= store.id
    BY <1>1 DEF StoresOK
<1>4. ~ReplaceStore
    <2> SUFFICES ASSUME ReplaceStore PROVE FALSE
        OBVIOUS
    <2>1. store'.id = store.id + 1
        BY DEF ReplaceStore, EmptyStore
    <2>2. binding[p] = store.id + 1
        BY <2>1
    <2>3. store.id + 1 \in Nat
        BY <1>1
    <2>4. binding[p] # None
        BY <2>2, <2>3, LedgerAssumption
    <2> QED BY <1>1, <1>3, <2>2, <2>4
<1> QED BY <1>2, <1>4 DEF DatabaseStep

\* A projector that has passes at work is not binding a store.
LEMMA NoBindWhileWorking ==
    ASSUME SearchInv, OnePassPerSession, [Next]_vars, NEW w \in Slots, Working(w)
    PROVE  binding'[ProjectorOf(w)] = binding[ProjectorOf(w)]
<1>1. RowsBounded /\ ContentOK /\ PassOK
    BY DEF SearchInv
<1>2. SUFFICES ASSUME binding'[ProjectorOf(w)] # binding[ProjectorOf(w)] PROVE FALSE
    OBVIOUS
<1>3. pass[w].session \in Sessions /\ ProjectorOf(w) \in Projectors
    BY <1>1, PassFacts, SlotFacts DEF ClaimedPass
<1>4. PICK v \in Slots : Bind(v) /\ ProjectorOf(v) = ProjectorOf(w)
    BY <1>1, <1>2, <1>3, NewBinding
<1>5. v = w
    BY <1>4 DEF OnePassPerSession, Bind
<1> QED BY <1>4, <1>5 DEF Bind, Working, Steps

\* A search pass completes what it served.
LEMMA CompletionServedKept ==
    ASSUME SearchInv, OnePassPerSession, OnePassInv, [Next]_vars
    PROVE  CompletesWhatItServed'
<1>1. /\ RowsBounded /\ PassOK /\ ContentOK /\ ListsOK /\ StoresOK /\ DeletesTheGone /\ StepsBySlot
      /\ PassSeesReady /\ CompletesWhatItServed /\ store \in Database
    BY DEF SearchInv, OnePassInv, StoresOK
<1>2. SUFFICES ASSUME NEW w \in SearchSlots, pass'[w].pc = "complete",
                      binding'[Search] = store'.id,
                      pass'[w].revision = ledger'[Search][pass'[w].session].desired
               PROVE  SearchDone(pass[w].session, pass[w].revision)'
    BY DEF CompletesWhatItServed
<1>3. w \in Slots /\ ProjectorOf(w) = Search /\ CameFrom(w) /\ Search \in Projectors
    BY <1>1, <1>2, PassOrigin, SlotFacts DEF Slots, Working, Steps
<1>4. /\ Working(w) /\ pass'[w].session = pass[w].session /\ pass'[w].revision = pass[w].revision
      /\ \/ pass[w].pc = "complete"
         \/ PublishSet(w) \/ DeleteFromSearch(w)
         \/ WriteEmbeddings(w) /\ Serves(pass[w].session, pass[w].revision)
    BY <1>2, <1>3 DEF CameFrom
<1>5. PICK s \in Sessions, r \in Nat : s = pass[w].session /\ r = pass[w].revision
    BY <1>1, <1>3, <1>4, PassFacts DEF ClaimedPass
<1>6. r <= commitSeq
    BY <1>1, <1>3, <1>4, <1>5 DEF ListsOK, ListsSnapshot
<1>7. /\ Gone(s)' => Gone(s)
      /\ GoneOrRevived(s)' <=> GoneOrRevived(s)
      /\ r = ledger[Search][s].desired
    BY <1>1, <1>2, <1>3, <1>4, <1>5, <1>6, StillWanted
<1>8. binding[Search] = store.id /\ ~ReplaceStore
    BY <1>2, <1>3, <1>4, NoBindWhileWorking, SameStore
<1>9. DatabaseStep
    BY <1>1, ServedSteps
<1>10. SUFFICES SearchDone(s, r)'
    BY <1>4, <1>5 DEF SearchDone, Served, GoneOrRevived, Gone
<1>11. ASSUME NEW v \in Slots, DeleteFromSearch(v), pass[v].session = s PROVE GoneOrRevived(s)
    BY <1>1, <1>11 DEF DeletesTheGone, DeleteFromSearch
<1>12. ASSUME store'.published[s] = None, GoneOrRevived(s) PROVE SearchDone(s, r)'
    BY <1>7, <1>12 DEF SearchDone, Served
<1>13. CASE pass[w].pc = "complete"
    <2>1. SearchDone(s, r)
        BY <1>2, <1>5, <1>7, <1>8, <1>13, <1>1 DEF CompletesWhatItServed
    <2>2. CASE store'.published[s] = store.published[s]
        BY <1>7, <2>1, <2>2 DEF SearchDone, Served
    <2>3. ASSUME NEW v \in Slots, PublishSet(v), pass[v].session = s PROVE FALSE
        <3>1. v \in SearchSlots /\ ProjectorOf(v) = Search /\ Working(v)
            BY <1>1, <2>3, SlotFacts
                DEF StepsBySlot, PublishSet, ReadyToPublish, Working, Steps
        <3>2. v = w
            BY <1>3, <1>4, <1>5, <2>3, <3>1 DEF OnePassPerSession
        <3> QED BY <1>13, <2>3, <3>2 DEF PublishSet, ReadyToPublish
    <2> QED BY <1>8, <1>9, <1>11, <1>12, <2>2, <2>3 DEF DatabaseStep
<1>14. CASE PublishSet(w)
    <2>1. ~Gone(s)
        BY <1>1, <1>5, <1>7, <1>14 DEF PassSeesReady, PublishSet, ReadyToPublish
    <2>2. /\ store' = [store EXCEPT
                 !.published[s] = [revision |-> r, objects |-> MembersAt(s, r)],
                 !.members[s] = {m \in store.members[s] : m[1] = r},
                 !.indexed[s] = MembersAt(s, r), !.embedded[s] = EmbeddingsAfter(s, r)]
        BY <1>5, <1>14 DEF PublishSet, Publish
    <2>3. store'.published[s] = [revision |-> r, objects |-> MembersAt(s, r)]
        BY <1>1, <2>2 DEF Database
    <2>4. MembersAt(s, r) \in SUBSET Nat
        BY <1>1 DEF MembersAt, Database
    <2>5. [revision |-> r, objects |-> MembersAt(s, r)] # None
        BY <2>4, SearchAssumption
    <2>6. store'.published[s] # None /\ store'.published[s].revision = r
        BY <2>3, <2>5
    <2> QED BY <1>7, <2>1, <2>6 DEF SearchDone
<1>15. CASE DeleteFromSearch(w)
    <2>1. store'.published[s] = None
        BY <1>1, <1>5, <1>15 DEF DeleteFromSearch, Forget, Database
    <2> QED BY <1>3, <1>5, <1>11, <1>12, <1>15, <2>1
<1>16. CASE WriteEmbeddings(w)
    BY <1>1, <1>3, <1>16, SearchAssumption DEF StepsBySlot, WriteEmbeddings
<1> QED BY <1>4, <1>13, <1>14, <1>15, <1>16

\* A row without lag is served.
LEMMA NoLagServedKept ==
    ASSUME SearchInv, OnePassPerSession, OnePassInv, [Next]_vars
    PROVE  NoLagIsServed'
<1>1. /\ RowsBounded /\ PassOK /\ ContentOK /\ ListsOK /\ StoresOK /\ DeletesTheGone /\ StepsBySlot
      /\ PassAhead /\ CompletesWhatItServed /\ NoLagIsServed /\ ServedOK /\ SearchInv'
      /\ store \in Database
    BY SearchKept DEF SearchInv, OnePassInv, StoresOK
<1>2. SUFFICES ASSUME NEW s \in Sessions, Current(Search, s)'
               PROVE  (Served(s) = Expected(s) \/ (content[s].revived /\ Served(s) = {}))'
    BY DEF NoLagIsServed
<1>3. Search \in Projectors
    BY DEF Projectors
<1> DEFINE row == ledger[Search][s]
           next == ledger'[Search][s]
<1>4. /\ row.completed \in Nat /\ row.completed <= row.desired
      /\ row.desired \in Nat /\ row.desired <= commitSeq
      /\ next.desired \in Nat /\ next.completed \in Nat /\ next.completed <= next.desired
      /\ commitSeq \in Nat /\ row.desired <= next.desired
    BY <1>3, RowOfPass
<1>5. binding'[Search] = store'.id /\ next.completed = next.desired
    <2>1. binding'[Search] = store'.id /\ ~(next.desired > next.completed)
        BY <1>2 DEF Current, Lag
    <2> QED BY <1>4, <2>1
<1>6. next.desired <= commitSeq
    <2>1. ASSUME NEW w \in Slots, CompletePass(w) PROVE pass[w].revision <= commitSeq
        BY <1>1, <2>1 DEF CompletePass, ListsOK, ListsSnapshot, Working, Steps
    <2> QED BY <1>1, <1>3, <1>4, <1>5, <2>1, ProgressSteps
<1>7. /\ next.desired = row.desired
      /\ Gone(s)' => Gone(s)
      /\ Gone(s) => Gone(s)' \/ content'[s].revived
      /\ content[s].revived => content'[s].revived
    BY <1>1, <1>3, <1>6, StillWanted
<1> DEFINE Goal == (Served(s) = Expected(s) \/ (content[s].revived /\ Served(s) = {}))'
<1>8. ASSUME Served(s)' = {}, GoneOrRevived(s) PROVE Goal
    <2>1. Gone(s)' => Expected(s)' = {}
        BY DEF Expected
    <2> QED BY <1>7, <1>8, <2>1 DEF GoneOrRevived
<1>9. ASSUME Served(s)' = Served(s),
             Served(s) = Expected(s) \/ (content[s].revived /\ Served(s) = {})
      PROVE  Goal
    <2>1. CASE Gone(s)
        BY <1>8, <1>9, <2>1 DEF Expected, GoneOrRevived
    <2>2. CASE ~Gone(s)
        <3>1. PICK d \in Nat : d = row.desired /\ d <= commitSeq
            BY <1>4
        <3>2. Snapshot(s, d)' = Snapshot(s, d)
            BY <1>1, <3>1, SnapshotStays
        <3>3. Snapshot(s, ledger[Search][s].desired)' = Snapshot(s, d)'
            BY <1>7, <3>1 DEF Snapshot
        <3>4. Expected(s)' = Expected(s)
            BY <1>7, <2>2, <3>1, <3>2, <3>3 DEF Expected
        <3> QED BY <1>7, <1>9, <3>4
    <2> QED BY <2>1, <2>2
<1> HIDE DEF Goal
<1> SUFFICES Goal
    BY DEF Goal
<1>10. CASE next.desired = 0
    <2>1. content'[s].state = "absent"
        BY <1>1, <1>10 DEF SearchInv, ContentOK
    <2>2. ~Gone(s)' /\ Expected(s)' = Snapshot(s, ledger[Search][s].desired)'
        BY <2>1 DEF Gone, Expected
    <2>3. \A o \in content'[s].objects : o.id \in Nat /\ 0 < o.id /\ o.id <= 0
        BY <1>1, <1>10 DEF SearchInv, ContentOK
    <2>4. content'[s].objects = {}
        BY <2>3
    <2>5. Expected(s)' = {}
        BY <2>2, <2>4 DEF Snapshot
    <2>6. Served(s)' = {}
        <3>1. store'.published[s] # None =>
                  store'.published[s].objects = Snapshot(s, store.published[s].revision)'
            BY <1>1 DEF SearchInv, ServedOK
        <3>2. Snapshot(s, store.published[s].revision)' = {}
            BY <2>4 DEF Snapshot
        <3> QED BY <3>1, <3>2 DEF Served
    <2> QED BY <2>5, <2>6 DEF Goal
<1>11. CASE next.desired # 0
    <2>1. next.completed # 0 /\ binding'[Search] = binding[Search]
        BY <1>1, <1>3, <1>5, <1>11, NewBinding
    <2>2. binding[Search] = store.id /\ ~ReplaceStore
        BY <1>3, <1>5, <2>1, SameStore
    <2>3. CASE next.completed = row.completed
        <3>1. Current(Search, s)
            BY <1>4, <1>5, <1>7, <2>2, <2>3 DEF Current, Lag
        <3>2. Served(s) = Expected(s) \/ (content[s].revived /\ Served(s) = {})
            BY <1>1, <3>1 DEF NoLagIsServed
        <3>3. CASE store'.published[s] = store.published[s]
            <4>1. Served(s)' = Served(s)
                BY <3>3 DEF Served
            <4> QED BY <1>9, <3>2, <4>1
        <3>4. ASSUME store'.published[s] = None, GoneOrRevived(s)
              PROVE  Goal
            <4>1. Served(s)' = {}
                BY <3>4 DEF Served
            <4> QED BY <1>8, <3>4, <4>1
        <3>5. ASSUME NEW v \in Slots, DeleteFromSearch(v), pass[v].session = s
              PROVE  GoneOrRevived(s)
            BY <1>1, <3>5 DEF DeletesTheGone, DeleteFromSearch
        <3>6. ASSUME NEW v \in Slots, PublishSet(v), pass[v].session = s PROVE FALSE
            <4>1. v \in SearchSlots /\ Working(v)
                BY <1>1, <3>6 DEF StepsBySlot, PublishSet, ReadyToPublish, Working, Steps
            <4>2. row.completed < pass[v].revision /\ pass[v].revision <= row.desired
                BY <1>1, <3>6, <4>1, SlotFacts DEF PassAhead
            <4>3. pass[v].revision \in Nat
                BY <1>1, <4>1, PassFacts DEF ClaimedPass
            <4> QED BY <1>4, <1>5, <1>7, <2>3, <4>2, <4>3
        <3> QED BY <1>1, <2>2, <3>3, <3>4, <3>5, <3>6, ServedSteps DEF DatabaseStep
    <2>4. ASSUME NEW w \in Slots, CompletePass(w), ProjectorOf(w) = Search, pass[w].session = s,
                 next.completed = pass[w].revision
          PROVE  Goal
        <3>1. w \in SearchSlots /\ pass[w].pc = "complete" /\ UNCHANGED store
            BY <2>4, SlotFacts DEF CompletePass
        <3>2. SearchDone(s, row.desired)
            BY <1>1, <1>5, <1>7, <2>2, <2>4, <3>1 DEF CompletesWhatItServed
        <3>3. Served(s)' = Served(s)
            BY <3>1 DEF Served
        <3>4. CASE ~Gone(s) /\ store.published[s] # None
                       /\ store.published[s].revision = row.desired
            <4>1. Served(s) = Snapshot(s, row.desired)
                BY <1>1, <3>4 DEF ServedOK, Served
            <4>2. Expected(s) = Snapshot(s, row.desired)
                BY <3>4 DEF Expected
            <4> QED BY <1>9, <3>3, <4>1, <4>2
        <3>5. CASE Served(s) = {} /\ GoneOrRevived(s)
            BY <1>8, <3>3, <3>5
        <3> QED BY <3>2, <3>4, <3>5 DEF SearchDone
    <2> QED BY <1>1, <1>3, <2>1, <2>3, <2>4, ProgressSteps
<1> QED BY <1>10, <1>11

\* An embedding pass completes what it embedded.
LEMMA CompletionEmbeddedKept ==
    ASSUME SearchInv, OnePassPerSession, OnePassInv, [Next]_vars
    PROVE  CompletesWhatItEmbedded'
<1>1. /\ RowsBounded /\ PassOK /\ ContentOK /\ ListsOK /\ StoresOK /\ DeletesTheGone /\ StepsBySlot
      /\ PassAhead /\ PassLeads /\ CompletesWhatItEmbedded /\ store \in Database
    BY DEF SearchInv, OnePassInv, StoresOK
<1>2. SUFFICES ASSUME NEW v \in EmbeddingSlots, pass'[v].pc = "complete",
                      binding'[Embedding] = store'.id,
                      pass'[v].revision = ledger'[Embedding][pass'[v].session].desired
               PROVE  (store.embedded[pass[v].session] = pass[v].revision
                           \/ GoneOrRevived(pass[v].session))'
    BY DEF CompletesWhatItEmbedded
<1>3. /\ v \in Slots /\ ProjectorOf(v) = Embedding /\ CameFrom(v)
      /\ Search \in Projectors /\ Embedding \in Projectors
    BY <1>1, <1>2, PassOrigin, SlotFacts DEF Slots, Working, Steps
<1>4. /\ Working(v) /\ pass'[v].session = pass[v].session /\ pass'[v].revision = pass[v].revision
      /\ \/ pass[v].pc = "complete"
         \/ PublishSet(v) \/ DeleteFromSearch(v)
         \/ WriteEmbeddings(v) /\ Serves(pass[v].session, pass[v].revision)
    BY <1>2, <1>3 DEF CameFrom
<1>5. PICK s \in Sessions, r \in Nat : s = pass[v].session /\ r = pass[v].revision
    BY <1>1, <1>3, <1>4, PassFacts DEF ClaimedPass
<1>6. r <= commitSeq
    BY <1>1, <1>3, <1>4, <1>5 DEF ListsOK, ListsSnapshot
<1>7. ContentOK'
    BY ContentKept
<1>8. /\ GoneOrRevived(s)' <=> GoneOrRevived(s)
      /\ r = ledger[Embedding][s].desired /\ r = ledger[Search][s].desired
    <2>1. r = ledger'[Search][s].desired
        BY <1>2, <1>4, <1>5, <1>7 DEF ContentOK
    <2> QED BY <1>1, <1>3, <1>6, <2>1, StillWanted DEF ContentOK
<1>9. binding[Embedding] = store.id /\ ~ReplaceStore
    BY <1>2, <1>3, <1>4, NoBindWhileWorking, SameStore
<1>10. DatabaseStep
    BY <1>1, ServedSteps
<1>11. SUFFICES store'.embedded[s] = r \/ GoneOrRevived(s)
    <2>1. GoneOrRevived(pass[v].session)' <=> GoneOrRevived(s)'
        BY <1>4, <1>5 DEF GoneOrRevived, Gone
    <2> QED BY <1>4, <1>5, <1>8, <2>1
<1>12. ASSUME NEW w \in Slots, DeleteFromSearch(w), pass[w].session = s PROVE GoneOrRevived(s)
    BY <1>1, <1>12 DEF DeletesTheGone, DeleteFromSearch
<1>13. CASE pass[v].pc = "complete"
    <2>1. store.embedded[s] = r \/ GoneOrRevived(s)
        BY <1>1, <1>2, <1>5, <1>8, <1>9, <1>13 DEF CompletesWhatItEmbedded
    <2>2. ASSUME NEW w \in Slots, PublishSet(w), pass[w].session = s, store.embedded[s] = r,
                 store'.embedded[s] = EmbeddingsAfter(s, pass[w].revision)
          PROVE  store'.embedded[s] = r
        <3>1. w \in SearchSlots /\ Working(w)
            BY <1>1, <2>2 DEF StepsBySlot, PublishSet, ReadyToPublish, Working, Steps
        <3>2. r <= pass[w].revision
            BY <1>1, <1>4, <1>5, <2>2, <3>1 DEF PassLeads
        <3>3. pass[w].revision <= r /\ pass[w].revision \in Nat
            BY <1>1, <1>8, <2>2, <3>1, SlotFacts, PassFacts DEF PassAhead, ClaimedPass
        <3>4. pass[w].revision = r
            BY <3>2, <3>3
        <3> QED BY <2>2, <3>4 DEF EmbeddingsAfter
    <2>3. ASSUME NEW w \in Slots, WriteEmbeddings(w), pass[w].session = s PROVE FALSE
        <3>1. w \in EmbeddingSlots /\ ProjectorOf(w) = Embedding /\ Working(w)
            BY <1>1, <2>3, SlotFacts DEF StepsBySlot, WriteEmbeddings, Working, Steps
        <3>2. w = v
            BY <1>3, <1>4, <1>5, <2>3, <3>1 DEF OnePassPerSession
        <3> QED BY <1>13, <2>3, <3>2 DEF WriteEmbeddings
    <2> QED BY <1>9, <1>10, <1>12, <2>1, <2>2, <2>3 DEF DatabaseStep
<1>14. CASE PublishSet(v)
    BY <1>1, <1>3, <1>14, SearchAssumption DEF StepsBySlot, PublishSet, ReadyToPublish
<1>15. CASE DeleteFromSearch(v)
    BY <1>3, <1>5, <1>12, <1>15
<1>16. CASE WriteEmbeddings(v) /\ Serves(pass[v].session, pass[v].revision)
    <2>1. store' = [store EXCEPT !.embedded[s] = r]
        BY <1>5, <1>16 DEF WriteEmbeddings
    <2> QED BY <1>1, <2>1 DEF Database
<1> QED BY <1>4, <1>13, <1>14, <1>15, <1>16

\* A row without lag is embedded.
LEMMA NoLagEmbeddedKept ==
    ASSUME SearchInv, OnePassPerSession, OnePassInv, [Next]_vars
    PROVE  EmbeddedWhenNoLag'
<1>1. /\ RowsBounded /\ PassOK /\ ContentOK /\ ListsOK /\ StoresOK /\ DeletesTheGone /\ StepsBySlot
      /\ PassAhead /\ PassLeads /\ CompletesWhatItEmbedded /\ EmbeddedWhenNoLag /\ ContentOK'
      /\ store \in Database
    BY ContentKept DEF SearchInv, OnePassInv, StoresOK
<1>2. SUFFICES ASSUME NEW s \in Sessions, Current(Embedding, s)', content'[s].state = "ready",
                      ~content'[s].revived
               PROVE  store'.embedded[s] = ledger'[Embedding][s].completed
    BY DEF EmbeddedWhenNoLag
<1>3. Search \in Projectors /\ Embedding \in Projectors
    BY DEF Projectors
<1> DEFINE row == ledger[Embedding][s]
           next == ledger'[Embedding][s]
<1>4. /\ row.completed \in Nat /\ row.completed <= row.desired
      /\ row.desired \in Nat /\ row.desired <= commitSeq
      /\ next.desired \in Nat /\ next.completed \in Nat /\ next.completed <= next.desired
      /\ commitSeq \in Nat /\ row.desired <= next.desired
    BY <1>3, RowOfPass
<1>5. binding'[Embedding] = store'.id /\ next.completed = next.desired
    <2>1. binding'[Embedding] = store'.id /\ ~(next.desired > next.completed)
        BY <1>2 DEF Current, Lag
    <2> QED BY <1>4, <2>1
<1>6. next.desired <= commitSeq
    <2>1. ASSUME NEW w \in Slots, CompletePass(w) PROVE pass[w].revision <= commitSeq
        BY <1>1, <2>1 DEF CompletePass, ListsOK, ListsSnapshot, Working, Steps
    <2> QED BY <1>1, <1>3, <1>4, <1>5, <2>1, ProgressSteps
<1>7. /\ next.desired = row.desired /\ content[s].state = "ready"
      /\ content[s].revived => content'[s].revived
    <2>1. ledger'[Search][s].desired <= commitSeq
        BY <1>1, <1>6 DEF ContentOK
    <2> QED BY <1>1, <1>2, <1>3, <2>1, StillWanted
<1>8. ~GoneOrRevived(s)
    BY <1>2, <1>7 DEF GoneOrRevived, Gone
<1>9. next.completed # 0
    BY <1>1, <1>2, <1>4, <1>5 DEF ContentOK
<1>10. binding'[Embedding] = binding[Embedding]
    BY <1>1, <1>3, <1>9, NewBinding
<1>11. binding[Embedding] = store.id /\ ~ReplaceStore
    BY <1>3, <1>5, <1>10, SameStore
<1>12. CASE next.completed = row.completed
    <2>1. Current(Embedding, s)
        BY <1>4, <1>5, <1>7, <1>11, <1>12 DEF Current, Lag
    <2>2. store.embedded[s] = row.completed
        BY <1>1, <1>2, <1>7, <2>1 DEF EmbeddedWhenNoLag
    <2>3. CASE store'.embedded[s] = store.embedded[s]
        BY <1>12, <2>2, <2>3
    <2>4. ASSUME NEW v \in Slots, DeleteFromSearch(v), pass[v].session = s PROVE FALSE
        BY <1>1, <1>8, <2>4 DEF DeletesTheGone, DeleteFromSearch
    <2>5. ASSUME NEW w \in Slots, PublishSet(w), pass[w].session = s,
                 store'.embedded[s] = EmbeddingsAfter(s, pass[w].revision)
          PROVE  store'.embedded[s] = next.completed
        <3>1. w \in SearchSlots /\ Working(w)
            BY <1>1, <2>5 DEF StepsBySlot, PublishSet, ReadyToPublish, Working, Steps
        <3>2. row.completed <= pass[w].revision
            BY <1>1, <2>5, <3>1 DEF PassLeads
        <3>3. pass[w].revision <= ledger[Search][s].desired /\ pass[w].revision \in Nat
            BY <1>1, <2>5, <3>1, SlotFacts, PassFacts DEF PassAhead, ClaimedPass
        <3>4. ledger[Search][s].desired = row.desired
            BY <1>1 DEF ContentOK
        <3>5. pass[w].revision = row.completed
            BY <1>4, <1>5, <1>7, <1>12, <3>2, <3>3, <3>4
        <3> QED BY <1>12, <2>2, <2>5, <3>5 DEF EmbeddingsAfter
    <2>6. ASSUME NEW v \in Slots, WriteEmbeddings(v), pass[v].session = s PROVE FALSE
        <3>1. v \in EmbeddingSlots /\ Working(v)
            BY <1>1, <2>6 DEF StepsBySlot, WriteEmbeddings, Working, Steps
        <3>2. /\ row.completed < pass[v].revision /\ pass[v].revision <= row.desired
              /\ pass[v].revision \in Nat
            BY <1>1, <2>6, <3>1, SlotFacts, PassFacts DEF PassAhead, ClaimedPass
        <3> QED BY <1>4, <1>5, <1>7, <1>12, <3>2
    <2>7. DatabaseStep
        BY <1>1, ServedSteps
    <2> QED BY <1>11, <2>3, <2>4, <2>5, <2>6, <2>7 DEF DatabaseStep
<1>13. ASSUME NEW v \in Slots, CompletePass(v), ProjectorOf(v) = Embedding, pass[v].session = s,
              next.completed = pass[v].revision
       PROVE  store'.embedded[s] = next.completed
    <2>1. v \in EmbeddingSlots /\ pass[v].pc = "complete" /\ UNCHANGED store
        BY <1>13, SlotFacts DEF CompletePass
    <2>2. store.embedded[s] = pass[v].revision \/ GoneOrRevived(s)
        BY <1>1, <1>5, <1>7, <1>11, <1>13, <2>1 DEF CompletesWhatItEmbedded
    <2> QED BY <1>8, <1>13, <2>1, <2>2
<1> QED BY <1>1, <1>3, <1>9, <1>12, <1>13, ProgressSteps

\* With one pass of each projector on a session the second invariant holds at
\* first ...
LEMMA OnePassStarts == SearchInit => OnePassInv
<1> SUFFICES ASSUME SearchInit PROVE OnePassInv
    OBVIOUS
<1>1. \A w \in Slots : ~Working(w) /\ pass[w].pc = "idle"
    BY DEF SearchInit, Idle, Working, Steps
<1>2. SearchSlots \subseteq Slots /\ EmbeddingSlots \subseteq Slots
    BY DEF Slots
<1>3. \A p \in Projectors : binding[p] = None
    BY DEF SearchInit, LedgerInit
<1>4. store.id = 0 /\ 0 # None
    BY LedgerAssumption DEF SearchInit, EmptyStore
<1>5. \A s \in Sessions : ~Current(Search, s) /\ ~Current(Embedding, s)
    BY <1>3, <1>4 DEF Current, Projectors
<1> QED BY <1>1, <1>2, <1>5 DEF OnePassInv, DeletesTheGone, StepsBySlot, PassAhead, PassLeads,
        PassSeesReady, CompletesWhatItServed, CompletesWhatItEmbedded, NoLagIsServed,
        EmbeddedWhenNoLag

\* ... and for ever.
LEMMA OnePassKept ==
    SearchInv /\ OnePassPerSession /\ OnePassInv /\ [Next]_vars => OnePassInv'
BY DeletesKept, AheadKept, LeadKept, ReadyKept, CompletionServedKept, CompletionEmbeddedKept,
   NoLagServedKept, NoLagEmbeddedKept DEF OnePassInv

\* No lag means served, while no two passes of a projector are on one session, for
\* any number of sessions and of passes at work on them together, of commits,
\* removals, restarts and replaced databases: a session
\* whose search row has completed what is wanted, for the database that is there,
\* is served as it is now; or came back from retirement and is not served at all
\* (complete_projector_claim after publish_generation and delete_session).
THEOREM LaglessIsServed == Spec /\ []OnePassPerSession => []NoLagIsServed
<1>1. OnePassInv => NoLagIsServed
    BY DEF OnePassInv
<1>2. SearchInv /\ OnePassPerSession /\ OnePassInv /\ [Next]_vars => OnePassInv'
    BY OnePassKept
<1> QED BY <1>1, <1>2, SearchStarts, SearchKept, OnePassStarts, PTL DEF Spec

\* No lag means embedded, under the same condition (a batch of
\* embeddings_v2_projector.py runs its passes together), and whether or not search
\* itself has anything left to do.
THEOREM LaglessIsEmbedded == Spec /\ []OnePassPerSession => []NoLagIsEmbedded
<1>1. OnePassInv => NoLagIsEmbedded
    BY DEF OnePassInv, EmbeddedWhenNoLag, NoLagIsEmbedded
<1>2. SearchInv /\ OnePassPerSession /\ OnePassInv /\ [Next]_vars => OnePassInv'
    BY OnePassKept
<1> QED BY <1>1, <1>2, SearchStarts, SearchKept, OnePassStarts, PTL DEF Spec

-----------------------------------------------------------------------------
(* What breaks the certificate.                                            *)

\* The embedding pass removes nothing from search.
EmbeddingLeavesText == \A v \in EmbeddingSlots : ~DeleteFromSearch(v)

\* At the revision last asked for, the session holds nothing.
Empty(s) == Snapshot(s, ledger[Search][s].desired) = {}

\* Retiring and deleting a session leave nothing of it at the revision they ask for.
GoneIsEmpty ==
    \A s \in Sessions :
        /\ \A o \in content[s].objects : o.retired # None => o.retired <= commitSeq
        /\ Gone(s) => \A o \in content[s].objects :
                         o.retired # None /\ o.retired <= ledger[Search][s].desired

\* A search pass about to remove a session, on the revision still wanted, is right.
DeletesTheMissing ==
    \A w \in SearchSlots :
        pass[w].pc = "delete" /\ pass[w].revision = ledger[Search][pass[w].session].desired
        => Empty(pass[w].session)

CompletesWhatIsThere ==
    \A w \in SearchSlots :
        LET s == pass[w].session IN
        pass[w].pc = "complete" /\ binding[Search] = store.id
            /\ pass[w].revision = ledger[Search][s].desired
        => Empty(s) \/ Serves(s, pass[w].revision)

ThereWhenNoLag ==
    \A s \in Sessions :
        Current(Search, s) => Empty(s) \/ Serves(s, ledger[Search][s].desired)

CertificateInv == GoneIsEmpty /\ DeletesTheMissing /\ CompletesWhatIsThere /\ ThereWhenNoLag

\* What was retired was retired by a commit, the last one if it is of now.
LEMMA GoneEmptyKept ==
    ASSUME SearchInv, GoneIsEmpty, [Next]_vars
    PROVE  GoneIsEmpty'
<1>1. RowsBounded /\ PassOK /\ ContentOK /\ ListsOK /\ commitSeq \in Nat /\ Search \in Projectors
    BY DEF SearchInv, RowsBounded, Projectors
<1>2. SUFFICES ASSUME NEW s \in Sessions
               PROVE  /\ \A o \in content'[s].objects : o.retired # None => o.retired <= commitSeq'
                      /\ Gone(s)' => \A o \in content'[s].objects :
                                        /\ o.retired # None
                                        /\ o.retired <= ledger'[Search][s].desired
    BY DEF GoneIsEmpty
<1>3. CASE UNCHANGED <<commitSeq, content>>
    BY <1>1, <1>3, DesiredStays DEF GoneIsEmpty, Gone
<1>4. ASSUME NEW t \in Sessions, NEW gone \in SUBSET Active(t), commitSeq' = commitSeq + 1,
             content' = [content EXCEPT ![t] = content'[t]]
      PROVE  /\ s # t => /\ content'[s] = content[s]
                         /\ \A o \in content'[s].objects :
                               o.retired # None => o.retired <= commitSeq'
             /\ \A x \in Retire(content[t].objects, gone, commitSeq + 1) :
                   x.retired # None => x.retired <= commitSeq'
             /\ \A x \in Retire(content[t].objects, Active(t), commitSeq + 1) : x.retired # None
    <2>1. \A u \in Sessions : \A o \in content[u].objects :
             /\ o \in RenderObject /\ (o.retired = None \/ o.retired \in Nat)
             /\ o.retired # None => o.retired <= commitSeq
        BY <1>1 DEF ContentOK, RenderObject, GoneIsEmpty
    <2>2. s # t => content'[s] = content[s]
        BY <1>1, <1>4 DEF ContentOK
    <2>3. commitSeq + 1 # None /\ commitSeq + 1 \in Nat
        BY <1>1, LedgerAssumption
    <2>4. ASSUME NEW o \in content[t].objects
          PROVE  [o EXCEPT !.retired = commitSeq + 1].retired = commitSeq + 1
        BY <2>1 DEF RenderObject
    <2>5. \A x \in Retire(content[t].objects, gone, commitSeq + 1) :
             x.retired = commitSeq + 1 \/ x \in content[t].objects
        <3>1. \A x \in Retire(content[t].objects, gone, commitSeq + 1) :
                 \E o \in content[t].objects : x = o \/ x = [o EXCEPT !.retired = commitSeq + 1]
            BY DEF Retire
        <3>2. SUFFICES ASSUME NEW x \in Retire(content[t].objects, gone, commitSeq + 1)
                       PROVE  x.retired = commitSeq + 1 \/ x \in content[t].objects
            OBVIOUS
        <3>3. PICK o \in content[t].objects : x = o \/ x = [o EXCEPT !.retired = commitSeq + 1]
            BY <3>1
        <3>4. [o EXCEPT !.retired = commitSeq + 1].retired = commitSeq + 1
            BY <2>4
        <3> DEFINE late == [o EXCEPT !.retired = commitSeq + 1]
        <3>5. late.retired = commitSeq + 1 /\ (x = o \/ x = late)
            BY <3>3, <3>4
        <3> HIDE DEF late
        <3> QED BY <3>5
    <2>6. \A x \in Retire(content[t].objects, Active(t), commitSeq + 1) : x.retired # None
        BY <2>3, <2>4 DEF Retire, Active
    <2> QED BY <1>1, <1>4, <2>1, <2>2, <2>3, <2>5, <2>6
<1>5. CASE CatalogWrite
    <2> DEFINE new == [id |-> commitSeq + 1, retired |-> None]
    <2>1. PICK t, gone :
              /\ t \in Sessions /\ gone \in SUBSET Active(t)
              /\ commitSeq' = commitSeq + 1
              /\ content' = [content EXCEPT ![t] = content'[t]]
              /\ \/ /\ content'[t].state = "ready"
                    /\ content'[t].objects = Retire(content[t].objects, gone, commitSeq + 1)
                                                 \cup {new}
                 \/ /\ gone = Active(t)
                    /\ content'[t].objects = Retire(content[t].objects, gone, commitSeq + 1)
              /\ ledger'[Search][t].desired = commitSeq + 1
              /\ \A u \in Sessions \ {t} : ledger'[Search][u] = ledger[Search][u]
        BY <1>1, <1>5, WriteFacts DEF Written
    <2>2. new.retired = None
        OBVIOUS
    <2> HIDE DEF new
    <2>3. CASE s # t
        BY <1>4, <2>1, <2>3 DEF GoneIsEmpty, Gone
    <2>4. CASE s = t /\ content'[t].state = "ready"
        <3>1. ~Gone(s)'
            BY <2>4 DEF Gone
        <3>2. content'[t].objects \subseteq Retire(content[t].objects, gone, commitSeq + 1) \cup {new}
            BY <2>1
        <3> QED BY <1>4, <2>1, <2>2, <2>4, <3>1, <3>2
    <2>5. CASE s = t /\ content'[t].state # "ready"
        BY <1>4, <2>1, <2>5
    <2> QED BY <2>3, <2>4, <2>5
<1>6. CASE UntoldWrite
    <2>1. PICK t, gone :
              /\ t \in Sessions /\ gone \in SUBSET Active(t)
              /\ commitSeq' = commitSeq + 1
              /\ content' = [content EXCEPT ![t] = content'[t]]
              /\ content'[t].state \in {"absent", "ready"}
              /\ content'[t].objects = Retire(content[t].objects, gone, commitSeq + 1)
              /\ UNCHANGED ledger
        BY <1>1, <1>6, UntoldFacts DEF WrittenUntold
    <2>2. CASE s # t
        BY <1>4, <2>1, <2>2 DEF GoneIsEmpty, Gone
    <2>3. CASE s = t
        <3>1. ~Gone(s)'
            BY <2>1, <2>3 DEF Gone
        <3> QED BY <1>4, <2>1, <2>3, <3>1
    <2> QED BY <2>2, <2>3
<1> QED BY <1>3, <1>5, <1>6, ContentSteps

LEMMA EmptyFacts ==
    ASSUME SearchInv, GoneIsEmpty, [Next]_vars, NEW s \in Sessions
    PROVE  /\ Gone(s) => Empty(s)
           /\ ledger[Search][s].desired = 0 => Empty(s)
           /\ ledger'[Search][s].desired = ledger[Search][s].desired /\ Empty(s) => Empty(s)'
<1>1. /\ RowsBounded /\ ContentOK /\ Search \in Projectors
    BY DEF SearchInv, Projectors
<1>2. PICK d \in Nat : d = ledger[Search][s].desired /\ d <= commitSeq
    BY <1>1, RowOfPass
<1>3. ASSUME Gone(s) PROVE Snapshot(s, d) = {}
    <2>1. \A o \in content[s].objects : o.retired # None /\ o.retired <= d /\ o.retired \in Nat
        BY <1>1, <1>2, <1>3 DEF GoneIsEmpty, ContentOK
    <2>2. \A o \in content[s].objects : ~(o.retired = None \/ o.retired > d)
        BY <2>1
    <2> QED BY <2>2 DEF Snapshot
<1>4. ASSUME d = 0 PROVE Snapshot(s, d) = {}
    <2>1. \A k \in Snapshot(s, d) : k \in Nat /\ 0 < k /\ k <= d
        BY <1>1, SnapshotFacts
    <2> QED BY <1>4, <2>1
<1>5. Snapshot(s, d)' = Snapshot(s, d)
    BY <1>1, <1>2, SnapshotStays
<1>6. ledger'[Search][s].desired = d => (Empty(s)' <=> Snapshot(s, d)' = {})
    BY DEF Empty, Snapshot
<1> QED BY <1>2, <1>3, <1>4, <1>5, <1>6 DEF Empty

\* Once the session is written again the pass is on an old revision, or nobody
\* was told of anything.
LEMMA MissingKept ==
    ASSUME SearchInv, GoneIsEmpty, DeletesTheMissing, [Next]_vars
    PROVE  DeletesTheMissing'
<1>1. RowsBounded /\ PassOK /\ ContentOK /\ ListsOK
    BY DEF SearchInv
<1>2. SUFFICES ASSUME NEW w \in SearchSlots, pass'[w].pc = "delete",
                      pass'[w].revision = ledger'[Search][pass'[w].session].desired
               PROVE  Empty(pass[w].session)'
    BY DEF DeletesTheMissing
<1>3. w \in Slots /\ CameFrom(w) /\ Search \in Projectors
    BY <1>1, <1>2, PassOrigin, SlotFacts DEF Slots, Working, Steps
<1>4. /\ Working(w) /\ pass'[w].session = pass[w].session /\ pass'[w].revision = pass[w].revision
      /\ pass[w].pc = "delete" \/ Gone(pass[w].session)
    BY <1>2, <1>3 DEF CameFrom
<1>5. PICK s \in Sessions, r \in Nat : s = pass[w].session /\ r = pass[w].revision
    BY <1>1, <1>3, <1>4, PassFacts DEF ClaimedPass
<1>6. r <= commitSeq
    BY <1>1, <1>3, <1>4, <1>5 DEF ListsOK, ListsSnapshot
<1>7. r = ledger[Search][s].desired /\ ledger'[Search][s].desired = ledger[Search][s].desired
    BY <1>1, <1>2, <1>3, <1>4, <1>5, <1>6, StillWanted
<1>8. Empty(s)
    BY <1>4, <1>5, <1>7, EmptyFacts DEF DeletesTheMissing
<1>9. Empty(s)'
    BY <1>7, <1>8, EmptyFacts
<1> QED BY <1>4, <1>5, <1>9 DEF Empty, Snapshot

\* What one step of the database leaves of a session that is served.
LEMMA ServedStays ==
    ASSUME SearchInv, OnePassInv, [Next]_vars, EmbeddingLeavesText, ~ReplaceStore,
           NEW s \in Sessions, NEW r, Serves(s, r),
           \A w \in SearchSlots : ~(PublishSet(w) \/ DeleteFromSearch(w)) \/ pass[w].session # s
    PROVE  Serves(s, r)'
<1>1. DatabaseStep /\ StepsBySlot
    BY ServedSteps DEF SearchInv, OnePassInv
<1>2. \A w \in Slots : PublishSet(w) => w \in SearchSlots
    BY <1>1 DEF StepsBySlot, PublishSet, ReadyToPublish
<1>3. store'.published[s] = store.published[s]
    BY <1>1, <1>2 DEF DatabaseStep, EmbeddingLeavesText, Slots
<1> QED BY <1>3 DEF Serves

\* What was just published is served.
LEMMA PublishServes ==
    ASSUME SearchInv, NEW w \in Slots, Working(w), PublishSet(w)
    PROVE  store'.published[pass[w].session] # None
           /\ store'.published[pass[w].session].revision = pass[w].revision
<1>1. store \in Database /\ PassOK
    BY DEF SearchInv, StoresOK
<1>2. PICK s \in Sessions, r \in Nat : s = pass[w].session /\ r = pass[w].revision
    BY <1>1, PassFacts DEF ClaimedPass
<1>3. store' = [store EXCEPT
                   !.published[s] = [revision |-> r, objects |-> MembersAt(s, r)],
                   !.members[s] = {m \in store.members[s] : m[1] = r},
                   !.indexed[s] = MembersAt(s, r), !.embedded[s] = EmbeddingsAfter(s, r)]
    BY <1>2 DEF PublishSet, Publish
<1>4. store'.published[s] = [revision |-> r, objects |-> MembersAt(s, r)]
    BY <1>1, <1>3 DEF Database
<1>5. MembersAt(s, r) \in SUBSET Nat
    BY <1>1 DEF MembersAt, Database
<1>6. [revision |-> r, objects |-> MembersAt(s, r)] # None
    BY <1>5, SearchAssumption
<1> QED BY <1>2, <1>4, <1>6

\* A search pass completes what is there.
LEMMA ThereKept ==
    ASSUME SearchInv, OnePassPerSession, OnePassInv, CertificateInv, [Next]_vars, EmbeddingLeavesText
    PROVE  CompletesWhatIsThere'
<1>1. /\ RowsBounded /\ PassOK /\ ContentOK /\ ListsOK /\ StepsBySlot /\ store \in Database
      /\ GoneIsEmpty /\ DeletesTheMissing /\ CompletesWhatIsThere
    BY DEF SearchInv, OnePassInv, StoresOK, CertificateInv
<1>2. SUFFICES ASSUME NEW w \in SearchSlots, pass'[w].pc = "complete",
                      binding'[Search] = store'.id,
                      pass'[w].revision = ledger'[Search][pass'[w].session].desired
               PROVE  (Empty(pass[w].session) \/ Serves(pass[w].session, pass[w].revision))'
    BY DEF CompletesWhatIsThere
<1>3. w \in Slots /\ ProjectorOf(w) = Search /\ CameFrom(w) /\ Search \in Projectors
    BY <1>1, <1>2, PassOrigin, SlotFacts DEF Slots, Working, Steps
<1>4. /\ Working(w) /\ pass'[w].session = pass[w].session /\ pass'[w].revision = pass[w].revision
      /\ \/ pass[w].pc = "complete"
         \/ PublishSet(w) \/ DeleteFromSearch(w)
         \/ WriteEmbeddings(w) /\ Serves(pass[w].session, pass[w].revision)
    BY <1>2, <1>3 DEF CameFrom
<1>5. PICK s \in Sessions, r \in Nat : s = pass[w].session /\ r = pass[w].revision
    BY <1>1, <1>3, <1>4, PassFacts DEF ClaimedPass
<1>6. r <= commitSeq
    BY <1>1, <1>3, <1>4, <1>5 DEF ListsOK, ListsSnapshot
<1>7. r = ledger[Search][s].desired /\ ledger'[Search][s].desired = ledger[Search][s].desired
    BY <1>1, <1>2, <1>3, <1>4, <1>5, <1>6, StillWanted
<1>8. binding[Search] = store.id /\ ~ReplaceStore
    BY <1>2, <1>3, <1>4, NoBindWhileWorking, SameStore
<1>9. Empty(s) => Empty(s)'
    BY <1>1, <1>7, EmptyFacts
<1>10. SUFFICES Empty(s) \/ Serves(s, r)'
    BY <1>4, <1>5, <1>9 DEF Empty, Snapshot, Serves
<1>11. CASE pass[w].pc = "complete"
    <2>1. Empty(s) \/ Serves(s, r)
        BY <1>1, <1>2, <1>5, <1>7, <1>8, <1>11 DEF CompletesWhatIsThere
    <2>2. \A v \in SearchSlots : ~(PublishSet(v) \/ DeleteFromSearch(v)) \/ pass[v].session # s
        <3> SUFFICES ASSUME NEW v \in SearchSlots, PublishSet(v) \/ DeleteFromSearch(v),
                            pass[v].session = s
                     PROVE  FALSE
            OBVIOUS
        <3>1. v \in Slots /\ ProjectorOf(v) = Search
            BY SlotFacts DEF Slots
        <3>2. pass[v].pc \in {"index", "delete"}
            BY DEF PublishSet, ReadyToPublish, DeleteFromSearch
        <3>3. v = w
            BY <1>3, <1>4, <1>5, <3>1, <3>2 DEF OnePassPerSession, Working, Steps
        <3> QED BY <1>11, <3>2, <3>3
    <2> QED BY <1>8, <2>1, <2>2, ServedStays
<1>12. CASE PublishSet(w)
    BY <1>3, <1>4, <1>5, <1>12, PublishServes DEF Serves
<1>13. CASE DeleteFromSearch(w)
    BY <1>1, <1>5, <1>7, <1>13 DEF DeletesTheMissing, DeleteFromSearch
<1>14. CASE WriteEmbeddings(w)
    BY <1>1, <1>3, <1>14, SearchAssumption DEF StepsBySlot, WriteEmbeddings
<1> QED BY <1>4, <1>11, <1>12, <1>13, <1>14

\* A row without lag is there, or there is nothing of it.
LEMMA NoLagThereKept ==
    ASSUME SearchInv, OnePassPerSession, OnePassInv, CertificateInv, [Next]_vars, EmbeddingLeavesText
    PROVE  ThereWhenNoLag'
<1>1. /\ RowsBounded /\ PassOK /\ ContentOK /\ ListsOK /\ StepsBySlot /\ PassAhead
      /\ GoneIsEmpty /\ DeletesTheMissing /\ CompletesWhatIsThere /\ ThereWhenNoLag
    BY DEF SearchInv, OnePassInv, CertificateInv
<1>2. SUFFICES ASSUME NEW s \in Sessions, Current(Search, s)'
               PROVE  (Empty(s) \/ Serves(s, ledger[Search][s].desired))'
    BY DEF ThereWhenNoLag
<1>3. Search \in Projectors
    BY DEF Projectors
<1> DEFINE row == ledger[Search][s]
           next == ledger'[Search][s]
<1>4. /\ row.completed \in Nat /\ row.completed <= row.desired
      /\ row.desired \in Nat /\ row.desired <= commitSeq
      /\ next.desired \in Nat /\ next.completed \in Nat /\ next.completed <= next.desired
      /\ commitSeq \in Nat /\ row.desired <= next.desired
    BY <1>3, RowOfPass
<1>5. binding'[Search] = store'.id /\ next.completed = next.desired
    <2>1. binding'[Search] = store'.id /\ ~(next.desired > next.completed)
        BY <1>2 DEF Current, Lag
    <2> QED BY <1>4, <2>1
<1>6. next.desired <= commitSeq
    <2>1. ASSUME NEW w \in Slots, CompletePass(w) PROVE pass[w].revision <= commitSeq
        BY <1>1, <2>1 DEF CompletePass, ListsOK, ListsSnapshot, Working, Steps
    <2> QED BY <1>1, <1>2, <1>3, <1>4, <1>5, <2>1, ProgressSteps
<1>7. next.desired = row.desired /\ (Empty(s) => Empty(s)')
    BY <1>1, <1>3, <1>6, StillWanted, EmptyFacts
<1> SUFFICES ASSUME next.desired # 0
             PROVE  (Empty(s) \/ Serves(s, ledger[Search][s].desired))'
    BY <1>1, <1>7, EmptyFacts
<1>8. next.completed # 0 /\ binding'[Search] = binding[Search]
    BY <1>1, <1>2, <1>3, <1>5, NewBinding
<1>9. binding[Search] = store.id /\ ~ReplaceStore
    BY <1>3, <1>5, <1>8, SameStore
<1>10. PICK d \in Nat : d = row.desired
    BY <1>4
<1> SUFFICES Empty(s) \/ Serves(s, d)'
    BY <1>7, <1>10 DEF Serves
<1>11. CASE next.completed = row.completed
    <2>1. Empty(s) \/ Serves(s, d)
        BY <1>1, <1>2, <1>4, <1>5, <1>7, <1>9, <1>10, <1>11 DEF Current, Lag, ThereWhenNoLag
    <2>2. ASSUME NEW v \in SearchSlots, PublishSet(v) \/ DeleteFromSearch(v),
                 pass[v].session = s
          PROVE  FALSE
        <3>1. v \in Slots /\ Working(v)
            BY <2>2 DEF Slots, PublishSet, ReadyToPublish, DeleteFromSearch, Working, Steps
        <3>2. row.completed < pass[v].revision /\ pass[v].revision <= row.desired
            BY <1>1, <2>2, <3>1, SlotFacts DEF PassAhead
        <3>3. pass[v].revision \in Nat
            BY <1>1, <3>1, PassFacts DEF ClaimedPass
        <3> QED BY <1>4, <1>5, <1>7, <1>11, <3>2, <3>3
    <2> QED BY <1>9, <2>1, <2>2, ServedStays
<1>12. ASSUME NEW w \in Slots, CompletePass(w), ProjectorOf(w) = Search, pass[w].session = s,
              next.completed = pass[w].revision
       PROVE  Empty(s) \/ Serves(s, d)'
    <2>1. w \in SearchSlots /\ pass[w].pc = "complete" /\ UNCHANGED store
        BY <1>12, SlotFacts DEF CompletePass
    <2>2. Empty(s) \/ Serves(s, d)
        BY <1>1, <1>5, <1>7, <1>9, <1>10, <1>12, <2>1 DEF CompletesWhatIsThere
    <2> QED BY <2>1, <2>2 DEF Serves
<1> QED BY <1>1, <1>3, <1>8, <1>11, <1>12, ProgressSteps

\* "A search row is the durable certificate that this session has entered the
\* served corpus" (ensure_known_projector_states) fails for one reason only: with
\* one pass of each projector on a session, and embedding passes that never send
\* search.session.delete.v2, the comment is true of every session, those that came
\* back from retirement included.
THEOREM OnlyEmbeddingBreaksIt ==
    Spec /\ []OnePassPerSession /\ [][EmbeddingLeavesText]_vars => []SearchRowIsCertificate
<1>1. SearchInit => CertificateInv
    <2> SUFFICES ASSUME SearchInit PROVE CertificateInv
        OBVIOUS
    <2>1. \A w \in SearchSlots : pass[w].pc = "idle"
        BY DEF SearchInit, Idle, Slots
    <2>2. \A s \in Sessions : content[s].objects = {}
        BY DEF SearchInit, LedgerInit
    <2> QED BY <2>1, <2>2 DEF CertificateInv, GoneIsEmpty, DeletesTheMissing,
                              CompletesWhatIsThere, ThereWhenNoLag, Empty, Snapshot
<1>2. SearchInv /\ OnePassPerSession /\ OnePassInv /\ CertificateInv
          /\ [Next]_vars /\ [EmbeddingLeavesText]_vars
      => CertificateInv'
    <2> SUFFICES ASSUME SearchInv, OnePassPerSession, OnePassInv, CertificateInv, [Next]_vars,
                        [EmbeddingLeavesText]_vars
                 PROVE  CertificateInv'
        OBVIOUS
    <2>1. CASE EmbeddingLeavesText
        BY <2>1, GoneEmptyKept, MissingKept, ThereKept, NoLagThereKept DEF CertificateInv
    <2>2. CASE UNCHANGED vars
        BY <2>2 DEF vars, ledgerVars, searchVars, CertificateInv, GoneIsEmpty, DeletesTheMissing,
            CompletesWhatIsThere, ThereWhenNoLag, Current, Lag, Gone, Serves, Empty, Snapshot
    <2> QED BY <2>1, <2>2
<1>3. SearchInv /\ OnePassInv /\ CertificateInv => SearchRowIsCertificate
    <2> SUFFICES ASSUME SearchInv, OnePassInv, CertificateInv, NEW s \in Sessions,
                        Current(Search, s)
                 PROVE  Served(s) = Expected(s)
        BY DEF SearchRowIsCertificate
    <2>1. Served(s) = Expected(s) \/ Served(s) = {}
        BY DEF OnePassInv, NoLagIsServed
    <2>2. CASE Gone(s)
        BY <2>1, <2>2 DEF Expected
    <2>3. CASE ~Gone(s) /\ Empty(s)
        BY <2>1, <2>3 DEF Expected, Empty
    <2>4. CASE ~Gone(s) /\ Serves(s, ledger[Search][s].desired)
        BY <2>4 DEF Serves, Served, Expected, SearchInv, ServedOK
    <2> QED BY <2>2, <2>3, <2>4 DEF CertificateInv, ThereWhenNoLag
<1>4. SearchInv /\ OnePassPerSession /\ OnePassInv /\ [Next]_vars => OnePassInv'
    BY OnePassKept
<1> QED BY <1>1, <1>2, <1>3, <1>4, SearchStarts, SearchKept, OnePassStarts, PTL DEF Spec
=============================================================================

-------------------------- MODULE SearchProjection --------------------------
(***************************************************************************)
(* The workers that project sessions into searchd, and searchd's database. *)
(* A pass (_run_claim of search_v2_projector.py and                        *)
(* embeddings_v2_projector.py) works on one claimed session; its steps are *)
(* its calls to catalogd and searchd, so whatever it read may be out of    *)
(* date by its next call.  A slot runs one pass at a time: one slot per    *)
(* worker, and more where workers are added or a failed gather leaves      *)
(* passes behind.  The Claude-only semantic projector, render generations  *)
(* after the first and the text of episodes are left out.                  *)
(***************************************************************************)
EXTENDS ProjectorLedger

CONSTANTS
    SearchSlots, EmbeddingSlots,
    PageSize,       \* render objects in a page of the listing
    MaxCommits, MaxRemovals, MaxFaults

Slots == SearchSlots \cup EmbeddingSlots

\* There are always tokens left: they are uuid4, and here as many as slots and
\* ledger rows can hold, and one.
ASSUME SearchAssumption ==
    /\ PageSize \in Nat \ {0}
    /\ MaxCommits \in Nat /\ MaxRemovals \in Nat /\ MaxFaults \in Nat
    /\ Stores = 0 .. MaxFaults
    /\ SearchSlots \cap EmbeddingSlots = {}
    /\ IsFiniteSet(Slots) /\ IsFiniteSet(Sessions) /\ IsFiniteSet(Tokens)
    /\ Cardinality(Tokens) > Cardinality(Slots) + 2 * Cardinality(Sessions)
    /\ None \notin [revision : Nat, objects : SUBSET Nat]

VARIABLES
    pass,           \* what each slot is doing
    bound,          \* _bound_store_id of each projector object
    store,          \* searchd's database
    budget          \* environment events left of each kind

searchVars == <<pass, bound, store, budget>>
vars == <<ledgerVars, searchVars>>

ProjectorOf(w) == IF w \in SearchSlots THEN Search ELSE Embedding

Idle == [pc |-> "idle"]

Become(w, state) == pass' = [pass EXCEPT ![w] = state]

EmptyStore(id) == [id        |-> id,
                   indexed   |-> [s \in Sessions |-> {}],
                   members   |-> [s \in Sessions |-> {}],
                   published |-> [s \in Sessions |-> None],
                   embedded  |-> [s \in Sessions |-> None]]

SearchInit ==
    /\ LedgerInit
    /\ pass = [w \in Slots |-> Idle]
    /\ bound = [p \in Projectors |-> None]
    /\ store = EmptyStore(0)
    /\ budget = [commits |-> MaxCommits, removals |-> MaxRemovals, faults |-> MaxFaults]

-----------------------------------------------------------------------------
(* searchd: each operation is one transaction of its single writer.        *)

\* index_object, and reuse_indexed_objects for objects that are there already.
Index(s, revision, objects) ==
    store' = [store EXCEPT !.indexed[s] = @ \cup objects,
                           !.members[s] = @ \cup {<<revision, o>> : o \in objects}]

MembersAt(s, revision) == {m[2] : m \in {x \in store.members[s] : x[1] = revision}}

\* Mutant: the worker's word is enough.
CoversAny(s, revision, objects) == TRUE

\* publish_generation: what is indexed for the revision is exactly the set named.
Covers(s, revision, objects) == MembersAt(s, revision) = objects

\* Mutant: publishing leaves the embeddings of another revision in place.
KeptEmbeddings(s, revision) == store.embedded[s]

\* publish_generation deletes the embedding publication of any other revision.
EmbeddingsAfter(s, revision) ==
    IF store.embedded[s] = revision THEN revision ELSE None

Publish(s, revision) ==
    store' = [store EXCEPT
        !.published[s] = [revision |-> revision, objects |-> MembersAt(s, revision)],
        !.members[s] = {m \in @ : m[1] = revision},
        !.indexed[s] = MembersAt(s, revision),
        !.embedded[s] = EmbeddingsAfter(s, revision)]

\* delete_session
Forget(s) ==
    store' = [store EXCEPT !.indexed[s] = {}, !.members[s] = {}, !.published[s] = None,
                           !.embedded[s] = None]

\* The fence of read_embedding_source and write_episode_embeddings.
Serves(s, revision) ==
    store.published[s] # None /\ store.published[s].revision = revision

-----------------------------------------------------------------------------
(* run_once: bind the store, claim.                                        *)

\* _ensure_store_binding asks searchd who it is; a known answer ends it.
Ping(w) ==
    /\ pass[w].pc = "idle"
    /\ Become(w, IF store.id = bound[ProjectorOf(w)] THEN [pc |-> "claim"]
                 ELSE [pc |-> "bind", store |-> store.id])
    /\ UNCHANGED <<ledgerVars, bound, store, budget>>

Bind(w) ==
    LET p == ProjectorOf(w) IN
    /\ pass[w].pc = "bind"
    /\ IF binding[p] = pass[w].store THEN UNCHANGED ledgerVars ELSE BindStore(p, pass[w].store)
    /\ bound' = [bound EXCEPT ![p] = pass[w].store]
    /\ Become(w, [pc |-> "claim"])
    /\ UNCHANGED <<store, budget>>

TokensInUse ==
    {pass[w].token : w \in {x \in Slots : "token" \in DOMAIN pass[x]}}
    \cup {ledger[p][s].token : p \in Projectors, s \in Sessions}

FreshToken == CHOOSE t \in Tokens : t \notin TokensInUse

StartPass(s, revision, token) ==
    [pc |-> "list", session |-> s, revision |-> revision, token |-> token, seen |-> {}, todo |-> {},
     more |-> TRUE]

ClaimRow(w, s) ==
    LET p == ProjectorOf(w) IN
    /\ pass[w].pc = "claim"
    /\ Claim(p, s, FreshToken)
    /\ Become(w, StartPass(s, ClaimRevision(p, s), FreshToken))
    /\ UNCHANGED <<bound, store, budget>>

\* The claim is made and its reply is lost: the lease has no pass.
ClaimReplyLost(w, s) ==
    /\ pass[w].pc = "claim"
    /\ budget.faults > 0
    /\ Claim(ProjectorOf(w), s, FreshToken)
    /\ Become(w, Idle)
    /\ budget' = [budget EXCEPT !.faults = @ - 1]
    /\ UNCHANGED <<bound, store>>

ClaimNothing(w) ==
    /\ pass[w].pc = "claim"
    /\ \A s \in Sessions : ~Eligible(ProjectorOf(w), s)
    /\ Become(w, Idle)
    /\ UNCHANGED <<ledgerVars, bound, store, budget>>

-----------------------------------------------------------------------------
(* _project                                                                *)

Gone(s) == content[s].state \in {"deleted", "retired"}

Smallest(set, n) == {o \in set : Cardinality({x \in set : x <= o}) <= n}

\* What the listing has left for a pass: the objects after the last it was given.
Unlisted(w) ==
    {o \in Snapshot(pass[w].session, pass[w].revision) : \A x \in pass[w].seen : x < o}

\* list_storage_session_render_objects at the claimed revision; whether the
\* session is deleted or retired is read as it is now.
ListPage(w) ==
    LET page == Smallest(Unlisted(w), PageSize) IN
    /\ w \in SearchSlots
    /\ pass[w].pc = "list" \/ (pass[w].pc = "index" /\ pass[w].todo = {} /\ pass[w].more)
    /\ Become(w, IF Gone(pass[w].session) THEN [pass[w] EXCEPT !.pc = "delete"]
                 ELSE [pass[w] EXCEPT !.pc = "reuse", !.todo = page,
                                      !.more = Unlisted(w) # page])
    /\ UNCHANGED <<ledgerVars, bound, store, budget>>

\* reuse_indexed_objects for the page; the rest is decoded and indexed.
Reuse(w) ==
    LET known == pass[w].todo \cap store.indexed[pass[w].session] IN
    /\ pass[w].pc = "reuse"
    /\ Index(pass[w].session, pass[w].revision, known)
    /\ Become(w, [pass[w] EXCEPT !.pc = "index", !.todo = @ \ known, !.seen = @ \cup known])
    /\ UNCHANGED <<ledgerVars, bound, budget>>

IndexObject(w) ==
    /\ pass[w].pc = "index"
    /\ \E o \in Smallest(pass[w].todo, 1) :
          /\ Index(pass[w].session, pass[w].revision, {o})
          /\ Become(w, [pass[w] EXCEPT !.todo = @ \ {o}, !.seen = @ \cup {o}])
    /\ UNCHANGED <<ledgerVars, bound, budget>>

\* The last page is indexed; nothing is read again before the publication.
ReadyToPublish(w) == pass[w].pc = "index" /\ pass[w].todo = {} /\ ~pass[w].more

PublishSet(w) ==
    /\ ReadyToPublish(w)
    /\ Covers(pass[w].session, pass[w].revision, pass[w].seen)
    /\ Publish(pass[w].session, pass[w].revision)
    /\ Become(w, [pass[w] EXCEPT !.pc = "complete"])
    /\ UNCHANGED <<ledgerVars, bound, budget>>

\* searchd does not hold what the worker indexed: the pass fails.
PublishLags(w) ==
    /\ ReadyToPublish(w)
    /\ ~Covers(pass[w].session, pass[w].revision, pass[w].seen)
    /\ Become(w, [pass[w] EXCEPT !.pc = "fail"])
    /\ UNCHANGED <<ledgerVars, bound, store, budget>>

\* search.session.delete.v2, sent for a session that was deleted or retired when
\* the pass last asked.
DeleteFromSearch(w) ==
    /\ pass[w].pc = "delete"
    /\ Forget(pass[w].session)
    /\ Become(w, [pass[w] EXCEPT !.pc = "complete"])
    /\ UNCHANGED <<ledgerVars, bound, budget>>

\* The embedding pass asks for the session's state first, ...
ListForEmbedding(w) ==
    /\ w \in EmbeddingSlots
    /\ pass[w].pc = "list"
    /\ Become(w, [pass[w] EXCEPT !.pc = IF Gone(pass[w].session) THEN "delete" ELSE "source"])
    /\ UNCHANGED <<ledgerVars, bound, store, budget>>

\* ... reads the published text, ...
ReadSource(w) ==
    /\ pass[w].pc = "source"
    /\ Become(w, [pass[w] EXCEPT !.pc = IF Serves(pass[w].session, pass[w].revision)
                                          THEN "embed" ELSE "fail"])
    /\ UNCHANGED <<ledgerVars, bound, store, budget>>

\* ... and writes its vectors, the last batch as the revision's publication.
WriteEmbeddings(w) ==
    /\ pass[w].pc = "embed"
    /\ IF Serves(pass[w].session, pass[w].revision)
         THEN /\ store' = [store EXCEPT !.embedded[pass[w].session] = pass[w].revision]
              /\ Become(w, [pass[w] EXCEPT !.pc = "complete"])
         ELSE /\ Become(w, [pass[w] EXCEPT !.pc = "fail"])
              /\ UNCHANGED store
    /\ UNCHANGED <<ledgerVars, bound, budget>>

-----------------------------------------------------------------------------
(* The end of a pass.                                                      *)

CompletePass(w) ==
    LET p == ProjectorOf(w) IN
    /\ pass[w].pc = "complete"
    /\ Complete(p, pass[w].session, pass[w].token, pass[w].revision)
    /\ Become(w, Idle)
    /\ UNCHANGED <<bound, store, budget>>

\* The claim was cancelled meanwhile: the completion and the failure that is
\* reported instead are both refused.
CompletionRefused(w) ==
    /\ pass[w].pc = "complete"
    /\ ~HoldsClaim(ProjectorOf(w), pass[w].session, pass[w].token, pass[w].revision)
    /\ Become(w, Idle)
    /\ UNCHANGED <<ledgerVars, bound, store, budget>>

FailPass(w) ==
    LET p == ProjectorOf(w) s == pass[w].session IN
    /\ pass[w].pc = "fail"
    /\ IF ledger[p][s].token = pass[w].token THEN Fail(p, s, pass[w].token)
       ELSE UNCHANGED ledgerVars
    /\ Become(w, Idle)
    /\ UNCHANGED <<bound, store, budget>>

\* A call fails, or embedding stops at its chunk limit.
StepFails(w) ==
    /\ pass[w].pc \in {"list", "reuse", "index", "delete", "source", "embed", "complete"}
    /\ budget.faults > 0
    /\ Become(w, [pass[w] EXCEPT !.pc = "fail"])
    /\ budget' = [budget EXCEPT !.faults = @ - 1]
    /\ UNCHANGED <<ledgerVars, bound, store>>

\* The failure report itself fails: the claim is left to its lease.
FailureReportLost(w) ==
    /\ pass[w].pc = "fail"
    /\ budget.faults > 0
    /\ Become(w, Idle)
    /\ budget' = [budget EXCEPT !.faults = @ - 1]
    /\ UNCHANGED <<ledgerVars, bound, store>>

-----------------------------------------------------------------------------
(* The environment.                                                        *)

\* The Runtime Host is replaced: passes die, catalogd starts again and releases
\* the claims of workers of another boot.
RestartHost ==
    /\ budget.faults > 0
    /\ ReleaseClaims
    /\ pass' = [w \in Slots |-> Idle]
    /\ bound' = [p \in Projectors |-> None]
    /\ budget' = [budget EXCEPT !.faults = @ - 1]
    /\ UNCHANGED store

\* search.db is lost or rebuilt for another schema: an empty database with a
\* store id of its own.
ReplaceStore ==
    /\ budget.faults > 0
    /\ store' = EmptyStore(store.id + 1)
    /\ budget' = [budget EXCEPT !.faults = @ - 1]
    /\ UNCHANGED <<ledgerVars, pass, bound>>

Commit(s, replaced) ==
    /\ budget.commits > 0
    /\ CommitObject(s, replaced) \/ CommitUnrendered(s, replaced)
    /\ budget' = [budget EXCEPT !.commits = @ - 1]
    /\ UNCHANGED <<pass, bound, store>>

RetireOne(s) ==
    /\ budget.removals > 0
    /\ RetireSession(s)
    /\ budget' = [budget EXCEPT !.removals = @ - 1]
    /\ UNCHANGED <<pass, bound, store>>

DeleteOne(s) ==
    /\ budget.removals > 0
    /\ DeleteStorageSession(s)
    /\ budget' = [budget EXCEPT !.removals = @ - 1]
    /\ UNCHANGED <<pass, bound, store>>

RequeueOne(p, s) ==
    /\ budget.faults > 0
    /\ Requeue(p, s)
    /\ budget' = [budget EXCEPT !.faults = @ - 1]
    /\ UNCHANGED <<pass, bound, store>>

TimePasses(p, s) ==
    /\ LeaseExpires(p, s) \/ RetryDue(p, s)
    /\ UNCHANGED searchVars

-----------------------------------------------------------------------------
RunOnce(w) ==
    \/ Ping(w) \/ Bind(w) \/ ClaimNothing(w)
    \/ \E s \in Sessions : ClaimRow(w, s)
    \/ ListPage(w) \/ Reuse(w) \/ IndexObject(w)
    \/ PublishSet(w) \/ PublishLags(w) \/ DeleteFromSearch(w)
    \/ ListForEmbedding(w) \/ ReadSource(w) \/ WriteEmbeddings(w)
    \/ CompletePass(w) \/ CompletionRefused(w) \/ FailPass(w)

Environment ==
    \/ \E w \in Slots : \/ StepFails(w) \/ FailureReportLost(w)
                        \/ \E s \in Sessions : ClaimReplyLost(w, s)
    \/ \E s \in Sessions :
          \/ \E replaced \in SUBSET Active(s) : Commit(s, replaced)
          \/ RetireOne(s) \/ DeleteOne(s)
          \/ \E p \in Projectors : RequeueOne(p, s)
    \/ RestartHost \/ ReplaceStore

Next ==
    \/ \E w \in Slots : RunOnce(w)
    \/ \E p \in Projectors, s \in Sessions : TimePasses(p, s)
    \/ Environment

Spec == SearchInit /\ [][Next]_vars

\* Worker loops run for ever and every call ends; clocks move on.
FairSpec ==
    /\ Spec
    /\ \A w \in Slots : WF_vars(RunOnce(w))
    /\ \A p \in Projectors, s \in Sessions : WF_vars(TimePasses(p, s))

-----------------------------------------------------------------------------
(* What search promises.                                                   *)

\* What a query can find of a session.
Served(s) == IF store.published[s] = None THEN {} ELSE store.published[s].objects

\* What it should find once everything asked for is projected.
Expected(s) == IF Gone(s) THEN {} ELSE Snapshot(s, ledger[Search][s].desired)

\* The ledger is about this database, and shows nothing left to do.
Current(p, s) == binding[p] = store.id /\ ~Lag(p, s)

\* Search never serves a mixture: what it serves of a session is exactly what
\* the session held at one revision, however passes, deletions, retries and
\* replaced databases interleave (publish_generation's check of the object set).
ServedIsASnapshot ==
    \A s \in Sessions : store.published[s] # None =>
        store.published[s].objects = Snapshot(s, store.published[s].revision)

\* Vectors are of the text that is served: an embedding publication names the
\* revision searchd serves (the fence of write_episode_embeddings, and
\* publish_generation's removal of what it supersedes).
EmbeddingsFollowServed ==
    \A s \in Sessions : store.embedded[s] # None =>
        store.published[s] # None /\ store.embedded[s] = store.published[s].revision

\* No lag means served: with one pass of each projector on a session, a session
\* the ledger calls done is served as it was at the revision last asked for, which
\* a deferred render may have left behind, and not at all if it was deleted or
\* retired.  A session that came back from retirement is the exception (see
\* SearchRowIsCertificate): it may be missing, but is never served stale.
NoLagIsServed ==
    \A s \in Sessions : Current(Search, s) =>
        \/ Served(s) = Expected(s)
        \/ content[s].revived /\ Served(s) = {}

\* No lag means embedded, for a session that never came back from retirement.
NoLagIsEmbedded ==
    \A s \in Sessions :
        Current(Search, s) /\ Current(Embedding, s) /\ content[s].state = "ready"
            /\ ~content[s].revived
            => store.embedded[s] = ledger[Embedding][s].completed

\* Lag drains: "stuck forever" is not a reachable state of a row with work to do
\* (fail_projector_claim), for sessions that never came back from retirement.
LagDrains ==
    \A s \in Sessions :
        /\ <>[](Current(Search, s))
        /\ <>[](content[s].revived \/ content[s].state = "deleted" \/ Current(Embedding, s))

\* "A search row is the durable certificate that this session has entered the
\* served corpus" (ensure_known_projector_states): for every session.
SearchRowIsCertificate ==
    \A s \in Sessions : Current(Search, s) => Served(s) = Expected(s)
=============================================================================

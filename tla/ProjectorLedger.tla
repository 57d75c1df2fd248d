--------------------------- MODULE ProjectorLedger ---------------------------
(***************************************************************************)
(* The projector ledger of the catalog: for every projector and session,   *)
(* the revision the catalog wants projected and the revision a worker has  *)
(* completed, with the claim that entitles a worker to complete it         *)
(* (catalogd/store.py, table projector_state).                             *)
(*                                                                         *)
(* A session's render objects are named by the commit that added them.     *)
(* Committing, retiring and deleting are seen here by what they do to the  *)
(* objects and the ledger; HostCatalog has their other half.  A session in *)
(* state "ready" has something rendered and is neither retired nor         *)
(* deleted; it may be owed another render (render_state "pending").  A row *)
(* that does not exist yet is one that wants revision 0.  Failure counts   *)
(* and error texts are left out: no step reads them but the length of a    *)
(* wait.  So are last_completion_token and last_failure_token: a call      *)
(* repeated after its reply was lost changes nothing, with or without      *)
(* them.                                                                   *)
(***************************************************************************)
EXTENDS Integers, FiniteSets

CONSTANTS
    Sessions,
    Tokens,         \* claim tokens (uuid4)
    Stores,         \* identities of searchd databases
    None

ASSUME LedgerAssumption == None \notin Tokens \cup Stores \cup Nat

Search == "search-v2"
Embedding == "embeddings-v2"
Projectors == {Search, Embedding}

VARIABLES
    commitSeq,      \* catalog_meta.commit_seq, as far as sessions move it
    content,        \* per session: render objects, render state, revival
    ledger,         \* projector_state
    binding         \* projector_store_binding

ledgerVars == <<commitSeq, content, ledger, binding>>

\* A row nothing has happened to.  The field until is the time that keeps workers
\* away from a row: claim_expires_at, retry_at, or neither.
FreshRow == [desired |-> 0, completed |-> 0, claimed |-> None, token |-> None, until |-> "now"]

LedgerInit ==
    /\ commitSeq = 0
    /\ content = [s \in Sessions |-> [objects |-> {}, state |-> "absent", revived |-> FALSE]]
    /\ ledger = [p \in Projectors |-> [s \in Sessions |-> FreshRow]]
    /\ binding = [p \in Projectors |-> None]

-----------------------------------------------------------------------------
(* The catalog's own writes.                                               *)

\* commit_raw_object raises the revision and leaves a running claim alone.
Wanted(row, seq) == [row EXCEPT !.desired = seq]

\* Retiring and deleting a session raise the revision and cancel the claim.
WantedAfresh(row, seq) ==
    [row EXCEPT !.desired = seq, !.claimed = None, !.token = None, !.until = "now"]

Active(s) == {o \in content[s].objects : o.retired = None}

Retire(objects, replaced, seq) ==
    {IF o \in replaced THEN [o EXCEPT !.retired = seq] ELSE o : o \in objects}

\* The objects of a session as of a revision.
Snapshot(s, revision) ==
    {o.id : o \in {x \in content[s].objects :
                     x.id <= revision /\ (x.retired = None \/ x.retired > revision)}}

BumpAll(s, Bump(_, _)) ==
    ledger' = [p \in Projectors |->
                  [ledger[p] EXCEPT ![s] = Bump(@, commitSeq + 1)]]

\* Raw records are committed with their render object.  A new epoch of one of the
\* session's sources also retires the objects that came from the source.
CommitObject(s, replaced) ==
    /\ content[s].state # "deleted"
    /\ commitSeq' = commitSeq + 1
    /\ content' = [content EXCEPT ![s] =
           [objects |-> Retire(@.objects, replaced, commitSeq + 1)
                            \cup {[id |-> commitSeq + 1, retired |-> None]},
            state   |-> "ready",
            revived |-> @.revived \/ @.state = "retired"]]
    /\ BumpAll(s, Wanted)
    /\ UNCHANGED binding

\* Raw records are committed and their render is deferred: neither search nor
\* embeddings is told, and a new epoch retires what it replaces all the same.  A
\* session that keeps other sources when one is taken over by another session is
\* left in the same way.  A session with nothing rendered yet is still absent.
CommitUnrendered(s, replaced) ==
    /\ content[s].state # "deleted"
    /\ commitSeq' = commitSeq + 1
    /\ content' = [content EXCEPT ![s] =
           [objects |-> Retire(@.objects, replaced, commitSeq + 1),
            state   |-> IF @.state = "absent" THEN "absent" ELSE "ready",
            revived |-> @.revived \/ @.state = "retired"]]
    /\ UNCHANGED <<ledger, binding>>

\* Another session takes over the last of the session's sources.
RetireSession(s) ==
    /\ content[s].state = "ready"
    /\ commitSeq' = commitSeq + 1
    /\ content' = [content EXCEPT ![s].objects = Retire(@, Active(s), commitSeq + 1),
                                  ![s].state = "retired"]
    /\ BumpAll(s, WantedAfresh)
    /\ UNCHANGED binding

DeleteStorageSession(s) ==
    /\ content[s].state \in {"ready", "retired"}
    /\ commitSeq' = commitSeq + 1
    /\ content' = [content EXCEPT ![s].objects = Retire(@, Active(s), commitSeq + 1),
                                  ![s].state = "deleted"]
    /\ BumpAll(s, WantedAfresh)
    /\ UNCHANGED binding

-----------------------------------------------------------------------------
(* What workers and operators ask of the ledger.                           *)

Lag(p, s) == ledger[p][s].desired > ledger[p][s].completed

\* Mutant: embeddings do not wait for search.
EligibleUnpublished(p, s) ==
    /\ Lag(p, s)
    /\ ledger[p][s].until = "now"
    /\ p # Search => content[s].state # "deleted"

\* Mutant: a claim whose lease ran out is not taken over.
EligibleUnclaimed(p, s) ==
    /\ Lag(p, s)
    /\ ledger[p][s].until = "now" /\ ledger[p][s].token = None
    /\ p # Search => content[s].state # "deleted"
    /\ p = Embedding => ledger[Search][s].completed > ledger[p][s].completed

\* claim_projector_lag: what may be claimed.  Only search has work to do for a
\* deleted session, and embeddings only follow what search has completed.
Eligible(p, s) ==
    /\ Lag(p, s)
    /\ ledger[p][s].until = "now"
    /\ p # Search => content[s].state # "deleted"
    /\ p = Embedding => ledger[Search][s].completed > ledger[p][s].completed

\* Embeddings claim the newest revision search has completed.
ClaimRevision(p, s) ==
    IF p = Embedding /\ ledger[Search][s].completed < ledger[p][s].desired
      THEN ledger[Search][s].completed ELSE ledger[p][s].desired

Claim(p, s, token) ==
    /\ Eligible(p, s)
    /\ ledger' = [ledger EXCEPT ![p][s] =
           [@ EXCEPT !.claimed = ClaimRevision(p, s), !.token = token, !.until = "lease"]]
    /\ UNCHANGED <<commitSeq, content, binding>>

\* complete_projector_claim: the caller still holds the claim.
HoldsClaim(p, s, token, revision) ==
    /\ ledger[p][s].token = token
    /\ ledger[p][s].claimed = revision
    /\ revision <= ledger[p][s].desired

\* Mutant: completion covers what is wanted by now.
CompleteWanted(p, s, token, revision) ==
    /\ HoldsClaim(p, s, token, revision)
    /\ ledger' = [ledger EXCEPT ![p][s] =
           [FreshRow EXCEPT !.desired = ledger[p][s].desired,
                            !.completed = ledger[p][s].desired]]
    /\ UNCHANGED <<commitSeq, content, binding>>

Complete(p, s, token, revision) ==
    /\ HoldsClaim(p, s, token, revision)
    /\ ledger' = [ledger EXCEPT ![p][s] =
           [@ EXCEPT !.completed = revision, !.claimed = None, !.token = None, !.until = "now"]]
    /\ UNCHANGED <<commitSeq, content, binding>>

\* fail_projector_claim: the claim ends and the row waits for retry_at.
Fail(p, s, token) ==
    /\ ledger[p][s].token = token
    /\ ledger' = [ledger EXCEPT ![p][s] =
           [@ EXCEPT !.claimed = None, !.token = None, !.until = "retry"]]
    /\ UNCHANGED <<commitSeq, content, binding>>

\* claim_expires_at passes.
LeaseExpires(p, s) ==
    /\ ledger[p][s].until = "lease"
    /\ ledger' = [ledger EXCEPT ![p][s].until = "now"]
    /\ UNCHANGED <<commitSeq, content, binding>>

\* retry_at passes.
RetryDue(p, s) ==
    /\ ledger[p][s].until = "retry"
    /\ ledger' = [ledger EXCEPT ![p][s].until = "now"]
    /\ UNCHANGED <<commitSeq, content, binding>>

Released(row) ==
    IF row.token = None THEN row
    ELSE [row EXCEPT !.claimed = None, !.token = None, !.until = "now"]

\* release_projector_claims_on_startup: the workers of every claim are gone.
ReleaseClaims ==
    /\ ledger' = [p \in Projectors |-> [s \in Sessions |-> Released(ledger[p][s])]]
    /\ UNCHANGED <<commitSeq, content, binding>>

Reset(row) == [FreshRow EXCEPT !.desired = row.desired]

\* requeue_projector_states
Requeue(p, s) ==
    /\ ledger[p][s] # Reset(ledger[p][s])
    /\ ledger' = [ledger EXCEPT ![p][s] = Reset(@)]
    /\ UNCHANGED <<commitSeq, content, binding>>

\* Mutant: another database is taken to hold what the last one held.
BindKeepsProgress(p, store) ==
    /\ binding[p] # store
    /\ binding' = [binding EXCEPT ![p] = store]
    /\ UNCHANGED <<commitSeq, content, ledger>>

\* bind_projector_store: another database starts from nothing.
BindStore(p, store) ==
    /\ binding[p] # store
    /\ binding' = [binding EXCEPT ![p] = store]
    /\ ledger' = [ledger EXCEPT ![p] = [s \in Sessions |-> Reset(@[s])]]
    /\ UNCHANGED <<commitSeq, content>>

-----------------------------------------------------------------------------
(* The ledger under any workers at all.                                    *)

\* Writes that raise what is wanted ...
CatalogWrite ==
    \E s \in Sessions : \/ \E replaced \in SUBSET Active(s) : CommitObject(s, replaced)
                        \/ RetireSession(s)
                        \/ DeleteStorageSession(s)

\* ... and those that do not.
UntoldWrite ==
    \E s \in Sessions : \E replaced \in SUBSET Active(s) : CommitUnrendered(s, replaced)

LedgerNext ==
    \/ CatalogWrite \/ UntoldWrite
    \/ \E p \in Projectors, s \in Sessions :
          \/ \E token \in Tokens : \/ Claim(p, s, token)
                                   \/ Fail(p, s, token)
                                   \/ \E revision \in 0 .. commitSeq : Complete(p, s, token, revision)
          \/ LeaseExpires(p, s) \/ RetryDue(p, s) \/ Requeue(p, s)
    \/ \E p \in Projectors, store \in Stores : BindStore(p, store)
    \/ ReleaseClaims

LedgerSpec == LedgerInit /\ [][LedgerNext]_ledgerVars

Row == [desired : Nat, completed : Nat, claimed : Nat \cup {None}, token : Tokens \cup {None},
        until : {"now", "lease", "retry"}]

\* Type correctness of the ledger and of the catalog's session rows.
LedgerTypeOK ==
    /\ commitSeq \in Nat
    /\ content \in [Sessions -> [objects : SUBSET [id : Nat, retired : Nat \cup {None}],
                                 state : {"absent", "ready", "retired", "deleted"},
                                 revived : BOOLEAN]]
    /\ ledger \in [Projectors -> [Sessions -> Row]]
    /\ binding \in [Projectors -> Stores \cup {None}]

\* Coverage is never overstated: no row has completed, or is being worked on for,
\* a revision the catalog has not asked for, and a claim always promises progress
\* (the bounds checked by claim_projector_lag and complete_projector_claim, over
\* resets, cancelled claims and embeddings that follow search).
CoverageIsBounded ==
    \A p \in Projectors, s \in Sessions :
        LET row == ledger[p][s] IN
        /\ row.completed <= row.desired /\ row.desired <= commitSeq
        /\ (row.claimed = None) <=> (row.token = None)
        /\ row.claimed # None => row.completed < row.claimed /\ row.claimed <= row.desired

\* Completion is fenced: a completed revision moves forward only by the holder of
\* a claim and to the revision it claimed, and moves back only to nothing, by a
\* requeue or a new store.  A claim that was cancelled moves nothing.
ProgressIsFenced ==
    [][\A p \in Projectors, s \in Sessions :
          ledger'[p][s].completed # ledger[p][s].completed =>
              \/ ledger'[p][s].completed = 0
              \/ /\ ledger'[p][s].completed = ledger[p][s].claimed
                 /\ ledger'[p][s].completed > ledger[p][s].completed]_ledgerVars
=============================================================================

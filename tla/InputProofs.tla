----------------------------- MODULE InputProofs -----------------------------
(***************************************************************************)
(* Theorems about the delivery of inputs, for any number of inputs,        *)
(* requests, drains and faults.                                            *)
(***************************************************************************)
EXTENDS InputDelivery, FiniteSetTheorems, TLAPS

---------------------------------------------------------------------------
(* The invariant's first half: types, and what a sender is sending.        *)

Attempting == {"ready", "prepared", "waiting", "answered", "settling"}
Flying == wire \cup running \cup {res.command : res \in back}

(* A task past its first step has an input, and so has every command the   *)
(* machine has heard of.                                                   *)
JobsKnown ==
  /\ \A s \in Senders : pc[s] \in Attempting => job[s] \in Inputs
  /\ \A p \in Posts : pc[p] \in {"locking", "queueing", "locked"} => job[p] \in Inputs
  /\ \A p \in Posts : pc[p] = "idle" => job[p] = 0
  /\ \A p \in Posts : p \in Flying => job[p] \in Inputs
  /\ \A d \in Drains : pc[d] \in {"idle", "claiming"} \cup Attempting

(* Names of handlers, drains and inputs do not clash where it matters.     *)
LEMMA Names ==
  /\ Posts \subseteq Senders /\ Drains \subseteq Senders
  /\ Posts \subseteq Commands /\ Inputs \subseteq Commands
  /\ 0 \notin Senders /\ 0 \notin Commands
  /\ \A p \in Posts : p \notin Inputs /\ p \notin Drains
BY InputAssumption DEF Senders, Commands

(* Before anything was sent.                                               *)
LEMMA InitTyped == Init => TypeOK /\ JobsKnown
<1> SUFFICES ASSUME Init PROVE TypeOK /\ JobsKnown
  OBVIOUS
<1>1. 0 \in 0..MaxFaults
  BY InputAssumption
<1>2. /\ status \in [Inputs -> {"none", "queued", "delivering"} \cup Settled]
      /\ owner \in [Inputs -> Senders \cup {0}]
      /\ created \in [Inputs -> Nat]
      /\ op \in [Commands -> {"none", "running", "succeeded", "failed", "timed_out"}]
      /\ injected \in [Inputs -> Nat]
  BY DEF Init
<1>3. /\ pc \in [Senders -> {"idle", "locking", "queueing", "claiming", "done"} \cup Dispatching]
      /\ job \in [Senders -> Inputs \cup {0}]
      /\ intent \in [Posts -> {"none", "auto", "queue", "steer"}]
      /\ outcome \in [Senders -> {"none", "transient", "permanent", "unknown"} \cup Answers]
  BY DEF Init
<1>4. registered \in BOOLEAN /\ attached \in BOOLEAN
  BY DEF Init
<1>5. /\ lock = {} /\ watch = {} /\ wire = {} /\ back = {} /\ running = {} /\ answerable = {}
      /\ faults = 0
  BY DEF Init
<1>6. TypeOK
  BY <1>1, <1>2, <1>3, <1>4, <1>5 DEF TypeOK
<1>7. JobsKnown
  BY <1>5, Names DEF Init, JobsKnown, Flying, Attempting
<1> QED  BY <1>6, <1>7

(* The stamp of a new receipt is a time.                                   *)
LEMMA NowTyped ==
  ASSUME TypeOK
  PROVE  Now \subseteq Nat
<1> DEFINE rows == {i \in Inputs : status[i] # "none"}
<1>1. IsFiniteSet(rows)
  BY InputAssumption, FS_Subset
<1>2. Cardinality(rows) + 1 \in Nat
  BY <1>1, FS_CardinalityType
<1> HIDE DEF rows
<1>3. rows \subseteq Inputs
  BY DEF rows
<1>4. \A t \in {created[i] : i \in rows} \cup {Cardinality(rows) + 1} : t \in Nat
  BY <1>2, <1>3 DEF TypeOK
<1> QED  BY <1>4 DEF Now, rows

(* upsert_input_receipt.                                                   *)
LEMMA UpsertTyped ==
  ASSUME TypeOK, NEW i \in Inputs, NEW state \in {"queued", "delivering"},
         NEW request \in Senders \cup {0}, Upsert(i, state, request)
  PROVE  /\ status' \in [Inputs -> {"none", "queued", "delivering"} \cup Settled]
         /\ owner' \in [Inputs -> Senders \cup {0}]
         /\ created' \in [Inputs -> Nat]
<1>1. \A t \in Now : t \in Nat
  BY NowTyped
<1> QED  BY <1>1 DEF Upsert, TypeOK

(* The command of a sender's attempt, and the input it carries.            *)
LEMMA CommandFacts ==
  ASSUME TypeOK, JobsKnown, NEW s \in Senders, pc[s] \in Attempting
  PROVE  /\ job[s] \in Inputs
         /\ CommandOf(s) \in Commands
         /\ InputOf(CommandOf(s)) = job[s]
<1>1. job[s] \in Inputs
  BY DEF JobsKnown
<1>2. s \in Drains \/ s \in Posts
  BY DEF Senders
<1> QED  BY <1>1, <1>2, Names DEF CommandOf, InputOf

(* Every step keeps the types.                                             *)
LEMMA StepTyped ==
  ASSUME TypeOK, JobsKnown, [Next]_vars
  PROVE  TypeOK'
<1>f. Fault => faults' \in 0..MaxFaults
  BY InputAssumption DEF Fault, TypeOK
<1>n. Posts \subseteq Senders /\ Drains \subseteq Senders
  BY Names
<1> USE <1>f, <1>n DEF receipts, tasks, locks, link, agent, Goto, Dispatching, Settled, Answers
<1>1. ASSUME NEW p \in Posts, NEW i \in Inputs, NEW how \in Intents, PostChecks(p, i, how)
      PROVE  TypeOK'
  <2>1. how \in {"auto", "queue", "steer"}
    BY InputAssumption
  <2> QED  BY <1>1, <2>1 DEF PostChecks, TypeOK
<1>2. ASSUME NEW p \in Posts, PostLocks(p) PROVE TypeOK'
  BY <1>2 DEF PostLocks, TypeOK
<1>3. ASSUME NEW p \in Posts, PostQueues(p) PROVE TypeOK'
  <2>1. job[p] \in Inputs
    BY <1>3 DEF PostQueues, JobsKnown
  <2>2. /\ status' \in [Inputs -> {"none", "queued", "delivering"} \cup Settled]
        /\ owner' \in [Inputs -> Senders \cup {0}]
        /\ created' \in [Inputs -> Nat]
    BY <1>3, <2>1, UpsertTyped DEF PostQueues
  <2> QED  BY <1>3, <2>2 DEF PostQueues, Respond, TypeOK
<1>4. ASSUME NEW p \in Posts, PostRecords(p) PROVE TypeOK'
  <2>1. job[p] \in Inputs
    BY <1>4 DEF PostRecords, JobsKnown
  <2>2. /\ status' \in [Inputs -> {"none", "queued", "delivering"} \cup Settled]
        /\ owner' \in [Inputs -> Senders \cup {0}]
        /\ created' \in [Inputs -> Nat]
    BY <1>4, <2>1, UpsertTyped DEF PostRecords
  <2> QED  BY <1>4, <2>2 DEF PostRecords, TypeOK
<1>5. ASSUME NEW p \in Posts, PostFails(p) PROVE TypeOK'
  <2>1. job[p] \in Inputs
    BY <1>5 DEF PostFails, JobsKnown
  <2>2. /\ status' \in [Inputs -> {"none", "queued", "delivering"} \cup Settled]
        /\ owner' \in [Inputs -> Senders \cup {0}]
        /\ created' \in [Inputs -> Nat]
    <3>1. CASE UNCHANGED receipts
      BY <3>1 DEF TypeOK
    <3>2. CASE Upsert(job[p], "queued", 0) \/ Upsert(job[p], "delivering", p)
      BY <2>1, <3>2, UpsertTyped
    <3> QED  BY <1>5, <3>1, <3>2 DEF PostFails
  <2> QED  BY <1>5, <2>2 DEF PostFails, Respond, Release, TypeOK
<1>6. ASSUME NEW d \in Drains, DrainStarts(d) \/ DrainFindsNothing(d) PROVE TypeOK'
  BY <1>6 DEF DrainStarts, DrainFindsNothing, Release, TypeOK
<1>7. ASSUME NEW d \in Drains, DrainClaims(d) PROVE TypeOK'
  BY <1>7 DEF DrainClaims, Claim, Queued, TypeOK
<1>8. ASSUME NEW d \in Drains, DrainExpires(d) PROVE TypeOK'
  BY <1>8 DEF DrainExpires, Queued, TypeOK
<1>9. ASSUME NEW d \in Drains, DrainLosesClaim(d) PROVE TypeOK'
  BY <1>9 DEF DrainLosesClaim, Claim, Queued, Release, TypeOK
<1>10. ASSUME NEW d \in Drains, SettleExpired(d) PROVE TypeOK'
  <2>1. job[d] \in Inputs
    BY <1>10 DEF SettleExpired, JobsKnown, Attempting
  <2>2. d \notin Posts
    BY Names
  <2> QED  BY <1>10, <2>1, <2>2 DEF SettleExpired, EndTask, Release, TypeOK
<1>11. ASSUME NEW s \in Senders, Prepare(s) PROVE TypeOK'
  <2>1. CommandOf(s) \in Commands
    BY <1>11, CommandFacts DEF Prepare, Attempting
  <2> QED  BY <1>11, <2>1 DEF Prepare, TypeOK
<1>12. ASSUME NEW s \in Senders, PrepareFails(s) PROVE TypeOK'
  <2>1. CommandOf(s) \in Commands
    BY <1>12, CommandFacts DEF PrepareFails, Attempting
  <2> QED  BY <1>12, <2>1 DEF PrepareFails, Fail, Release, TypeOK
<1>13. ASSUME NEW s \in Senders, SendCommand(s) PROVE TypeOK'
  <2>1. CommandOf(s) \in Commands
    BY <1>13, CommandFacts DEF SendCommand, Attempting
  <2> QED  BY <1>13, <2>1 DEF SendCommand, Answered, TypeOK
<1>14. ASSUME NEW s \in Senders, ReplyTimeout(s) PROVE TypeOK'
  BY <1>14 DEF ReplyTimeout, Answered, TypeOK
<1>15. ASSUME NEW res \in back, CompleteCommand(res) PROVE TypeOK'
  <2>1. res.command \in Commands /\ res.answer \in Answers
    BY DEF TypeOK
  <2> QED  BY <1>15, <2>1 DEF CompleteCommand, Answered, FinishOp, OperationStatus, TypeOK
<1>16. ASSUME NEW s \in Senders, FinishOperation(s) PROVE TypeOK'
  <2>1. CommandOf(s) \in Commands
    BY <1>16, CommandFacts DEF FinishOperation, Attempting
  <2> QED  BY <1>16, <2>1 DEF FinishOperation, FinishOp, OperationStatus, Fail, Release, TypeOK
<1>17. ASSUME NEW s \in Senders, Settle(s) \/ SettleFails(s) PROVE TypeOK'
  <2>1. job[s] \in Inputs
    BY <1>17 DEF Settle, SettleFails, JobsKnown, Attempting
  <2>2. /\ status' \in [Inputs -> {"none", "queued", "delivering"} \cup Settled]
        /\ owner' \in [Inputs -> Senders \cup {0}]
        /\ created' \in [Inputs -> Nat]
    BY <1>17, <2>1 DEF Settle, SettleFails, FinishReceipt, TypeOK
  <2> QED  BY <1>17, <2>2 DEF Settle, SettleFails, EndTask, Respond, Release, TypeOK
<1>18. ASSUME NEW s \in Senders, WatcherReleases(s) PROVE TypeOK'
  BY <1>18 DEF WatcherReleases, Release, TypeOK
<1>19. ASSUME NEW i \in Inputs, CancelInput(i) PROVE TypeOK'
  BY <1>19 DEF CancelInput, TypeOK
<1>20. ASSUME NEW c \in Commands, ReceiveCommand(c) \/ ReapOperation(c) PROVE TypeOK'
  BY <1>20 DEF ReceiveCommand, ReapOperation, TypeOK
<1>21. ASSUME NEW c \in Commands, NEW answer \in Answers, ExecuteCommand(c, answer) PROVE TypeOK'
  <2>1. InputOf(c) \in Inputs
    BY <1>21 DEF ExecuteCommand, InputOf, Commands, JobsKnown, Flying
  <2> QED  BY <1>21, <2>1 DEF ExecuteCommand, TypeOK
<1>22. ASSUME LockExpires \/ LockExpiresInSend \/ ForceRelease PROVE TypeOK'
  BY <1>22 DEF LockExpires, LockExpiresInSend, ForceRelease, TypeOK
<1>23. ASSUME Connect \/ Unregister PROVE TypeOK'
  <2>1. /\ pc' \in [Senders -> {"idle", "locking", "queueing", "claiming", "done"} \cup Dispatching]
        /\ outcome' \in [Senders -> {"none", "transient", "permanent", "unknown"} \cup Answers]
    BY <1>23 DEF Connect, Unregister, FailPending, TypeOK
  <2>2. registered' \in BOOLEAN /\ attached' \in BOOLEAN
    BY <1>23 DEF Connect, Unregister, TypeOK
  <2> QED  BY <1>23, <2>1, <2>2 DEF Connect, Unregister, TypeOK
<1>24. ASSUME Disconnect \/ AgentRestart PROVE TypeOK'
  BY <1>24 DEF Disconnect, AgentRestart, TypeOK
<1>25. ASSUME ServerRestart PROVE TypeOK'
  BY <1>25 DEF ServerRestart, TypeOK
<1>26. ASSUME UNCHANGED vars PROVE TypeOK'
  BY <1>26 DEF vars, TypeOK
<1>27. ASSUME NEW p \in Posts, HandlerTimesOut(p) PROVE TypeOK'
  <2>1. job[p] \in Inputs /\ p \in Commands /\ pc[p] \in {"locking", "queueing"} \cup Dispatching
    BY <1>27, Names DEF HandlerTimesOut, JobsKnown, Attempting
  <2>2. /\ status' \in [Inputs -> {"none", "queued", "delivering"} \cup Settled]
        /\ owner' \in [Inputs -> Senders \cup {0}]
        /\ created' \in [Inputs -> Nat]
    <3>1. CASE UNCHANGED receipts
      BY <3>1 DEF TypeOK
    <3>2. CASE Upsert(job[p], "queued", 0) \/ Upsert(job[p], "delivering", p)
      BY <2>1, <3>2, UpsertTyped
    <3>3. CASE FinishReceipt(p)
      BY <2>1, <3>3 DEF FinishReceipt, TypeOK
    <3> QED  BY <1>27, <3>1, <3>2, <3>3 DEF HandlerTimesOut
  <2>3. op' \in [Commands -> {"none", "running", "succeeded", "failed", "timed_out"}]
    BY <1>27, <2>1 DEF HandlerTimesOut, FinishOp, OperationStatus, TypeOK
  <2>4. /\ pc' \in [Senders -> {"idle", "locking", "queueing", "claiming", "done"} \cup Dispatching]
        /\ intent' \in [Posts -> {"none", "auto", "queue", "steer"}]
        /\ outcome' \in [Senders -> {"none", "transient", "permanent", "unknown"} \cup Answers]
        /\ wire' \subseteq Commands
    BY <1>27, <2>1 DEF HandlerTimesOut, Respond, TypeOK
  <2>5. UNCHANGED <<job, lock, watch, registered, attached, back, running, answerable, injected>>
    BY <1>27 DEF HandlerTimesOut
  <2> QED  BY <1>27, <2>2, <2>3, <2>4, <2>5 DEF HandlerTimesOut, TypeOK
<1> QED
  BY <1>1, <1>2, <1>3, <1>4, <1>5, <1>6, <1>7, <1>8, <1>9, <1>10, <1>11, <1>12, <1>13, <1>14,
     <1>15, <1>16, <1>17, <1>18, <1>19, <1>20, <1>21, <1>22, <1>23, <1>24, <1>25, <1>26, <1>27
  DEF Next, Handler, Drain, Dispatch


(* Every step keeps the senders' inputs.                                   *)
LEMMA JobsStep ==
  ASSUME TypeOK, JobsKnown, [Next]_vars
  PROVE  JobsKnown'
<1>n. /\ Posts \subseteq Senders /\ Drains \subseteq Senders
      /\ \A p \in Posts : p \notin Inputs /\ p \notin Drains
      /\ \A i \in Inputs : i # 0
  BY Names, InputAssumption
<1> USE <1>n DEF JobsKnown, Attempting, Flying, TypeOK, Goto, receipts, tasks, locks, link, agent
<1>1. ASSUME NEW p \in Posts, NEW i \in Inputs, NEW how \in Intents, PostChecks(p, i, how)
      PROVE  JobsKnown'
  <2>1. how \in {"auto", "queue", "steer"}
    BY InputAssumption
  <2> QED  BY <1>1, <2>1 DEF PostChecks
<1>2. ASSUME NEW p \in Posts, PostLocks(p) PROVE JobsKnown'
  BY <1>2 DEF PostLocks
<1>3. ASSUME NEW p \in Posts, PostQueues(p) \/ PostFails(p) PROVE JobsKnown'
  BY <1>3 DEF PostQueues, PostFails, Respond
<1>4. ASSUME NEW p \in Posts, PostRecords(p) PROVE JobsKnown'
  BY <1>4 DEF PostRecords
<1>5. ASSUME NEW d \in Drains,
             DrainStarts(d) \/ DrainFindsNothing(d) \/ DrainExpires(d) \/ DrainLosesClaim(d)
      PROVE  JobsKnown'
  BY <1>5 DEF DrainStarts, DrainFindsNothing, DrainExpires, DrainLosesClaim
<1>6. ASSUME NEW d \in Drains, DrainClaims(d) PROVE JobsKnown'
  BY <1>6 DEF DrainClaims, Queued
<1>7. ASSUME NEW d \in Drains, SettleExpired(d) PROVE JobsKnown'
  BY <1>7 DEF SettleExpired, EndTask
<1>8. ASSUME NEW s \in Senders, Prepare(s) \/ PrepareFails(s) \/ ReplyTimeout(s) PROVE JobsKnown'
  BY <1>8 DEF Prepare, PrepareFails, ReplyTimeout, Fail, Answered
<1>9. ASSUME NEW s \in Senders, SendCommand(s) PROVE JobsKnown'
  BY <1>9 DEF SendCommand, Answered, CommandOf
<1>10. ASSUME NEW res \in back, CompleteCommand(res) PROVE JobsKnown'
  BY <1>10 DEF CompleteCommand, Answered
<1>11. ASSUME NEW s \in Senders, FinishOperation(s) PROVE JobsKnown'
  BY <1>11 DEF FinishOperation, Fail
<1>12. ASSUME NEW s \in Senders, Settle(s) \/ SettleFails(s) PROVE JobsKnown'
  BY <1>12 DEF Settle, SettleFails, EndTask, Respond, Senders
<1>13. ASSUME NEW s \in Senders, WatcherReleases(s) PROVE JobsKnown'
  BY <1>13 DEF WatcherReleases
<1>14. ASSUME NEW i \in Inputs, CancelInput(i) PROVE JobsKnown'
  BY <1>14 DEF CancelInput
<1>15. ASSUME NEW c \in Commands, ReceiveCommand(c) \/ ReapOperation(c) PROVE JobsKnown'
  BY <1>15 DEF ReceiveCommand, ReapOperation
<1>16. ASSUME NEW c \in Commands, NEW answer \in Answers, ExecuteCommand(c, answer) PROVE JobsKnown'
  BY <1>16 DEF ExecuteCommand
<1>17. ASSUME LockExpires \/ LockExpiresInSend \/ ForceRelease \/ Disconnect \/ AgentRestart
       PROVE  JobsKnown'
  BY <1>17 DEF LockExpires, LockExpiresInSend, ForceRelease, Disconnect, AgentRestart
<1>18. ASSUME Connect \/ Unregister PROVE JobsKnown'
  BY <1>18 DEF Connect, Unregister, FailPending
<1>19. ASSUME ServerRestart PROVE JobsKnown'
  BY <1>19 DEF ServerRestart
<1>20. ASSUME UNCHANGED vars PROVE JobsKnown'
  BY <1>20 DEF vars
<1>21. ASSUME NEW p \in Posts, HandlerTimesOut(p) PROVE JobsKnown'
  BY <1>21 DEF HandlerTimesOut, Respond, Dispatching
<1> QED
  BY <1>1, <1>2, <1>3, <1>4, <1>5, <1>6, <1>7, <1>8, <1>9, <1>10, <1>11, <1>12, <1>13, <1>14,
     <1>15, <1>16, <1>17, <1>18, <1>19, <1>20, <1>21
  DEF Next, Handler, Drain, Dispatch


---------------------------------------------------------------------------
(* The session's lock.  A drain holds it from its start to its end, an     *)
(* automatic request while its command is under way; a watcher outlives    *)
(* the task it works for, never the other way round.                       *)

Sending == {"locked", "ready", "prepared", "waiting", "answered"}

Holding(s) ==
  \/ s \in Drains /\ pc[s] \in {"claiming"} \cup Attempting
  \/ s \in Posts /\ intent[s] = "auto" /\ pc[s] \in Sending

(* Nobody takes the lock from a task that is dispatching: no interrupt,    *)
(* termination or forced release, and no send that outlasts the lock.      *)
LocksAreKept == ~ ForceRelease /\ ~ LockExpiresInSend

LockIsHeld ==
  /\ \A s, t \in lock : s = t
  /\ \A s \in Senders : Holding(s) => s \in lock
  /\ \A s \in watch : ~ Holding(s)
  /\ \A p \in Posts : p \in watch => pc[p] \in {"settling", "done"}

(* Locks are taken free.  They are released by their holder, and expire    *)
(* under a task that has ended, unless they are taken away.                *)
LEMMA LockStep ==
  ASSUME TypeOK, JobsKnown, LockIsHeld, [Next]_vars, [LocksAreKept]_vars
  PROVE  LockIsHeld'
<1>n. /\ Posts \subseteq Senders /\ Drains \subseteq Senders
      /\ \A p \in Posts : p \notin Drains
  BY Names
<1> USE <1>n DEF LockIsHeld, Holding, Sending, Attempting, Release, TypeOK, Goto,
                 receipts, tasks, locks, link, agent
<1>1. ASSUME NEW p \in Posts, NEW i \in Inputs, NEW how \in Intents, PostChecks(p, i, how)
      PROVE  LockIsHeld'
  <2>1. how \in {"auto", "queue", "steer"}
    BY InputAssumption
  <2> QED  BY <1>1, <2>1 DEF PostChecks
<1>2. ASSUME NEW p \in Posts, PostLocks(p) PROVE LockIsHeld'
  BY <1>2 DEF PostLocks
<1>3. ASSUME NEW p \in Posts, PostQueues(p) \/ PostFails(p) PROVE LockIsHeld'
  BY <1>3 DEF PostQueues, PostFails, Respond
<1>4. ASSUME NEW p \in Posts, PostRecords(p) PROVE LockIsHeld'
  BY <1>4 DEF PostRecords
<1>5. ASSUME NEW d \in Drains, DrainStarts(d) PROVE LockIsHeld'
  BY <1>5 DEF DrainStarts
<1>6. ASSUME NEW d \in Drains, DrainFindsNothing(d) \/ DrainExpires(d) \/ DrainLosesClaim(d)
      PROVE  LockIsHeld'
  BY <1>6 DEF DrainFindsNothing, DrainExpires, DrainLosesClaim
<1>7. ASSUME NEW d \in Drains, DrainClaims(d) PROVE LockIsHeld'
  BY <1>7 DEF DrainClaims
<1>8. ASSUME NEW d \in Drains, SettleExpired(d) PROVE LockIsHeld'
  BY <1>8 DEF SettleExpired, EndTask
<1>9. ASSUME NEW s \in Senders, Prepare(s) \/ PrepareFails(s) \/ ReplyTimeout(s) PROVE LockIsHeld'
  BY <1>9 DEF Prepare, PrepareFails, ReplyTimeout, Fail, Answered
<1>10. ASSUME NEW s \in Senders, SendCommand(s) PROVE LockIsHeld'
  BY <1>10 DEF SendCommand, Answered
<1>11. ASSUME NEW res \in back, CompleteCommand(res) PROVE LockIsHeld'
  BY <1>11 DEF CompleteCommand, Answered
<1>12. ASSUME NEW s \in Senders, FinishOperation(s) PROVE LockIsHeld'
  BY <1>12 DEF FinishOperation, Fail
<1>13. ASSUME NEW s \in Senders, Settle(s) \/ SettleFails(s) PROVE LockIsHeld'
  BY <1>13 DEF Settle, SettleFails, EndTask, Respond, Senders
<1>14. ASSUME NEW s \in Senders, WatcherReleases(s) PROVE LockIsHeld'
  BY <1>14 DEF WatcherReleases
<1>15. ASSUME LockExpires PROVE LockIsHeld'
  BY <1>15 DEF LockExpires
<1>16. ASSUME NEW i \in Inputs, CancelInput(i) PROVE LockIsHeld'
  BY <1>16 DEF CancelInput
<1>17. ASSUME NEW c \in Commands,
              \/ ReceiveCommand(c) \/ ReapOperation(c)
              \/ \E answer \in Answers : ExecuteCommand(c, answer)
       PROVE  LockIsHeld'
  BY <1>17 DEF ReceiveCommand, ReapOperation, ExecuteCommand
<1>18. ASSUME Disconnect \/ AgentRestart PROVE LockIsHeld'
  BY <1>18 DEF Disconnect, AgentRestart
<1>19. ASSUME Connect \/ Unregister PROVE LockIsHeld'
  BY <1>19 DEF Connect, Unregister, FailPending
<1>20. ASSUME ServerRestart PROVE LockIsHeld'
  BY <1>20 DEF ServerRestart
<1>21. ASSUME UNCHANGED vars PROVE LockIsHeld'
  BY <1>21 DEF vars
<1>22. ASSUME NEW p \in Posts, HandlerTimesOut(p) PROVE LockIsHeld'
  BY <1>22 DEF HandlerTimesOut, Respond
<1>23. LockExpiresInSend \/ ForceRelease => UNCHANGED vars
  BY DEF LocksAreKept
<1> QED
  BY <1>1, <1>2, <1>3, <1>4, <1>5, <1>6, <1>7, <1>8, <1>9, <1>10, <1>11, <1>12, <1>13, <1>14,
     <1>15, <1>16, <1>17, <1>18, <1>19, <1>20, <1>21, <1>22, <1>23
  DEF Next, Handler, Drain, Dispatch


---------------------------------------------------------------------------
(* Answers are true.  A result that says ok, wherever it is on its way to  *)
(* the receipt, is of a prompt the provider took.                          *)

AnswersAreTrue ==
  /\ \A res \in back : res.answer = "ok" => injected[InputOf(res.command)] > 0
  /\ \A s \in Senders :
       outcome[s] = "ok" => pc[s] \in {"answered", "settling"} /\ injected[job[s]] > 0
  /\ \A s \in Senders : pc[s] = "answered" => outcome[s] \in {"ok", "rejected", "unknown"}
  /\ DeliveredIsInjected

(* Only the machine's own answer makes a receipt delivered.                *)
LEMMA AnswersStep ==
  ASSUME TypeOK, JobsKnown, AnswersAreTrue, [Next]_vars
  PROVE  AnswersAreTrue'
<1>n. /\ Posts \subseteq Senders /\ Drains \subseteq Senders
      /\ \A p \in Posts : p \notin Inputs /\ p \notin Drains
      /\ \A i \in Inputs : i # 0
  BY Names, InputAssumption
<1> USE <1>n DEF AnswersAreTrue, DeliveredIsInjected, InputOf, TypeOK, Goto, Settled,
                 receipts, tasks, locks, link, agent
<1>i. ASSUME \A p \in Posts : job'[p] = job[p]
      PROVE  \A res \in back : InputOf(res.command)' = InputOf(res.command)
  BY <1>i DEF Commands
<1>1. ASSUME NEW p \in Posts, NEW i \in Inputs, NEW how \in Intents, PostChecks(p, i, how)
      PROVE  AnswersAreTrue'
  <2>1. how \in {"auto", "queue", "steer"}
    BY InputAssumption
  <2>2. \A res \in back : res.command # p
    BY <1>1 DEF PostChecks, JobsKnown, Flying
  <2> QED  BY <1>1, <2>1, <2>2 DEF PostChecks
<1>2. ASSUME NEW p \in Posts, PostLocks(p) PROVE AnswersAreTrue'
  BY <1>2 DEF PostLocks
<1>3. ASSUME NEW p \in Posts, PostQueues(p) \/ PostFails(p) PROVE AnswersAreTrue'
  BY <1>3 DEF PostQueues, PostFails, Respond, Upsert, JobsKnown
<1>4. ASSUME NEW p \in Posts, PostRecords(p) PROVE AnswersAreTrue'
  BY <1>4 DEF PostRecords, Upsert, JobsKnown
<1>5. ASSUME NEW d \in Drains, DrainStarts(d) \/ DrainFindsNothing(d) PROVE AnswersAreTrue'
  BY <1>5 DEF DrainStarts, DrainFindsNothing
<1>6. ASSUME NEW d \in Drains, DrainExpires(d) \/ DrainLosesClaim(d) PROVE AnswersAreTrue'
  BY <1>6 DEF DrainExpires, DrainLosesClaim, Claim, Queued
<1>7. ASSUME NEW d \in Drains, DrainClaims(d) PROVE AnswersAreTrue'
  <2>1. \A p \in Posts : job'[p] = job[p]
    BY <1>7 DEF DrainClaims
  <2>2. DeliveredIsInjected'
    BY <1>7 DEF DrainClaims, Claim, Queued
  <2>3. \A s \in Senders : outcome'[s] = outcome[s] /\ (s # d => job'[s] = job[s] /\ pc'[s] = pc[s])
    BY <1>7 DEF DrainClaims
  <2>4. pc[d] = "claiming" /\ pc'[d] = "ready" /\ UNCHANGED <<back, injected>>
    BY <1>7 DEF DrainClaims
  <2> QED
    <3> HIDE DEF InputOf, DeliveredIsInjected
    <3> QED  BY <1>i, <2>1, <2>2, <2>3, <2>4
<1>8. ASSUME NEW d \in Drains, SettleExpired(d) PROVE AnswersAreTrue'
  <2>1. \A p \in Posts : job'[p] = job[p]
    BY <1>8 DEF SettleExpired, EndTask
  <2>2. DeliveredIsInjected'
    BY <1>8 DEF SettleExpired, EndTask
  <2>3. \A s \in Senders : s # d => outcome'[s] = outcome[s] /\ job'[s] = job[s] /\ pc'[s] = pc[s]
    BY <1>8 DEF SettleExpired, EndTask
  <2>4. pc'[d] = "idle" /\ outcome'[d] = "none" /\ UNCHANGED <<back, injected>>
    BY <1>8 DEF SettleExpired, EndTask
  <2> QED
    <3> HIDE DEF InputOf, DeliveredIsInjected
    <3> QED  BY <1>i, <2>1, <2>2, <2>3, <2>4
<1>9. ASSUME NEW s \in Senders, Prepare(s) \/ PrepareFails(s) \/ ReplyTimeout(s)
      PROVE  AnswersAreTrue'
  BY <1>9 DEF Prepare, PrepareFails, ReplyTimeout, Fail, Answered
<1>10. ASSUME NEW s \in Senders, SendCommand(s) PROVE AnswersAreTrue'
  BY <1>10 DEF SendCommand, Answered
<1>11. ASSUME NEW res \in back, CompleteCommand(res) PROVE AnswersAreTrue'
  <2>1. ASSUME NEW s \in Senders, pc[s] = "waiting", CommandOf(s) = res.command
        PROVE  InputOf(res.command) = job[s]
    BY <2>1, CommandFacts DEF Attempting
  <2>2. res.answer \in {"ok", "rejected"}
    BY DEF Answers
  <2>3. UNCHANGED <<status, job, injected>> /\ back' \subseteq back
    BY <1>11 DEF CompleteCommand
  <2>4. \A k \in back : InputOf(k.command)' = InputOf(k.command)
    BY <1>i, <2>3
  <2>5. CASE UNCHANGED <<pc, outcome>>
    <3> HIDE DEF InputOf
    <3> QED  BY <2>3, <2>4, <2>5
  <2>6. ASSUME NEW s \in Senders, pc[s] = "waiting", CommandOf(s) = res.command,
               Answered(s, res.answer)
        PROVE  AnswersAreTrue'
    <3>1. InputOf(res.command) = job[s]
      BY <2>1, <2>6
    <3>2. pc' = [pc EXCEPT ![s] = "answered"] /\ outcome' = [outcome EXCEPT ![s] = res.answer]
      BY <2>6 DEF Answered
    <3>3. res.answer = "ok" => injected[job[s]] > 0
      BY <3>1
    <3> HIDE DEF InputOf
    <3> QED  BY <2>2, <2>3, <2>4, <3>2, <3>3
  <2> QED  BY <1>11, <2>5, <2>6 DEF CompleteCommand
<1>12. ASSUME NEW s \in Senders, FinishOperation(s) PROVE AnswersAreTrue'
  BY <1>12 DEF FinishOperation, Fail
<1>13. ASSUME NEW s \in Senders, Settle(s) \/ SettleFails(s) PROVE AnswersAreTrue'
  <2>1. job[s] \in Inputs
    BY <1>13 DEF Settle, SettleFails, JobsKnown, Attempting
  <2>2. DeliveredIsInjected'
    BY <1>13, <2>1 DEF Settle, SettleFails, FinishReceipt
  <2>3. \A p \in Posts : job'[p] = job[p]
    BY <1>13 DEF Settle, SettleFails, EndTask, Senders
  <2>4. \A t \in Senders : t # s => outcome'[t] = outcome[t] /\ job'[t] = job[t] /\ pc'[t] = pc[t]
    BY <1>13 DEF Settle, SettleFails, EndTask, Respond
  <2>5. pc'[s] \in {"idle", "done"} /\ outcome'[s] = "none" /\ UNCHANGED <<back, injected>>
    BY <1>13 DEF Settle, SettleFails, EndTask, Respond
  <2> QED
    <3> HIDE DEF InputOf, DeliveredIsInjected
    <3> QED  BY <1>i, <2>2, <2>3, <2>4, <2>5
<1>14. ASSUME NEW s \in Senders, WatcherReleases(s) PROVE AnswersAreTrue'
  BY <1>14 DEF WatcherReleases
<1>15. ASSUME NEW i \in Inputs, CancelInput(i) PROVE AnswersAreTrue'
  BY <1>15 DEF CancelInput
<1>16. ASSUME NEW c \in Commands, ReceiveCommand(c) \/ ReapOperation(c) PROVE AnswersAreTrue'
  BY <1>16 DEF ReceiveCommand, ReapOperation
<1>17. ASSUME NEW c \in Commands, NEW answer \in Answers, ExecuteCommand(c, answer)
       PROVE  AnswersAreTrue'
  <2>1. InputOf(c) \in Inputs
    BY <1>17 DEF ExecuteCommand, Commands, JobsKnown, Flying
  <2>2. \A i \in Inputs : injected[i] > 0 => injected'[i] > 0
    BY <1>17, <2>1 DEF ExecuteCommand
  <2>3. \A res \in back : InputOf(res.command) \in Inputs
    BY DEF Commands, JobsKnown, Flying
  <2>4. \A s \in Senders : outcome[s] = "ok" => job[s] \in Inputs
    BY DEF JobsKnown, Attempting
  <2>5. answer = "ok" => injected'[InputOf(c)] > 0
    BY <1>17, <2>1 DEF ExecuteCommand
  <2>6. UNCHANGED <<status, pc, job, outcome>>
    BY <1>17 DEF ExecuteCommand
  <2>7. \A k \in Commands : InputOf(k)' = InputOf(k)
    BY <2>6
  <2>8. back' \subseteq back \cup {[command |-> c, answer |-> answer]}
    BY <1>17 DEF ExecuteCommand
  <2> HIDE DEF InputOf
  <2> QED  BY <2>1, <2>2, <2>3, <2>4, <2>5, <2>6, <2>7, <2>8
<1>18. ASSUME LockExpires \/ LockExpiresInSend \/ ForceRelease \/ Disconnect \/ AgentRestart
       PROVE  AnswersAreTrue'
  BY <1>18 DEF LockExpires, LockExpiresInSend, ForceRelease, Disconnect, AgentRestart
<1>19. ASSUME Connect \/ Unregister PROVE AnswersAreTrue'
  BY <1>19 DEF Connect, Unregister, FailPending
<1>20. ASSUME ServerRestart PROVE AnswersAreTrue'
  BY <1>20 DEF ServerRestart
<1>21. ASSUME UNCHANGED vars PROVE AnswersAreTrue'
  BY <1>21 DEF vars
<1>22. ASSUME NEW p \in Posts, HandlerTimesOut(p) PROVE AnswersAreTrue'
  <2>1. job[p] \in Inputs
    BY <1>22 DEF HandlerTimesOut, JobsKnown, Attempting, Dispatching
  <2>2. UNCHANGED <<job, back, injected>>
    BY <1>22 DEF HandlerTimesOut
  <2>3. DeliveredIsInjected'
    <3>1. CASE UNCHANGED receipts
      BY <2>2, <3>1
    <3>2. CASE Upsert(job[p], "queued", 0) \/ Upsert(job[p], "delivering", p)
      BY <2>1, <2>2, <3>2 DEF Upsert
    <3>3. CASE FinishReceipt(p)
      BY <2>1, <2>2, <3>3 DEF FinishReceipt
    <3> QED  BY <1>22, <3>1, <3>2, <3>3 DEF HandlerTimesOut
  <2>4. \A t \in Senders : t # p => outcome'[t] = outcome[t] /\ pc'[t] = pc[t]
    BY <1>22 DEF HandlerTimesOut, Respond
  <2>5. pc'[p] = "done" /\ outcome'[p] # "ok"
    BY <1>22 DEF HandlerTimesOut, Respond
  <2> QED
    <3> HIDE DEF InputOf, DeliveredIsInjected
    <3> QED  BY <1>i, <2>2, <2>3, <2>4, <2>5
<1> QED
  BY <1>1, <1>2, <1>3, <1>4, <1>5, <1>6, <1>7, <1>8, <1>9, <1>10, <1>11, <1>12, <1>13, <1>14,
     <1>15, <1>16, <1>17, <1>18, <1>19, <1>20, <1>21, <1>22
  DEF Next, Handler, Drain, Dispatch


---------------------------------------------------------------------------
(* At most one delivery.  The receipt is what keeps attempts apart: an     *)
(* attempt owns it while it lasts, and it is put back in the queue only by *)
(* an attempt that has sent nothing.                                       *)

Carried(c, i) == (c \in wire \/ c \in running) /\ InputOf(c) = i
Unsent(i) == injected[i] = 0 /\ \A c \in Commands : ~ Carried(c, i)

(* An attempt that has not sent its command, and a receipt nobody works on.*)
Fresh(s) == pc[s] \in {"ready", "prepared"} \/ (pc[s] = "settling" /\ Transient(s))
Arriving(i) == \A p \in Posts : job[p] = i => pc[p] \in {"locking", "queueing", "locked"}

SentOnce(i) ==
  /\ \A s \in Senders :
       job[s] = i /\ pc[s] \in Attempting => status[i] = "delivering" /\ owner[i] = s
  /\ \A s \in Senders : job[s] = i /\ Fresh(s) => Unsent(i)
  /\ status[i] \in {"none", "queued", "cancelled"} => Unsent(i)
  /\ Arriving(i) => status[i] = "none"
  /\ \A c, k \in Commands : Carried(c, i) /\ Carried(k, i) => c = k
  /\ \A c \in Commands : Carried(c, i) => injected[i] = 0 /\ ~ (c \in wire /\ c \in running)
  /\ injected[i] <= 1

DeliveryInv == \A i \in Inputs : PostedOnce(i) => SentOnce(i)

(* A request works for one input, and a command carries one.               *)
LEMMA JobsStay ==
  ASSUME TypeOK, JobsKnown, [Next]_vars
  PROVE  /\ \A p \in Posts : job[p] # 0 => job'[p] = job[p]
         /\ \A c \in Commands : c \in wire \/ c \in running => InputOf(c)' = InputOf(c)
<1>n. \A p \in Posts : p \in Senders /\ p \notin Drains
  BY Names
<1>1. \A p \in Posts : job[p] # 0 => job'[p] = job[p]
  <2> USE <1>n DEF TypeOK, receipts, tasks, locks, link, agent
  <2>1. ASSUME NEW p \in Posts, NEW i \in Inputs, NEW how \in Intents, PostChecks(p, i, how)
        PROVE  \A q \in Posts : job[q] # 0 => job'[q] = job[q]
    BY <2>1 DEF PostChecks, JobsKnown
  <2>2. ASSUME NEW s \in Senders, Settle(s) \/ SettleFails(s)
        PROVE  \A q \in Posts : job'[q] = job[q]
    BY <2>2 DEF Settle, SettleFails, EndTask
  <2>3. ASSUME NEW d \in Drains, DrainClaims(d) \/ SettleExpired(d)
        PROVE  \A q \in Posts : job'[q] = job[q]
    BY <2>3 DEF DrainClaims, SettleExpired, EndTask
  <2>4. ASSUME ServerRestart PROVE \A q \in Posts : job'[q] = job[q]
    BY <2>4 DEF ServerRestart
  <2>5. ASSUME NEW p \in Posts, \/ PostLocks(p) \/ PostQueues(p) \/ PostRecords(p)
                                  \/ PostFails(p) \/ HandlerTimesOut(p)
        PROVE  UNCHANGED job
    BY <2>5 DEF PostLocks, PostQueues, PostRecords, PostFails, HandlerTimesOut
  <2>6. ASSUME NEW d \in Drains,
               DrainStarts(d) \/ DrainFindsNothing(d) \/ DrainExpires(d) \/ DrainLosesClaim(d)
        PROVE  UNCHANGED job
    BY <2>6 DEF DrainStarts, DrainFindsNothing, DrainExpires, DrainLosesClaim
  <2>7. ASSUME NEW s \in Senders,
               \/ Prepare(s) \/ PrepareFails(s) \/ SendCommand(s) \/ ReplyTimeout(s)
               \/ FinishOperation(s) \/ WatcherReleases(s)
        PROVE  UNCHANGED job
    BY <2>7 DEF Prepare, PrepareFails, SendCommand, ReplyTimeout, FinishOperation, WatcherReleases
  <2>8. ASSUME \/ \E i \in Inputs : CancelInput(i)
               \/ \E c \in Commands : ReceiveCommand(c) \/ ReapOperation(c)
               \/ \E c \in Commands, answer \in Answers : ExecuteCommand(c, answer)
               \/ \E res \in back : CompleteCommand(res)
               \/ LockExpires \/ LockExpiresInSend \/ ForceRelease
               \/ Connect \/ Disconnect \/ Unregister \/ AgentRestart
               \/ UNCHANGED vars
        PROVE  UNCHANGED job
    BY <2>8 DEF CancelInput, ReceiveCommand, ReapOperation, ExecuteCommand, CompleteCommand,
       LockExpires, LockExpiresInSend, ForceRelease, Connect, Disconnect, Unregister,
       AgentRestart, vars
  <2> QED
    BY <2>1, <2>2, <2>3, <2>4, <2>5, <2>6, <2>7, <2>8 DEF Next, Handler, Drain, Dispatch
<1>2. \A c \in Commands : c \in wire \/ c \in running => InputOf(c)' = InputOf(c)
  BY <1>1, Names, InputAssumption DEF Commands, InputOf, JobsKnown, Flying
<1> QED  BY <1>1, <1>2


(* What a step may do without touching the delivery of an input.           *)
LEMMA DeliveryFrame ==
  ASSUME NEW i \in Inputs, SentOnce(i),
         status'[i] = status[i], owner'[i] = owner[i], injected'[i] = injected[i],
         \A c \in Commands : Carried(c, i)' => Carried(c, i),
         \A c \in Commands : Carried(c, i)' /\ c \in wire' /\ c \in running' =>
                               c \in wire /\ c \in running,
         \A s \in Senders : job'[s] = i /\ pc'[s] \in Attempting =>
                              job[s] = i /\ pc[s] \in Attempting,
         \A s \in Senders : job'[s] = i /\ Fresh(s)' => job[s] = i /\ Fresh(s),
         Arriving(i)' => Arriving(i)
  PROVE  SentOnce(i)'
<1>1. Unsent(i) => Unsent(i)'
  BY DEF Unsent
<1> QED  BY <1>1 DEF SentOnce

(* No step delivers an input a second time.                                *)
LEMMA DeliveryStep ==
  ASSUME TypeOK, JobsKnown, AnswersAreTrue, DeliveryInv, [Next]_vars
  PROVE  DeliveryInv'
<1>n. /\ Posts \subseteq Senders /\ Drains \subseteq Senders
      /\ \A p \in Posts : p \notin Inputs /\ p \notin Drains
      /\ \A j \in Inputs : j # 0
  BY Names, InputAssumption
<1> SUFFICES ASSUME NEW i \in Inputs, PostedOnce(i)' PROVE SentOnce(i)'
  BY DEF DeliveryInv
<1>j. \A p \in Posts : job[p] # 0 => job'[p] = job[p]
  BY JobsStay
<1>p. PostedOnce(i)
  BY <1>j, <1>n DEF PostedOnce
<1>s. SentOnce(i)
  BY <1>p DEF DeliveryInv
<1>c. \A c \in Commands : c \in wire \/ c \in running => InputOf(c)' = InputOf(c)
  BY JobsStay
<1>w. ASSUME wire' \subseteq wire, running' \subseteq running
      PROVE  /\ \A c \in Commands : Carried(c, i)' => Carried(c, i)
             /\ \A c \in Commands : c \in wire' /\ c \in running' => c \in wire /\ c \in running
  BY <1>w, <1>c DEF Carried
<1>u. ASSUME wire' \subseteq wire, running' \subseteq running, injected' = injected, Unsent(i)
      PROVE  Unsent(i)'
  BY <1>u, <1>w DEF Unsent
<1>t. ASSUME NEW t \in Senders,
             \A s \in Senders : s # t => job'[s] = job[s] /\ pc'[s] = pc[s] /\ outcome'[s] = outcome[s],
             status'[i] = status[i], owner'[i] = owner[i], injected' = injected,
             wire' \subseteq wire, running' \subseteq running,
             job'[t] = i /\ pc'[t] \in Attempting => job[t] = i /\ pc[t] \in Attempting,
             job'[t] = i /\ Fresh(t)' => job[t] = i /\ Fresh(t),
             pc'[t] \in {"locking", "queueing", "locked"} =>
               job[t] # i \/ pc[t] \in {"locking", "queueing", "locked"}
      PROVE  SentOnce(i)'
  <2>1. Arriving(i)' => Arriving(i)
    BY <1>t, <1>j, <1>n DEF Arriving
  <2>2. \A s \in Senders : s # t => (Fresh(s)' <=> Fresh(s))
    BY <1>t DEF Fresh, Transient
  <2> QED  BY <1>s, <1>t, <1>w, <2>1, <2>2, DeliveryFrame
<1> USE <1>n, <1>s DEF TypeOK, Goto, Attempting, receipts, tasks, locks, link, agent
<1>1. ASSUME NEW p \in Posts, NEW k \in Inputs, NEW how \in Intents, PostChecks(p, k, how)
      PROVE  SentOnce(i)'
  <2>1. how \in {"auto", "queue", "steer"}
    BY InputAssumption
  <2>2. /\ job[p] = 0 /\ pc'[p] \in {"locking", "queueing", "locked"}
        /\ UNCHANGED <<status, owner, injected, outcome, wire, running>>
    BY <1>1, <2>1 DEF PostChecks, JobsKnown
  <2>3. \A s \in Senders : s # p => job'[s] = job[s] /\ pc'[s] = pc[s]
    BY <1>1 DEF PostChecks
  <2>4. ~ Fresh(p)'
    BY <2>2 DEF Fresh
  <2> QED  BY <1>t, <2>2, <2>3, <2>4
<1>2. ASSUME NEW p \in Posts, PostLocks(p) PROVE SentOnce(i)'
  <2>1. /\ pc[p] = "locking" /\ pc'[p] \in {"queueing", "locked"}
        /\ UNCHANGED <<status, owner, injected, outcome, wire, running, job>>
        /\ \A s \in Senders : s # p => pc'[s] = pc[s]
    BY <1>2 DEF PostLocks
  <2>2. ~ Fresh(p)'
    BY <2>1 DEF Fresh
  <2> QED  BY <1>t, <2>1, <2>2
<1>3. ASSUME NEW p \in Posts, PostQueues(p) \/ PostRecords(p) \/ PostFails(p) PROVE SentOnce(i)'
  <2>1. /\ pc[p] \in {"queueing", "locked"} /\ pc'[p] \in {"done", "ready"}
        /\ UNCHANGED <<injected, outcome, wire, running, job>>
        /\ \A s \in Senders : s # p => pc'[s] = pc[s]
    BY <1>3 DEF PostQueues, PostRecords, PostFails, Respond
  <2>2. \/ UNCHANGED receipts /\ pc'[p] = "done"
        \/ Upsert(job[p], "queued", 0) /\ pc'[p] = "done"
        \/ Upsert(job[p], "delivering", p)
    BY <1>3 DEF PostQueues, PostRecords, PostFails, Respond
  <2>3. job[p] \in Inputs
    BY <2>1 DEF JobsKnown
  <2>4. CASE job[p] # i
    <3>1. status'[i] = status[i] /\ owner'[i] = owner[i]
      BY <2>2, <2>3, <2>4 DEF Upsert
    <3> QED  BY <1>t, <2>1, <2>4, <3>1
  <2>5. CASE job[p] = i
    <3>1. Arriving(i) /\ ~ Arriving(i)'
      BY <1>p, <2>1, <2>5 DEF Arriving, PostedOnce
    <3>2. status[i] = "none" /\ Unsent(i)
      BY <3>1 DEF SentOnce
    <3>3. Unsent(i)'
      BY <1>u, <2>1, <3>2
    <3>4. \A s \in Senders : job[s] = i => pc[s] \notin Attempting
      BY <3>2 DEF SentOnce
    <3>5. \A s \in Senders : job'[s] = i /\ pc'[s] \in Attempting => s = p /\ pc'[p] = "ready"
      BY <2>1, <3>4
    <3>6. pc'[p] = "ready" => status'[i] = "delivering" /\ owner'[i] = p
      <4>1. p # 0
        BY Names
      <4> QED  BY <2>1, <2>2, <2>5, <4>1 DEF Upsert
    <3> QED  BY <2>5, <3>1, <3>3, <3>5, <3>6 DEF SentOnce, Unsent
  <2> QED  BY <2>4, <2>5
<1>4. ASSUME NEW d \in Drains, DrainStarts(d) \/ DrainFindsNothing(d) PROVE SentOnce(i)'
  <2>1. /\ pc'[d] \in {"claiming", "idle"}
        /\ UNCHANGED <<status, owner, injected, outcome, wire, running, job>>
        /\ \A s \in Senders : s # d => pc'[s] = pc[s]
    BY <1>4 DEF DrainStarts, DrainFindsNothing
  <2>2. ~ Fresh(d)'
    BY <2>1 DEF Fresh
  <2> QED  BY <1>t, <2>1, <2>2
<1>z. ASSUME Unsent(i)', ~ Arriving(i)',
             \A s \in Senders : job'[s] = i /\ pc'[s] \in Attempting =>
                                  status'[i] = "delivering" /\ owner'[i] = s
      PROVE  SentOnce(i)'
  BY <1>z DEF SentOnce, Unsent
<1>5. ASSUME status[i] = "queued", UNCHANGED <<injected, wire, running>>,
             \A p \in Posts : pc'[p] = pc[p] /\ job'[p] = job[p],
             \A s \in Senders : job'[s] = i /\ pc'[s] \in Attempting =>
                                  status'[i] = "delivering" /\ owner'[i] = s
      PROVE  SentOnce(i)'
  <2>1. Unsent(i)'
    BY <1>5, <1>u DEF SentOnce
  <2>2. ~ Arriving(i)'
    BY <1>5 DEF SentOnce, Arriving
  <2> QED  BY <1>5, <1>z, <2>1, <2>2
<1>v. ASSUME UNCHANGED tasks, status'[i] = status[i], owner'[i] = owner[i],
             injected'[i] = injected[i], wire' \subseteq wire, running' \subseteq running
      PROVE  SentOnce(i)'
  <2>1. /\ \A s \in Senders : Fresh(s)' <=> Fresh(s)
        /\ Arriving(i)' <=> Arriving(i)
    BY <1>v DEF Fresh, Transient, Arriving
  <2> QED  BY <1>v, <1>w, <2>1, DeliveryFrame
<1>q. ASSUME status[i] = "queued"
      PROVE  \A s \in Senders : job[s] = i => pc[s] \notin Attempting
  BY <1>q DEF SentOnce
<1>6. ASSUME NEW k \in Inputs, status[k] = "queued", UNCHANGED <<injected, wire, running, owner, tasks>>,
             NEW state, status' = [status EXCEPT ![k] = state]
      PROVE  SentOnce(i)'
  <2>1. CASE k = i
    BY <1>5, <1>6, <1>q, <2>1
  <2>2. CASE k # i
    BY <1>6, <1>v, <2>2
  <2> QED  BY <2>1, <2>2
<1>7. ASSUME NEW d \in Drains, DrainExpires(d) PROVE SentOnce(i)'
  BY <1>6, <1>7 DEF DrainExpires, Queued
<1>8. ASSUME NEW k \in Inputs, CancelInput(k) PROVE SentOnce(i)'
  BY <1>6, <1>8 DEF CancelInput
<1>9. ASSUME NEW d \in Drains, DrainClaims(d) \/ DrainLosesClaim(d) PROVE SentOnce(i)'
  <2>1. PICK k \in Inputs : /\ status[k] = "queued"
                            /\ status' = [status EXCEPT ![k] = "delivering"]
                            /\ owner' = [owner EXCEPT ![k] = d]
                            /\ pc'[d] = "ready" => job'[d] = k
    BY <1>9 DEF DrainClaims, DrainLosesClaim, Claim, Queued
  <2>2. /\ UNCHANGED <<injected, wire, running, outcome>>
        /\ \A s \in Senders : s # d => pc'[s] = pc[s] /\ job'[s] = job[s]
        /\ pc'[d] \in {"ready", "idle"}
    BY <1>9 DEF DrainClaims, DrainLosesClaim
  <2>3. CASE k = i
    <3>1. \A s \in Senders : job'[s] = i /\ pc'[s] \in Attempting =>
                               status'[i] = "delivering" /\ owner'[i] = s
      BY <1>q, <2>1, <2>2, <2>3
    <3>2. \A p \in Posts : pc'[p] = pc[p] /\ job'[p] = job[p]
      BY <2>2
    <3> QED  BY <1>5, <2>1, <2>2, <2>3, <3>1, <3>2
  <2>4. CASE k # i
    <3>1. status'[i] = status[i] /\ owner'[i] = owner[i]
      BY <2>1, <2>4
    <3>2. ~ (job'[d] = i /\ (pc'[d] \in Attempting \/ Fresh(d)'))
      BY <2>1, <2>2, <2>4 DEF Fresh
    <3> QED  BY <1>t, <2>2, <3>1, <3>2
  <2> QED  BY <2>3, <2>4
<1>10. ASSUME NEW s \in Senders,
              Prepare(s) \/ PrepareFails(s) \/ ReplyTimeout(s) \/ FinishOperation(s)
       PROVE  SentOnce(i)'
  <2>1. /\ UNCHANGED <<status, owner, injected, wire, running, job>>
        /\ \A r \in Senders : r # s => pc'[r] = pc[r] /\ outcome'[r] = outcome[r]
        /\ pc[s] \in Attempting /\ pc'[s] \in Attempting
    BY <1>10 DEF Prepare, PrepareFails, ReplyTimeout, FinishOperation, Fail, Answered
  <2>2. Fresh(s)' => Fresh(s)
    <3>1. CASE Prepare(s) \/ PrepareFails(s)
      BY <3>1 DEF Prepare, PrepareFails, Fresh
    <3>2. CASE ReplyTimeout(s)
      BY <3>2 DEF ReplyTimeout, Answered, Fresh
    <3>3. CASE FinishOperation(s)
      <4>1. outcome[s] # "transient" /\ outcome'[s] = outcome[s] /\ pc'[s] = "settling"
        BY <3>3 DEF FinishOperation, Fail, AnswersAreTrue
      <4> QED  BY <4>1 DEF Fresh, Transient
    <3> QED  BY <1>10, <3>1, <3>2, <3>3
  <2> QED  BY <1>t, <2>1, <2>2
<1>11. ASSUME NEW s \in Senders, SendCommand(s) PROVE SentOnce(i)'
  <2>1. /\ UNCHANGED <<status, owner, injected, running, job>>
        /\ \A r \in Senders : r # s => pc'[r] = pc[r] /\ outcome'[r] = outcome[r]
        /\ pc[s] = "prepared" /\ pc'[s] \in {"waiting", "answered"}
        /\ wire' \subseteq wire \cup {CommandOf(s)}
    BY <1>11 DEF SendCommand, Answered
  <2>2. InputOf(CommandOf(s)) = job[s] /\ CommandOf(s) \in Commands
    BY <2>1, CommandFacts
  <2>3. \A c \in Commands : InputOf(c)' = InputOf(c)
    BY <2>1 DEF InputOf
  <2>4. ~ Fresh(s)' /\ \A r \in Senders : r # s => (Fresh(r)' <=> Fresh(r))
    BY <2>1 DEF Fresh, Transient
  <2>5. Arriving(i)' => Arriving(i)
    BY <2>1 DEF Arriving
  <2>6. CASE job[s] = i
    <3>1. Unsent(i) /\ owner[i] = s /\ status[i] = "delivering"
      BY <2>1, <2>6 DEF SentOnce, Fresh
    <3>2. \A r \in Senders : job[r] = i /\ pc[r] \in Attempting => r = s
      BY <3>1 DEF SentOnce
    <3>3. \A c \in Commands : Carried(c, i)' => c = CommandOf(s) /\ c \notin running'
      BY <2>1, <2>2, <2>3, <2>6, <3>1 DEF Unsent, Carried
    <3>4. \A r \in Senders : job'[r] = i /\ pc'[r] \in Attempting => r = s
      BY <2>1, <3>2
    <3>5. \A r \in Senders : job'[r] = i => ~ Fresh(r)'
      BY <2>1, <2>4, <3>2 DEF Fresh
    <3>6. ~ Arriving(i)'
      BY <2>5, <3>1 DEF SentOnce
    <3> QED  BY <2>1, <3>1, <3>3, <3>4, <3>5, <3>6 DEF SentOnce, Unsent
  <2>7. CASE job[s] # i
    <3>1. \A c \in Commands : Carried(c, i)' => Carried(c, i) /\ (c \in wire' => c \in wire)
      BY <2>1, <2>2, <2>3, <2>7 DEF Carried
    <3> QED  BY <2>1, <2>4, <2>5, <2>7, <3>1, DeliveryFrame
  <2> QED  BY <2>6, <2>7
<1>12. ASSUME NEW res \in back, CompleteCommand(res) PROVE SentOnce(i)'
  <2>1. UNCHANGED <<status, owner, injected, wire, running, job, intent>>
    BY <1>12 DEF CompleteCommand
  <2>2. CASE UNCHANGED <<pc, outcome>>
    BY <1>v, <2>1, <2>2
  <2>3. ASSUME NEW s \in Senders, pc[s] = "waiting", Answered(s, res.answer) PROVE SentOnce(i)'
    <3>1. pc'[s] = "answered" /\ \A r \in Senders : r # s => pc'[r] = pc[r] /\ outcome'[r] = outcome[r]
      BY <2>3 DEF Answered
    <3>2. ~ Fresh(s)'
      BY <3>1 DEF Fresh
    <3> QED  BY <1>t, <2>1, <2>3, <3>1, <3>2
  <2> QED  BY <1>12, <2>2, <2>3 DEF CompleteCommand
<1>13. ASSUME NEW s \in Senders, Settle(s) \/ SettleFails(s) \/ (s \in Drains /\ SettleExpired(s))
       PROVE  SentOnce(i)'
  <2>1. /\ UNCHANGED <<injected, wire, running>>
        /\ \A r \in Senders : r # s => pc'[r] = pc[r] /\ outcome'[r] = outcome[r] /\ job'[r] = job[r]
        /\ pc[s] = "settling" /\ pc'[s] \in {"idle", "done"}
        /\ s \in Posts => job'[s] = job[s] /\ pc'[s] = "done"
    BY <1>13 DEF Settle, SettleFails, SettleExpired, EndTask, Respond
  <2>2. ~ Fresh(s)'
    BY <2>1 DEF Fresh
  <2>3. job[s] \in Inputs
    BY <2>1 DEF JobsKnown
  <2>4. CASE job[s] # i
    <3>1. status'[i] = status[i] /\ owner'[i] = owner[i]
      BY <1>13, <2>3, <2>4 DEF Settle, SettleFails, SettleExpired, FinishReceipt
    <3> QED  BY <1>t, <2>1, <2>2, <3>1
  <2>5. CASE job[s] = i
    <3>1. status[i] = "delivering" /\ owner[i] = s
      BY <2>1, <2>5 DEF SentOnce
    <3>2. \/ status'[i] \in {"delivering", "delivered", "failed"}
          \/ status'[i] = "queued" /\ Transient(s)
      BY <1>13, <2>5, <3>1 DEF Settle, SettleFails, SettleExpired, FinishReceipt
    <3>3. Transient(s) => Unsent(i)'
      BY <1>u, <2>1, <2>5 DEF SentOnce, Fresh
    <3>4. \A r \in Senders : job'[r] = i => pc'[r] \notin Attempting
      BY <2>1, <3>1 DEF SentOnce
    <3>5. ~ Arriving(i)'
      BY <2>1, <2>5, <3>1 DEF SentOnce, Arriving
    <3>6. \A r \in Senders : job'[r] = i => ~ Fresh(r)'
      BY <3>4 DEF Fresh
    <3>7. \A c \in Commands : Carried(c, i)' => Carried(c, i)
      BY <1>w, <2>1
    <3> QED  BY <2>1, <3>2, <3>3, <3>4, <3>5, <3>6, <3>7 DEF SentOnce
  <2> QED  BY <2>4, <2>5
<1>14. ASSUME \/ \E s \in Senders : WatcherReleases(s)
              \/ \E c \in Commands : ReapOperation(c)
              \/ LockExpires \/ LockExpiresInSend \/ ForceRelease
              \/ Disconnect \/ AgentRestart \/ UNCHANGED vars
       PROVE  SentOnce(i)'
  BY <1>14, <1>v DEF WatcherReleases, ReapOperation, LockExpires, LockExpiresInSend, ForceRelease,
     Disconnect, AgentRestart, vars
<1>15. ASSUME NEW c \in Commands, ReceiveCommand(c) PROVE SentOnce(i)'
  <2>1. /\ UNCHANGED <<status, owner, injected, tasks>> /\ c \in wire
        /\ wire' = wire \ {c} /\ running' = running \cup {c}
    BY <1>15 DEF ReceiveCommand
  <2>2. /\ \A k \in Commands : Carried(k, i)' => Carried(k, i)
        /\ \A k \in Commands : k \in wire' /\ k \in running' => k \in wire /\ k \in running
    BY <1>c, <2>1 DEF Carried
  <2>3. /\ \A s \in Senders : Fresh(s)' <=> Fresh(s)
        /\ Arriving(i)' <=> Arriving(i)
    BY <2>1 DEF Fresh, Transient, Arriving
  <2> QED  BY <2>1, <2>2, <2>3, DeliveryFrame
<1>16. ASSUME NEW c \in Commands, NEW answer \in Answers, ExecuteCommand(c, answer)
       PROVE  SentOnce(i)'
  <2>1. /\ UNCHANGED <<status, owner, tasks, wire>> /\ c \in running /\ running' = running \ {c}
        /\ injected' = IF answer = "ok" THEN [injected EXCEPT ![InputOf(c)] = @ + 1] ELSE injected
    BY <1>16 DEF ExecuteCommand
  <2>2. CASE InputOf(c) # i
    <3>1. injected'[i] = injected[i]
      BY <2>1, <2>2
    <3> QED  BY <1>v, <2>1, <3>1
  <2>3. CASE InputOf(c) = i
    <3>1. Carried(c, i)
      BY <2>1, <2>3 DEF Carried
    <3>2. injected[i] = 0 /\ c \notin wire /\ ~ Unsent(i)
      BY <2>1, <3>1 DEF SentOnce, Unsent
    <3>3. injected'[i] \in {0, 1}
      BY <2>1, <2>3, <3>2
    <3>4. \A k \in Commands : ~ Carried(k, i)'
      <4>1. \A k \in Commands : Carried(k, i)' => Carried(k, i)
        BY <1>w, <2>1
      <4>2. ~ Carried(c, i)'
        BY <2>1, <3>2 DEF Carried
      <4> QED  BY <3>1, <4>1, <4>2 DEF SentOnce
    <3>5. /\ \A s \in Senders : job[s] = i => ~ Fresh(s)
          /\ status[i] \notin {"none", "queued", "cancelled"}
          /\ ~ Arriving(i)
      BY <3>2 DEF SentOnce
    <3>6. /\ \A s \in Senders : Fresh(s)' <=> Fresh(s)
          /\ Arriving(i)' <=> Arriving(i)
      BY <2>1 DEF Fresh, Transient, Arriving
    <3> QED  BY <2>1, <3>3, <3>4, <3>5, <3>6 DEF SentOnce
  <2> QED  BY <2>2, <2>3
<1>17. ASSUME Connect \/ Unregister PROVE SentOnce(i)'
  <2>1. /\ UNCHANGED <<status, owner, injected, wire, running, job>>
        /\ \A s \in Senders : /\ pc'[s] = IF pc[s] = "waiting" THEN "answered" ELSE pc[s]
                              /\ pc[s] # "waiting" => outcome'[s] = outcome[s]
    BY <1>17 DEF Connect, Unregister, FailPending
  <2>2. \A s \in Senders : Fresh(s)' => Fresh(s)
    BY <2>1 DEF Fresh, Transient
  <2>3. Arriving(i)' => Arriving(i)
    BY <2>1 DEF Arriving
  <2> QED  BY <1>w, <2>1, <2>2, <2>3, DeliveryFrame
<1>18. ASSUME ServerRestart PROVE SentOnce(i)'
  <2>1. /\ UNCHANGED <<status, owner, injected, running>> /\ wire' = {}
        /\ \A s \in Senders : pc'[s] \in {"idle", "done"}
        /\ \A p \in Posts : job'[p] = job[p]
    BY <1>18 DEF ServerRestart
  <2>2. \A s \in Senders : ~ Fresh(s)'
    BY <2>1 DEF Fresh
  <2>3. Arriving(i)' => Arriving(i)
    BY <2>1 DEF Arriving
  <2> QED  BY <1>w, <2>1, <2>2, <2>3, DeliveryFrame
<1>19. ASSUME NEW p \in Posts, HandlerTimesOut(p) PROVE SentOnce(i)'
  <2>1. /\ UNCHANGED <<injected, running, job>>
        /\ \A r \in Senders : r # p => pc'[r] = pc[r] /\ outcome'[r] = outcome[r]
        /\ pc[p] \in {"locking", "queueing", "locked"} \cup Attempting /\ pc'[p] = "done"
        /\ \/ wire' = wire
           \/ wire' = wire \cup {p} /\ pc[p] = "prepared" /\ UNCHANGED receipts
    BY <1>19 DEF HandlerTimesOut, Respond, Dispatching
  <2>2. \/ UNCHANGED receipts
        \/ pc[p] = "queueing" /\ Upsert(job[p], "queued", 0)
        \/ pc[p] = "locked" /\ Upsert(job[p], "delivering", p)
        \/ pc[p] = "settling" /\ FinishReceipt(p)
    BY <1>19 DEF HandlerTimesOut
  <2>3. job[p] \in Inputs
    BY <2>1 DEF JobsKnown
  <2>4. ~ Fresh(p)'
    BY <2>1 DEF Fresh
  <2>5. \A c \in Commands : InputOf(c)' = InputOf(c)
    BY <2>1 DEF InputOf
  <2>6. InputOf(p) = job[p] /\ p \in Commands
    BY Names DEF InputOf
  <2>7. Arriving(i)' => Arriving(i)
    BY <2>1 DEF Arriving
  <2>8. CASE job[p] # i
    <3>1. status'[i] = status[i] /\ owner'[i] = owner[i]
      BY <2>2, <2>3, <2>8 DEF Upsert, FinishReceipt
    <3>2. \A c \in Commands : Carried(c, i)' => Carried(c, i) /\ (c \in wire' => c \in wire)
      BY <2>1, <2>5, <2>6, <2>8 DEF Carried
    <3>3. \A r \in Senders : r # p => (Fresh(r)' <=> Fresh(r))
      BY <2>1 DEF Fresh, Transient
    <3> QED  BY <2>1, <2>4, <2>7, <3>1, <3>2, <3>3, DeliveryFrame
  <2>9. CASE job[p] = i
    <3>1. ~ Arriving(i)'
      BY <2>1, <2>9 DEF Arriving
    <3>2. CASE pc[p] \in {"locking", "queueing", "locked"}
      <4>1. Arriving(i)
        BY <1>p, <2>9, <3>2 DEF Arriving, PostedOnce
      <4>2. status[i] = "none" /\ Unsent(i) /\ wire' = wire
        BY <2>1, <3>2, <4>1 DEF SentOnce
      <4>3. Unsent(i)'
        BY <1>u, <2>1, <4>2
      <4>4. \A s \in Senders : job[s] = i => pc[s] \notin Attempting
        BY <4>2 DEF SentOnce
      <4>5. \A s \in Senders : job'[s] = i => pc'[s] \notin Attempting
        BY <2>1, <4>4
      <4> QED  BY <1>z, <3>1, <4>3, <4>5
    <3>3. CASE pc[p] \in Attempting
      <4>1. status[i] = "delivering" /\ owner[i] = p
        BY <2>9, <3>3 DEF SentOnce
      <4>2. status'[i] \in {"delivering", "delivered", "failed"}
        BY <2>2, <2>9, <3>3, <4>1 DEF FinishReceipt, Transient
      <4>3. \A r \in Senders : job'[r] = i => pc'[r] \notin Attempting /\ ~ Fresh(r)'
        BY <2>1, <4>1 DEF SentOnce, Fresh
      <4>4. CASE wire' = wire
        <5>1. \A c \in Commands : Carried(c, i)' => Carried(c, i)
          BY <1>w, <2>1, <4>4
        <5> QED  BY <2>1, <3>1, <4>2, <4>3, <4>4, <5>1 DEF SentOnce
      <4>5. CASE wire' = wire \cup {p} /\ pc[p] = "prepared"
        <5>1. Unsent(i)
          BY <2>9, <4>5 DEF SentOnce, Fresh
        <5>2. \A c \in Commands : Carried(c, i)' => c = p /\ c \notin running'
          BY <2>1, <2>5, <2>6, <2>9, <4>5, <5>1 DEF Unsent, Carried
        <5> QED  BY <2>1, <3>1, <4>2, <4>3, <5>1, <5>2 DEF SentOnce, Unsent
      <4> QED  BY <2>1, <4>4, <4>5
    <3> QED  BY <2>1, <3>2, <3>3
  <2> QED  BY <2>8, <2>9
<1> QED
  BY <1>1, <1>2, <1>3, <1>4, <1>7, <1>8, <1>9, <1>10, <1>11, <1>12, <1>13, <1>14, <1>15, <1>16,
     <1>17, <1>18, <1>19 DEF Next, Handler, Drain, Dispatch


---------------------------------------------------------------------------

Inv == TypeOK /\ JobsKnown /\ AnswersAreTrue /\ DeliveryInv

(* The invariant holds before anything was sent.                           *)
LEMMA InvInit == Init => Inv
<1> SUFFICES ASSUME Init PROVE Inv
  OBVIOUS
<1>1. TypeOK /\ JobsKnown
  BY InitTyped
<1>3. AnswersAreTrue
  BY DEF Init, AnswersAreTrue, DeliveredIsInjected
<1>4. DeliveryInv
  <2> SUFFICES ASSUME NEW i \in Inputs PROVE SentOnce(i)
    BY DEF DeliveryInv
  <2>1. /\ status[i] = "none" /\ injected[i] = 0 /\ wire = {} /\ running = {}
        /\ \A s \in Senders : pc[s] = "idle"
    BY DEF Init
  <2>2. Unsent(i)
    BY <2>1 DEF Unsent, Carried
  <2>3. \A s \in Senders : pc[s] \notin Attempting /\ ~ Fresh(s)
    BY <2>1 DEF Attempting, Fresh
  <2> QED  BY <2>1, <2>2, <2>3 DEF SentOnce, Unsent
<1> QED  BY <1>1, <1>3, <1>4 DEF Inv

(* Every step of every task, of the channel and of the machine keeps it.   *)
LEMMA InvStep == Inv /\ [Next]_vars => Inv'
<1> SUFFICES ASSUME Inv, [Next]_vars PROVE Inv'
  OBVIOUS
<1> QED  BY StepTyped, JobsStep, AnswersStep, DeliveryStep DEF Inv

(* The invariant holds throughout.                                         *)
LEMMA InvHolds == Spec => []Inv
BY InvInit, InvStep, PTL DEF Spec

(* Every row, task, lock and frame of InputDelivery keeps its type.        *)
THEOREM InputTyping == Spec => []TypeOK
<1>1. Inv => TypeOK
  BY DEF Inv
<1> QED  BY <1>1, InvHolds, PTL

(* As long as nobody takes the lock away from a task that is dispatching,  *)
(* two automatic inputs of a session are never dispatched together: not    *)
(* when a request is cut off, not when a lock expires under its watcher,   *)
(* and not when the watcher then releases a lock somebody else has taken   *)
(* meanwhile.                                                              *)
THEOREM SendersDoNotOverlap == Spec /\ [][LocksAreKept]_vars => []OneSender
<1>1. Init => LockIsHeld
  BY Names DEF Init, LockIsHeld, Holding, Sending, Attempting
<1>2. Inv /\ LockIsHeld /\ [Next]_vars /\ [LocksAreKept]_vars => LockIsHeld'
  BY LockStep DEF Inv
<1>3. Inv /\ LockIsHeld => OneSender
  <2> SUFFICES ASSUME Inv, LockIsHeld, NEW s \in Senders, NEW t \in Senders,
                      pc[s] \in Sending, pc[t] \in Sending,
                      \A p \in Posts \cap {s, t} : intent[p] = "auto"
               PROVE  s = t
    BY DEF OneSender, Sending
  <2>1. Holding(s) /\ Holding(t)
    BY DEF Inv, Holding, Senders, JobsKnown, Sending, Attempting
  <2> QED  BY <2>1 DEF LockIsHeld
<1> QED  BY <1>1, <1>2, <1>3, InvHolds, PTL DEF Spec

(* A receipt that says delivered is of a prompt the provider was given,    *)
(* whatever replies were lost and whoever settled the receipt.             *)
THEOREM DeliveredMeansInjected == Spec => []DeliveredIsInjected
<1>1. Inv => DeliveredIsInjected
  BY DEF Inv, AnswersAreTrue
<1> QED  BY <1>1, InvHolds, PTL

(* A queued or cancelled input has not reached the provider, and no        *)
(* command on its way carries it.                                          *)
THEOREM QueuedInputsAreUnsent == Spec => []QueuedIsUnsent
<1>1. Inv => QueuedIsUnsent
  <2> SUFFICES ASSUME Inv, NEW i \in Inputs, PostedOnce(i), status[i] \in {"queued", "cancelled"}
               PROVE  /\ injected[i] = 0
                      /\ \A c \in Commands : c \in wire \cup running => InputOf(c) # i
    BY DEF QueuedIsUnsent
  <2>1. Unsent(i)
    BY DEF Inv, DeliveryInv, SentOnce
  <2> QED  BY <2>1 DEF Unsent, Carried
<1> QED  BY <1>1, InvHolds, PTL

(* A prompt the client sent in one request is given to the provider at     *)
(* most once, through every time-out, reconnect, lost reply and restart.   *)
THEOREM InputsInjectedAtMostOnce == Spec => []AtMostOnce
<1>1. Inv => AtMostOnce
  BY DEF Inv, AtMostOnce, DeliveryInv, SentOnce
<1> QED  BY <1>1, InvHolds, PTL

=============================================================================

----------------------------- MODULE InputDelivery -----------------------------
(***************************************************************************)
(* Inputs of one live ("Helm") session: the messages a user sends to a     *)
(* provider that runs under a terminal on the user's machine.              *)
(*                                                                         *)
(*   - catalogd keeps, durably, one input receipt per client_request_id    *)
(*     and one control operation per machine command (catalogd/store.py,   *)
(*     services/live_session_inputs.py);                                   *)
(*   - request handlers (routers/session_chat.py) send an input at once,   *)
(*     or queue it when the session's lock is taken;                       *)
(*   - a drain (services/live_control_catalog.py) claims the oldest queued *)
(*     receipt and sends it; the recovery loop and the watcher of a turn's *)
(*     end start it;                                                       *)
(*   - both send through services/managed_control_dispatcher.py, which     *)
(*     reserves the operation, writes the command to the control channel   *)
(*     and waits;                                                          *)
(*   - the Machine Agent injects the prompt (engine control_channel.rs).   *)
(*                                                                         *)
(* A sender is one task with a delivery_request_id of its own: a request   *)
(* handler, used once, or a drain, whose number is used again only when    *)
(* nothing refers to the earlier attempt.  A handler's command id is       *)
(* derived from its delivery_request_id, a drain's from the receipt.  A    *)
(* command id is written to the channel at most once, so the agent's cache *)
(* of completed commands (modelled in ConsoleTurns) has no part here.      *)
(***************************************************************************)
EXTENDS Naturals, FiniteSets

CONSTANTS
  Inputs,       \* client_request_ids
  Posts,        \* request handlers
  Drains,       \* drain attempts
  Intents,      \* the intents clients send: "auto", "queue", "steer"
  MaxQueued,    \* MAX_QUEUED_PER_SESSION
  MaxFaults     \* bound on the number of faults in a behaviour

(* Numbers name the tasks, the receipts and their commands.                *)
ASSUME InputAssumption ==
  /\ Inputs \cup Posts \cup Drains \subseteq Nat \ {0}
  /\ IsFiniteSet(Inputs)
  /\ Inputs \cap Posts = {} /\ Drains \cap Posts = {}
  /\ Intents \subseteq {"auto", "queue", "steer"}
  /\ MaxQueued \in Nat /\ MaxFaults \in Nat

VARIABLES
  status,      \* LiveSessionInputReceipt.status ("none": no row)
  owner,       \* LiveSessionInputReceipt.delivery_request_id (0: NULL)
  created,     \* LiveSessionInputReceipt.created_at: the receipt's place in time
  op,          \* LiveMachineControlOperation.status of each command
  pc,          \* where a sender is
  job,         \* the input it sends
  intent,      \* the intent of a request under way
  outcome,     \* what became of its command
  lock,        \* holder of the session's lock, as a set of at most one sender
  watch,       \* senders with a watcher that will release their lock
  registered,  \* the channel registry has a connection of the machine
  attached,    \* the agent is at the other end of it
  wire,        \* commands on their way to the agent
  back,        \* results on their way to the server
  running,     \* commands an agent task executes
  answerable,  \* those that were received on the current connection
  injected,    \* how often the provider was given the input
  faults       \* faults so far

receipts == <<status, owner, created>>
tasks == <<pc, job, intent, outcome>>
locks == <<lock, watch>>
link == <<registered, attached, wire, back>>
agent == <<running, answerable, injected>>
vars == <<receipts, op, tasks, locks, link, agent, faults>>

Senders == Posts \cup Drains
Commands == Posts \cup Inputs
Settled == {"delivered", "failed", "cancelled"}
Answers == {"ok", "rejected"}
Dispatching == {"locked", "ready", "prepared", "waiting", "answered", "settling"}

TypeOK ==
  /\ status \in [Inputs -> {"none", "queued", "delivering"} \cup Settled]
  /\ owner \in [Inputs -> Senders \cup {0}]
  /\ created \in [Inputs -> Nat]
  /\ op \in [Commands -> {"none", "running", "succeeded", "failed", "timed_out"}]
  /\ pc \in [Senders -> {"idle", "locking", "queueing", "claiming", "done"} \cup Dispatching]
  /\ job \in [Senders -> Inputs \cup {0}]
  /\ intent \in [Posts -> {"none", "auto", "queue", "steer"}]
  /\ outcome \in [Senders -> {"none", "transient", "permanent", "unknown"} \cup Answers]
  /\ lock \subseteq Senders
  /\ watch \subseteq Senders
  /\ registered \in BOOLEAN /\ attached \in BOOLEAN
  /\ wire \subseteq Commands
  /\ back \subseteq [command : Commands, answer : Answers]
  /\ running \subseteq Commands
  /\ answerable \subseteq Commands
  /\ injected \in [Inputs -> Nat]
  /\ faults \in 0..MaxFaults

Init ==
  /\ status = [i \in Inputs |-> "none"]
  /\ owner = [i \in Inputs |-> 0]
  /\ created = [i \in Inputs |-> 0]
  /\ op = [c \in Commands |-> "none"]
  /\ pc = [s \in Senders |-> "idle"]
  /\ job = [s \in Senders |-> 0]
  /\ intent = [p \in Posts |-> "none"]
  /\ outcome = [s \in Senders |-> "none"]
  /\ lock = {} /\ watch = {}
  /\ registered = TRUE /\ attached = TRUE
  /\ wire = {} /\ back = {} /\ running = {} /\ answerable = {}
  /\ injected = [i \in Inputs |-> 0]
  /\ faults = 0

Fault ==
  /\ faults < MaxFaults
  /\ faults' = faults + 1

Goto(s, label) == pc' = [pc EXCEPT ![s] = label]

(* A request handler returns.                                              *)
Respond(p) == Goto(p, "done") /\ intent' = [intent EXCEPT ![p] = "none"]

(* The command id of a dispatch, and the input a command carries.          *)
CommandOf(s) == IF s \in Drains THEN job[s] ELSE s
InputOf(c) == IF c \in Inputs THEN c ELSE job[c]

Queued == {i \in Inputs : status[i] = "queued"}

(* SessionLockManager.release with a holder: the holder's lock only.       *)
Release(s) == lock \ {s}

---------------------------------------------------------------------------
(* Request handlers: _create_catalog_session_input_response.               *)

(* Handlers and inputs are numbered in the order they turn up.             *)
Arrives(p, i) ==
  /\ \A q \in Posts : q < p => job[q] # 0
  /\ \A j \in Inputs : j < i => \E q \in Posts : job[q] = j

(* A receipt that is settled well, queued or under way answers the         *)
(* request; the read is best effort, and a failed one finds no receipt.    *)
PostChecks(p, i, how) ==
  /\ pc[p] = "idle"
  /\ Arrives(p, i)
  /\ \/ status[i] \in {"none", "failed", "cancelled"} /\ UNCHANGED faults
     \/ status[i] \in {"queued", "delivering", "delivered"} /\ Fault
  /\ Cardinality(Queued) < MaxQueued
  /\ job' = [job EXCEPT ![p] = i]
  /\ intent' = [intent EXCEPT ![p] = how]
  /\ Goto(p, CASE how = "auto" -> "locking" [] how = "queue" -> "queueing" [] how = "steer" -> "locked")
  /\ UNCHANGED <<receipts, op, outcome, locks, link, agent>>

(* An automatic input is queued when another one is being delivered.       *)
PostLocks(p) ==
  /\ pc[p] = "locking"
  /\ \/ lock = {} /\ lock' = {p} /\ Goto(p, "locked")
     \/ lock # {} /\ UNCHANGED lock /\ Goto(p, "queueing")
  /\ UNCHANGED <<receipts, op, job, intent, outcome, watch, link, agent, faults>>

(* The server default of created_at: the second of the latest receipt, or  *)
(* a later one.                                                            *)
Now ==
  LET rows == {i \in Inputs : status[i] # "none"}
  IN  {t \in {created[i] : i \in rows} \cup {Cardinality(rows) + 1} :
         \A i \in rows : created[i] <= t}

(* upsert_input_receipt: by client_request_id, whatever the row's status;  *)
(* a delivery_request_id that is not given is not written.                 *)
Upsert(i, state, request) ==
  /\ status' = [status EXCEPT ![i] = state]
  /\ owner' = IF request = 0 THEN owner ELSE [owner EXCEPT ![i] = request]
  /\ \/ status[i] = "none" /\ \E t \in Now : created' = [created EXCEPT ![i] = t]
     \/ status[i] # "none" /\ UNCHANGED created

PostQueues(p) ==
  /\ pc[p] = "queueing"
  /\ Respond(p)
  /\ Upsert(job[p], "queued", 0)
  /\ UNCHANGED <<op, job, outcome, locks, link, agent, faults>>

PostRecords(p) ==
  /\ pc[p] = "locked"
  /\ Goto(p, "ready")
  /\ Upsert(job[p], "delivering", p)
  /\ UNCHANGED <<op, job, intent, outcome, locks, link, agent, faults>>

(* The upsert fails, or its reply is lost: the request is refused.         *)
PostFails(p) ==
  /\ Fault
  /\ pc[p] \in {"queueing", "locked"}
  /\ Respond(p)
  /\ lock' = Release(p)
  /\ \/ UNCHANGED receipts
     \/ pc[p] = "queueing" /\ Upsert(job[p], "queued", 0)
     \/ pc[p] = "locked" /\ Upsert(job[p], "delivering", p)
  /\ UNCHANGED <<op, job, outcome, watch, link, agent>>

(* cancel_input_receipt                                                    *)
CancelInput(i) ==
  /\ Fault
  /\ status[i] = "queued"
  /\ status' = [status EXCEPT ![i] = "cancelled"]
  /\ UNCHANGED <<owner, created, op, tasks, locks, link, agent>>

---------------------------------------------------------------------------
(* The drain: wake_next_live_catalog_input.                                *)

DrainStarts(d) ==
  /\ pc[d] = "idle" /\ d \notin watch
  /\ Queued # {}
  /\ lock = {}
  /\ lock' = {d}
  /\ Goto(d, "claiming")
  /\ UNCHANGED <<receipts, op, job, intent, outcome, watch, link, agent, faults>>

(* ORDER BY created_at, id LIMIT 1, over the queued receipts: within one   *)
(* second the order is that of random ids.                                 *)
NextQueued == {i \in Queued : \A j \in Queued : created[i] <= created[j]}

(* claim_queued_input                                                      *)
Claim(d, i) ==
  /\ i \in NextQueued
  /\ status' = [status EXCEPT ![i] = "delivering"]
  /\ owner' = [owner EXCEPT ![i] = d]
  /\ UNCHANGED created

DrainClaims(d) ==
  /\ pc[d] = "claiming"
  /\ \E i \in Queued : Claim(d, i) /\ job' = [job EXCEPT ![d] = i]
  /\ Goto(d, "ready")
  /\ UNCHANGED <<op, intent, outcome, locks, link, agent, faults>>

(* The session is busy, control is unavailable, or the queue is empty.     *)
DrainFindsNothing(d) ==
  /\ pc[d] = "claiming"
  /\ Goto(d, "idle")
  /\ lock' = Release(d)
  /\ UNCHANGED <<receipts, op, job, intent, outcome, watch, link, agent, faults>>

(* Receipts past MAX_DELIVERY_AGE fail, whether or not one is claimed.     *)
DrainExpires(d) ==
  /\ Fault
  /\ pc[d] = "claiming"
  /\ \E i \in Queued : status' = [status EXCEPT ![i] = "failed"]
  /\ UNCHANGED <<owner, created, op, tasks, locks, link, agent>>

(* The claim's reply is lost: the drain gives up, the claim stands.        *)
DrainLosesClaim(d) ==
  /\ Fault
  /\ pc[d] = "claiming"
  /\ \E i \in Queued : Claim(d, i)
  /\ Goto(d, "idle")
  /\ lock' = Release(d)
  /\ UNCHANGED <<op, job, intent, outcome, watch, link, agent>>

---------------------------------------------------------------------------
(* dispatch_managed_control_command, for handlers and drains alike.        *)

(* A failed dispatch releases a handler's lock before the receipt is       *)
(* finished; a drain's is released after.                                  *)
Fail(s, why) ==
  /\ Goto(s, "settling")
  /\ outcome' = [outcome EXCEPT ![s] = why]
  /\ lock' = IF s \in Posts THEN Release(s) ELSE lock

(* prepare_control_command: a new operation, or the exact replay of one    *)
(* that is still running.                                                  *)
Prepare(s) ==
  /\ pc[s] = "ready"
  /\ registered
  /\ op[CommandOf(s)] \in {"none", "running"}
  /\ op' = [op EXCEPT ![CommandOf(s)] = "running"]
  /\ Goto(s, "prepared")
  /\ UNCHANGED <<receipts, job, intent, outcome, locks, link, agent, faults>>

(* A precondition fails: no transport; an operation that has finished; a   *)
(* grant that is denied for now or for good; a reply that is lost.         *)
PrepareFails(s) ==
  /\ pc[s] = "ready"
  /\ \/ ~registered /\ Fail(s, "transient") /\ UNCHANGED <<op, faults>>
     \/ /\ registered /\ op[CommandOf(s)] \notin {"none", "running"}
        /\ Fail(s, "permanent")
        /\ UNCHANGED <<op, faults>>
     \/ /\ Fault /\ registered /\ op[CommandOf(s)] \in {"none", "running"}
        /\ \E why \in {"transient", "permanent"} : Fail(s, why)
        /\ UNCHANGED op
     \/ /\ Fault /\ registered /\ op[CommandOf(s)] \in {"none", "running"}
        /\ Fail(s, "transient")
        /\ op' = [op EXCEPT ![CommandOf(s)] = "running"]
  /\ UNCHANGED <<receipts, job, intent, watch, link, agent>>

Answered(s, what) ==
  /\ Goto(s, "answered")
  /\ outcome' = [outcome EXCEPT ![s] = what]

(* send_command: the frame is written, goes to a connection the agent has  *)
(* left, or is not written.                                                *)
SendCommand(s) ==
  /\ pc[s] = "prepared"
  /\ \/ /\ registered
        /\ Goto(s, "waiting")
        /\ wire' = IF attached THEN wire \cup {CommandOf(s)} ELSE wire
        /\ UNCHANGED outcome
     \/ /\ ~attached
        /\ Answered(s, "unknown")
        /\ UNCHANGED wire
  /\ UNCHANGED <<receipts, op, job, intent, locks, registered, attached, back, agent, faults>>

(* The caller stops waiting; the command may still be executed.            *)
ReplyTimeout(s) ==
  /\ pc[s] = "waiting"
  /\ Answered(s, "unknown")
  /\ UNCHANGED <<receipts, op, job, intent, locks, link, agent, faults>>

OperationStatusMutant(what) == what

(* What a result says of its operation.                                    *)
OperationStatus(what) == IF what = "ok" THEN "succeeded" ELSE "failed"

(* finish_control_operation and apply_control_command_result: an operation *)
(* that has finished stays as it is.                                       *)
FinishOp(c, what) ==
  op' = IF op[c] = "running" THEN [op EXCEPT ![c] = OperationStatus(what)] ELSE op

(* The pending entry of a handler that was cut off while it waited.        *)
LeftBehind(c) == c \in Posts /\ pc[c] = "done" /\ outcome[c] = "unknown"

(* complete_command, or the reconciliation of a result no entry waits for. *)
CompleteCommand(res) ==
  /\ attached
  /\ res \in back
  /\ back' = back \ {res}
  /\ \/ \E s \in Senders :
          /\ pc[s] = "waiting" /\ CommandOf(s) = res.command
          /\ Answered(s, res.answer)
          /\ UNCHANGED op
     \/ /\ \A s \in Senders : pc[s] = "waiting" => CommandOf(s) # res.command
        /\ IF LeftBehind(res.command) THEN UNCHANGED op ELSE FinishOp(res.command, res.answer)
        /\ UNCHANGED <<pc, outcome>>
  /\ UNCHANGED <<receipts, job, intent, locks, registered, attached, wire, agent, faults>>

(* The dispatcher finishes the operation, best effort.  A handler whose    *)
(* input was accepted leaves its lock to a watcher.                        *)
FinishOperation(s) ==
  /\ pc[s] = "answered"
  /\ \/ FinishOp(CommandOf(s), outcome[s]) /\ UNCHANGED faults
     \/ Fault /\ UNCHANGED op
  /\ IF outcome[s] = "ok"
     THEN /\ watch' = IF s \in Posts /\ intent[s] = "auto" THEN watch \cup {s} ELSE watch
          /\ Goto(s, "settling")
          /\ UNCHANGED <<outcome, lock>>
     ELSE Fail(s, outcome[s]) /\ UNCHANGED watch
  /\ UNCHANGED <<receipts, job, intent, link, agent>>

TransientMutant(s) == s \in Drains /\ outcome[s] \in {"transient", "unknown"}

(* _is_transient_delivery_failure: what a drain may try again.             *)
Transient(s) == s \in Drains /\ outcome[s] = "transient"

FinishReceiptMutant(s) ==
  LET i == job[s] IN
  IF owner[i] # s \/ status[i] # "delivering" THEN UNCHANGED receipts
  ELSE /\ status' = [status EXCEPT ![i] = IF outcome[s] \in {"ok", "unknown"} THEN "delivered"
                                          ELSE IF Transient(s) THEN "queued"
                                          ELSE "failed"]
       /\ owner' = IF Transient(s) THEN [owner EXCEPT ![i] = 0] ELSE owner
       /\ UNCHANGED created

(* finish_queued_input: only the sender that owns the receipt, and only    *)
(* while it is being delivered.                                            *)
FinishReceipt(s) ==
  LET i == job[s] IN
  IF owner[i] # s \/ status[i] # "delivering" THEN UNCHANGED receipts
  ELSE /\ status' = [status EXCEPT ![i] = IF outcome[s] = "ok" THEN "delivered"
                                          ELSE IF Transient(s) THEN "queued"
                                          ELSE "failed"]
       /\ owner' = IF Transient(s) THEN [owner EXCEPT ![i] = 0] ELSE owner
       /\ UNCHANGED created

(* The end of a sender's task: a handler is done; a drain leaves its lock  *)
(* to a watcher, or releases it.                                           *)
EndTask(s) ==
  /\ IF s \in Posts
     THEN Respond(s) /\ UNCHANGED job
     ELSE Goto(s, "idle") /\ job' = [job EXCEPT ![s] = 0] /\ UNCHANGED intent
  /\ outcome' = [outcome EXCEPT ![s] = "none"]

Settle(s) ==
  /\ pc[s] = "settling"
  /\ FinishReceipt(s)
  /\ EndTask(s)
  /\ watch' = IF s \in Drains /\ outcome[s] = "ok" THEN watch \cup {s} ELSE watch
  /\ lock' = IF s \in Drains /\ outcome[s] # "ok" THEN Release(s) ELSE lock
  /\ UNCHANGED <<op, link, agent, faults>>

(* The finish call raises: the receipt stays, or only the reply is lost; a *)
(* drain that was accepted leaves its lock to nobody.                      *)
SettleFails(s) ==
  /\ Fault
  /\ pc[s] = "settling"
  /\ FinishReceipt(s) \/ UNCHANGED receipts
  /\ EndTask(s)
  /\ lock' = IF s \in Drains /\ outcome[s] # "ok" THEN Release(s) ELSE lock
  /\ UNCHANGED <<op, watch, link, agent>>

(* A transient failure past MAX_DELIVERY_AGE or MAX_DELIVERY_ATTEMPTS.     *)
SettleExpired(d) ==
  /\ Fault
  /\ pc[d] = "settling" /\ Transient(d)
  /\ owner[job[d]] = d /\ status[job[d]] = "delivering"
  /\ status' = [status EXCEPT ![job[d]] = "failed"]
  /\ EndTask(d)
  /\ lock' = Release(d)
  /\ UNCHANGED <<owner, created, op, watch, link, agent>>

(* _release_catalog_lock_after_terminal: the turn ended, or 300 s passed.  *)
WatcherReleases(s) ==
  /\ s \in watch
  /\ watch' = watch \ {s}
  /\ lock' = Release(s)
  /\ UNCHANGED <<receipts, op, tasks, link, agent, faults>>

LockExpiresMutant ==
  /\ \E s \in lock : pc[s] \in {"idle", "done"} /\ s \in watch
  /\ lock' = {}
  /\ UNCHANGED <<receipts, op, tasks, watch, link, agent, faults>>

(* SessionLock.is_expired: 300 s are far more than the calls of a dispatch *)
(* may take, so the holder has gone or waits for its turn to end.          *)
LockExpires ==
  /\ \E s \in lock : pc[s] \in {"idle", "done"}
  /\ lock' = {}
  /\ UNCHANGED <<receipts, op, tasks, watch, link, agent, faults>>

(* The one call without a time-out is a drain's websocket.send_json: the   *)
(* lock expires under a frame that cannot be written.                      *)
LockExpiresInSend ==
  /\ Fault
  /\ \E d \in lock \cap Drains : pc[d] = "prepared"
  /\ lock' = {}
  /\ UNCHANGED <<receipts, op, tasks, watch, link, agent>>

(* SessionLockManager.release without a holder, of whoever holds it:       *)
(* interrupt, terminate and force_release_lock.                            *)
ForceRelease ==
  /\ Fault
  /\ lock # {}
  /\ lock' = {}
  /\ UNCHANGED <<receipts, op, tasks, watch, link, agent>>

(* RequestTimeoutMiddleware cancels a handler at whatever it awaits: the   *)
(* call under way may have been carried out, the frame been written.  No   *)
(* clean-up runs, so a lock it holds stays until it expires.               *)
HandlerTimesOut(p) ==
  /\ Fault
  /\ pc[p] \in {"locking", "queueing"} \cup Dispatching
  /\ Respond(p)
  /\ outcome' = [outcome EXCEPT ![p] = IF pc[p] \in {"prepared", "waiting"} THEN "unknown" ELSE "none"]
  /\ \/ UNCHANGED <<receipts, op, wire>>
     \/ /\ \/ pc[p] = "queueing" /\ Upsert(job[p], "queued", 0)
           \/ pc[p] = "locked" /\ Upsert(job[p], "delivering", p)
           \/ pc[p] = "settling" /\ FinishReceipt(p)
        /\ UNCHANGED <<op, wire>>
     \/ /\ \/ pc[p] = "ready" /\ registered /\ op' = [op EXCEPT ![p] = "running"]
           \/ pc[p] = "answered" /\ FinishOp(p, outcome[p])
        /\ UNCHANGED <<receipts, wire>>
     \/ /\ pc[p] = "prepared" /\ attached
        /\ wire' = wire \cup {p}
        /\ UNCHANGED <<receipts, op>>
  /\ UNCHANGED <<job, locks, registered, attached, back, agent>>

(* reap_stale_control_operations                                           *)
ReapOperation(c) ==
  /\ Fault
  /\ op[c] = "running"
  /\ op' = [op EXCEPT ![c] = "timed_out"]
  /\ UNCHANGED <<receipts, tasks, locks, link, agent>>

---------------------------------------------------------------------------
(* The channel and the agent.                                              *)

FailPendingMutant ==
  /\ pc' = [s \in Senders |-> IF pc[s] = "waiting" THEN "prepared" ELSE pc[s]]
  /\ UNCHANGED outcome

(* Every wait on the connection fails.                                     *)
FailPending ==
  /\ pc' = [s \in Senders |-> IF pc[s] = "waiting" THEN "answered" ELSE pc[s]]
  /\ outcome' = [s \in Senders |-> IF pc[s] = "waiting" THEN "unknown" ELSE outcome[s]]

Connect ==
  /\ ~attached
  /\ registered' = TRUE /\ attached' = TRUE
  /\ FailPending
  /\ UNCHANGED <<receipts, op, job, intent, locks, wire, back, agent, faults>>

Disconnect ==
  /\ Fault
  /\ attached
  /\ attached' = FALSE
  /\ wire' = {} /\ back' = {} /\ answerable' = {}
  /\ UNCHANGED <<receipts, op, tasks, locks, registered, running, injected>>

Unregister ==
  /\ registered /\ ~attached
  /\ registered' = FALSE
  /\ FailPending
  /\ UNCHANGED <<receipts, op, job, intent, locks, attached, wire, back, agent, faults>>

(* The server process dies and starts again; catalogd's rows survive.      *)
ServerRestart ==
  /\ Fault
  /\ pc' = [s \in Senders |-> IF s \in Drains THEN "idle"
                              ELSE IF pc[s] = "idle" THEN "idle" ELSE "done"]
  /\ job' = [s \in Senders |-> IF s \in Drains THEN 0 ELSE job[s]]
  /\ intent' = [p \in Posts |-> "none"]
  /\ outcome' = [s \in Senders |-> "none"]
  /\ lock' = {} /\ watch' = {}
  /\ registered' = FALSE /\ attached' = FALSE
  /\ wire' = {} /\ back' = {} /\ answerable' = {}
  /\ UNCHANGED <<receipts, op, running, injected>>

ReceiveCommand(c) ==
  /\ attached
  /\ c \in wire
  /\ wire' = wire \ {c}
  /\ running' = running \cup {c}
  /\ answerable' = answerable \cup {c}
  /\ UNCHANGED <<receipts, op, tasks, locks, registered, attached, back, injected, faults>>

(* The provider takes the prompt, or the command is refused.  The result   *)
(* is sent on the connection the command came by.                          *)
ExecuteCommand(c, answer) ==
  /\ c \in running
  /\ running' = running \ {c}
  /\ answerable' = answerable \ {c}
  /\ injected' = IF answer = "ok" THEN [injected EXCEPT ![InputOf(c)] = @ + 1] ELSE injected
  /\ back' = IF c \in answerable THEN back \cup {[command |-> c, answer |-> answer]} ELSE back
  /\ UNCHANGED <<receipts, op, tasks, locks, registered, attached, wire, faults>>

AgentRestart ==
  /\ Fault
  /\ running' = {} /\ answerable' = {}
  /\ attached' = FALSE /\ wire' = {} /\ back' = {}
  /\ UNCHANGED <<receipts, op, tasks, locks, registered, injected>>

---------------------------------------------------------------------------

Handler(p) ==
  \/ \E i \in Inputs, how \in Intents : PostChecks(p, i, how)
  \/ PostLocks(p) \/ PostQueues(p) \/ PostRecords(p) \/ PostFails(p)

Drain(d) ==
  \/ DrainStarts(d) \/ DrainClaims(d) \/ DrainFindsNothing(d) \/ DrainExpires(d)
  \/ DrainLosesClaim(d) \/ SettleExpired(d)

(* A dispatching task runs on, unless it is a handler that is cut off.     *)
Dispatch(s) ==
  \/ Prepare(s) \/ PrepareFails(s) \/ SendCommand(s) \/ ReplyTimeout(s)
  \/ FinishOperation(s) \/ Settle(s)

Next ==
  \/ \E p \in Posts : Handler(p) \/ HandlerTimesOut(p)
  \/ \E d \in Drains : Drain(d)
  \/ \E s \in Senders : Dispatch(s) \/ SettleFails(s) \/ WatcherReleases(s)
  \/ \E i \in Inputs : CancelInput(i)
  \/ \E c \in Commands : ReceiveCommand(c) \/ ReapOperation(c)
  \/ \E c \in Commands, answer \in Answers : ExecuteCommand(c, answer)
  \/ \E res \in back : CompleteCommand(res)
  \/ LockExpires \/ LockExpiresInSend \/ ForceRelease
  \/ Connect \/ Disconnect \/ Unregister \/ ServerRestart \/ AgentRestart

Spec == Init /\ [][Next]_vars

(***************************************************************************)
(* Tasks of the server run; a drain's watcher ends; an abandoned lock      *)
(* expires; the agent retries its connection for ever; the recovery loop   *)
(* wakes the drain every five seconds; and the session is quiescent again  *)
(* and again, so that a drain that keeps looking finds it so.              *)
(***************************************************************************)
Fairness ==
  /\ \A p \in Posts : WF_vars(PostLocks(p) \/ PostQueues(p) \/ PostRecords(p) \/ Dispatch(p))
  /\ \A d \in Drains : WF_vars(DrainClaims(d) \/ DrainFindsNothing(d) \/ Dispatch(d))
  /\ \A d \in Drains : WF_vars(WatcherReleases(d))
  /\ WF_vars(LockExpires)
  /\ WF_vars(Connect)
  /\ WF_vars(\E d \in Drains : DrainStarts(d))
  /\ SF_vars(\E d \in Drains : DrainClaims(d))

FairSpec == Spec /\ Fairness

---------------------------------------------------------------------------
(* Properties.                                                             *)

(* The client sent the input in one request.                               *)
PostedOnce(i) == \A p, q \in Posts : job[p] = i /\ job[q] = i => p = q

(* A prompt sent once is not given to the provider twice: not when a       *)
(* time-out, a reconnect, a lost reply or a restart leaves the fate of a   *)
(* command open, nor when handlers and drains meet on its receipt.         *)
AtMostOnce ==
  \A i \in Inputs : PostedOnce(i) => injected[i] <= 1

(* An input that is queued, or was cancelled in the queue, has not reached *)
(* the provider and no longer can: only failures from before the command   *)
(* was written put a receipt back.                                         *)
QueuedIsUnsent ==
  \A i \in Inputs : PostedOnce(i) /\ status[i] \in {"queued", "cancelled"} =>
    /\ injected[i] = 0
    /\ \A c \in Commands : c \in wire \cup running => InputOf(c) # i

(* A receipt that says delivered is of a prompt the provider was given.    *)
DeliveredIsInjected ==
  \A i \in Inputs : status[i] = "delivered" => injected[i] > 0

(* Two automatic inputs of a session are never dispatched at the same      *)
(* time: what the session's lock is for.  The lock keeps it although it    *)
(* may expire under a watcher that will still release it; but it can be    *)
(* taken from a task that is dispatching, by a release without a holder or *)
(* in a send that does not return.                                         *)
OneSender ==
  \A s, t \in Senders :
    /\ pc[s] \in {"locked", "ready", "prepared", "waiting", "answered"}
    /\ pc[t] \in {"locked", "ready", "prepared", "waiting", "answered"}
    /\ \A p \in Posts \cap {s, t} : intent[p] = "auto"
    => s = t

(* A queued input does not stay queued: a machine that was away, a session *)
(* that was busy, a task that died with the lock only delay it.            *)
QueueDrains ==
  \A i \in Inputs : []<>(status[i] # "queued")
=============================================================================

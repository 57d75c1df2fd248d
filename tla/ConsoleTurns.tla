------------------------------ MODULE ConsoleTurns ------------------------------
(***************************************************************************)
(* Console turns of one session thread: the messages a user sends to a     *)
(* session that Longhouse runs one provider invocation at a time for.      *)
(*                                                                         *)
(*   - catalogd keeps, durably, one turn row and one input receipt row per *)
(*     message (server/zerg/catalogd/store.py);                            *)
(*   - the server process dispatches the turn that owns the thread to the  *)
(*     machine and applies the answer (services/console_turns.py), over a  *)
(*     websocket registry (services/machine_control_channel.py);           *)
(*   - the Machine Agent claims the run in a file, launches the provider,  *)
(*     watches it, and reports its end through a durable outbox            *)
(*     (engine/src: control_channel.rs, turn_claims.rs, pi_print.rs and    *)
(*     the other one-shot adapters, outbox.rs).                            *)
(*                                                                         *)
(* A message is its client_request_id.  Messages are numbered in the order *)
(* of their created_at stamp, which the server takes before it calls       *)
(* catalogd, so they may be accepted in any order.  A turn leaves "queued" *)
(* once, when it is given its run_id, so the message also names the run,   *)
(* the machine command (command_id = run_id) and the claim file.           *)
(***************************************************************************)
EXTENDS Naturals, FiniteSets

CONSTANTS
  Messages,     \* client_request_ids, numbered by created_at
  Provider,     \* the thread's provider
  MaxFaults     \* bound on the number of faults, retries and user interventions

(* Created_at stamps are compared; the providers with a one-shot adapter.  *)
ASSUME ConsoleAssumption ==
  /\ Messages \subseteq Nat
  /\ Provider \in {"pi", "antigravity"}
  /\ MaxFaults \in Nat

VARIABLES
  turn,        \* LiveConsoleTurn.state of each message ("none": no row)
  receipt,     \* LiveSessionInputReceipt.status of each message
  due,         \* turns a request or event handler holds and has not yet sent
  recon,       \* turns the reconnect task holds and has not yet replayed
  pending,     \* runs in the registry's _pending: a task awaits the answer
  got,         \* answers a task holds and has not yet applied
  registered,  \* the registry has a connection of the device
  capable,     \* its hello advertised <provider>.turn_start
  attached,    \* the agent is at the other end of that connection
  wire,        \* command frames on their way to the agent
  back,        \* command results on their way to the server
  cache,       \* completed_commands of the agent
  launch,      \* the agent's task that holds a fresh claim of the run
  answerable,  \* launching tasks whose connection is still the current one
  watch,       \* the monitor task of the run
  claim,       \* TurnClaim.state of the run's claim file
  adapter,     \* TurnClaim.adapter
  cancel,      \* TurnClaim.cancel_requested_at is set
  proc,        \* the provider process of the run
  spawns,      \* how many provider processes were started for the run
  outbox,      \* terminal events in the agent's runtime event outbox
  unposted,    \* runs whose terminal event the outbox did not take (history)
  faults       \* how many there have been

catalog == <<turn, receipt>>
tasks == <<due, recon, pending, got>>
link == <<registered, capable, attached, wire, back>>
agent == <<cache, launch, answerable, watch>>
machine == <<claim, adapter, cancel, proc, spawns, outbox, unposted>>
vars == <<turn, receipt, due, recon, pending, got, registered, capable, attached,
          wire, back, cache, launch, answerable, watch, claim, adapter, cancel,
          proc, spawns, outbox, unposted, faults>>

Owning == {"starting", "active"}
Terminal == {"completed", "failed", "cancelled"}
TurnStates == {"none", "queued"} \cup Owning \cup Terminal
ReceiptStates == {"none", "queued", "delivering", "delivered", "failed", "cancelled"}
Answers == {"ok", "refused"}

Frame(kind, m) == [kind |-> kind, run |-> m]
Result(m, answer) == [run |-> m, answer |-> answer]
Ended(m, outcome) == [run |-> m, outcome |-> outcome]

TypeOK ==
  /\ turn \in [Messages -> TurnStates]
  /\ receipt \in [Messages -> ReceiptStates]
  /\ due \subseteq Messages
  /\ recon \subseteq Messages
  /\ pending \subseteq Messages
  /\ got \subseteq [run : Messages, answer : Answers]
  /\ registered \in BOOLEAN /\ capable \in BOOLEAN /\ attached \in BOOLEAN
  /\ wire \subseteq [kind : {"start", "interrupt"}, run : Messages]
  /\ back \subseteq [run : Messages, answer : Answers]
  /\ cache \in [Messages -> Answers \cup {"none"}]
  /\ launch \in [Messages -> {"none", "acquired", "forked"}]
  /\ answerable \subseteq Messages
  /\ watch \in [Messages -> {"none", "watching", "posted"}]
  /\ claim \in [Messages -> {"none", "claimed", "torn", "spawned", "failed", "terminal"}]
  /\ adapter \in [Messages -> {"none", "codex_exec", Provider}]
  /\ cancel \in [Messages -> BOOLEAN]
  /\ proc \in [Messages -> {"none", "running", "exited"}]
  /\ spawns \in [Messages -> Nat]
  /\ outbox \subseteq [run : Messages, outcome : Terminal]
  /\ unposted \subseteq Messages
  /\ faults \in 0..MaxFaults

Init ==
  /\ turn = [m \in Messages |-> "none"]
  /\ receipt = [m \in Messages |-> "none"]
  /\ due = {} /\ recon = {} /\ pending = {} /\ got = {}
  /\ registered = FALSE /\ capable = FALSE /\ attached = FALSE
  /\ wire = {} /\ back = {}
  /\ cache = [m \in Messages |-> "none"]
  /\ launch = [m \in Messages |-> "none"]
  /\ answerable = {}
  /\ watch = [m \in Messages |-> "none"]
  /\ claim = [m \in Messages |-> "none"]
  /\ adapter = [m \in Messages |-> "none"]
  /\ cancel = [m \in Messages |-> FALSE]
  /\ proc = [m \in Messages |-> "none"]
  /\ spawns = [m \in Messages |-> 0]
  /\ outbox = {} /\ unposted = {}
  /\ faults = 0

Fault ==
  /\ faults < MaxFaults
  /\ faults' = faults + 1

---------------------------------------------------------------------------
(* catalogd: the turn and receipt rows.                                    *)

InState(rows, state) == {m \in Messages : rows[m] = state}

(* ORDER BY created_at LIMIT 1                                             *)
Oldest(set) == {m \in set : \A n \in set : m <= n}

HasOwnerMutant(rows) == \E m \in Messages : rows[m] = "active"

(* The thread has a turn that owns its execution.                          *)
HasOwner(rows) == \E m \in Messages : rows[m] \in Owning

ClaimedMutant(state) ==
  IF state = "completed" THEN Oldest(InState(turn, "queued")) ELSE {}

(* The turn a terminal update claims: the oldest queued one.               *)
Claimed(state) ==
  IF state \in Terminal THEN Oldest(InState(turn, "queued")) ELSE {}

ReceiptOfMutant(state) == state

(* The receipt status update_console_turn writes next to a turn state.     *)
ReceiptOf(state) == IF state \in {"active", "completed"} THEN "delivered" ELSE "failed"

UpdateConsoleTurnMutant(m, state, expected) ==
  \/ /\ turn[m] \in expected
     /\ turn' = [n \in Messages |-> IF n = m THEN state
                                    ELSE IF n \in Claimed(state) THEN "starting"
                                    ELSE turn[n]]
     /\ receipt' = [n \in Messages |-> IF n = m THEN ReceiptOf(state)
                                       ELSE IF n \in Claimed(state) THEN "delivering"
                                       ELSE receipt[n]]
     /\ due' = due \cup Claimed(state)
  \/ /\ turn[m] \notin expected
     /\ UNCHANGED <<turn, receipt, due>>

(***************************************************************************)
(* update_console_turn.  A caller that expects a state other than the      *)
(* row's, or that would move a terminal turn, changes nothing; the exact   *)
(* replay of a terminal update hands out the starting turn again; any      *)
(* other update sets the row, and a terminal one claims the next turn,     *)
(* which the caller dispatches.                                            *)
(***************************************************************************)
UpdateConsoleTurn(m, state, expected) ==
  \/ /\ turn[m] \notin Terminal
     /\ turn[m] \in expected
     /\ turn' = [n \in Messages |-> IF n = m THEN state
                                    ELSE IF n \in Claimed(state) THEN "starting"
                                    ELSE turn[n]]
     /\ receipt' = [n \in Messages |-> IF n = m THEN ReceiptOf(state)
                                       ELSE IF n \in Claimed(state) THEN "delivering"
                                       ELSE receipt[n]]
     /\ due' = due \cup Claimed(state)
  \/ /\ turn[m] \in Terminal
     /\ turn[m] \in expected
     /\ due' = IF turn[m] = state THEN due \cup Oldest(InState(turn, "starting")) ELSE due
     /\ UNCHANGED catalog
  \/ /\ turn[m] \notin expected
     /\ UNCHANGED <<turn, receipt, due>>

---------------------------------------------------------------------------
(* The server process.                                                     *)

(* enqueue_console_turn of a new message, and the handler's hold on the    *)
(* turn when it was claimed at once.                                       *)
EnqueueConsoleTurn(m) ==
  /\ turn[m] = "none"
  /\ IF HasOwner(turn)
     THEN /\ turn' = [turn EXCEPT ![m] = "queued"]
          /\ receipt' = [receipt EXCEPT ![m] = "queued"]
          /\ UNCHANGED due
     ELSE /\ turn' = [turn EXCEPT ![m] = "starting"]
          /\ receipt' = [receipt EXCEPT ![m] = "delivering"]
          /\ due' = due \cup {m}
  /\ UNCHANGED <<recon, pending, got, link, agent, machine, faults>>

(* The client repeats its request: the same turn is answered, and it is    *)
(* dispatched again while it is still starting.                            *)
RepeatEnqueue(m) ==
  /\ Fault
  /\ turn[m] = "starting"
  /\ due' = due \cup {m}
  /\ UNCHANGED <<catalog, recon, pending, got, link, agent, machine>>

(* cancel_input_receipt and expire_stale_live_receipts: the input queue's  *)
(* operations, which see the receipts of Console messages too.             *)
CancelReceipt(m) ==
  /\ Fault
  /\ receipt[m] = "queued"
  /\ receipt' = [receipt EXCEPT ![m] = "cancelled"]
  /\ UNCHANGED <<turn, tasks, link, agent, machine>>

ExpireReceipt(m) ==
  /\ Fault
  /\ receipt[m] = "queued"
  /\ receipt' = [receipt EXCEPT ![m] = "failed"]
  /\ UNCHANGED <<turn, tasks, link, agent, machine>>

Supports == registered /\ capable

(* send_command of session.turn.start: a command already in flight is      *)
(* joined; a frame written to a connection the agent has left goes         *)
(* nowhere, or its write raises and the command is not pending.            *)
SendStart(m) ==
  \/ /\ m \in pending
     /\ UNCHANGED <<pending, wire>>
  \/ /\ m \notin pending
     /\ pending' = pending \cup {m}
     /\ wire' = IF attached THEN wire \cup {Frame("start", m)} ELSE wire
  \/ /\ m \notin pending /\ ~attached
     /\ UNCHANGED <<pending, wire>>

(* enqueue_catalog_console_turn and dispatch_catalog_claimed_turn: a       *)
(* machine that does not advertise the capability refuses the turn.        *)
DispatchTurn(m) ==
  /\ m \in due
  /\ due' = due \ {m}
  /\ \/ /\ ~Supports
        /\ got' = got \cup {Result(m, "refused")}
        /\ UNCHANGED <<pending, wire>>
     \/ /\ Supports
        /\ SendStart(m)
        /\ UNCHANGED got
  /\ UNCHANGED <<catalog, recon, registered, capable, attached, back, agent, machine, faults>>

(* reconcile_starting_console_turns_for_device: an agent that came back    *)
(* without the capability leaves the outcome unknown.                      *)
ReplayTurn(m) ==
  /\ m \in recon
  /\ recon' = recon \ {m}
  /\ \/ /\ ~Supports
        /\ UNCHANGED <<pending, wire>>
     \/ /\ Supports
        /\ SendStart(m)
  /\ UNCHANGED <<catalog, due, got, registered, capable, attached, back, agent, machine, faults>>

(* CONSOLE_CONTROL_REPLY_TIMEOUT_SECONDS pass: the outcome is unknown, the *)
(* turn stays starting.                                                    *)
ReplyTimeout(m) ==
  /\ Fault
  /\ m \in pending
  /\ pending' = pending \ {m}
  /\ UNCHANGED <<catalog, due, recon, got, link, agent, machine>>

(* complete_command: an answer nobody waits for is dropped.                *)
CompleteCommand(res) ==
  /\ attached
  /\ res \in back
  /\ back' = back \ {res}
  /\ pending' = pending \ {res.run}
  /\ got' = IF res.run \in pending THEN got \cup {res} ELSE got
  /\ UNCHANGED <<catalog, due, recon, registered, capable, attached, wire, agent, machine, faults>>

(* The dispatching task applies its answer, and dispatches the turn that   *)
(* a refusal has claimed.                                                  *)
ApplyAnswer(res) ==
  /\ res \in got
  /\ got' = got \ {res}
  /\ UpdateConsoleTurn(res.run, IF res.answer = "ok" THEN "active" ELSE "failed", {"starting"})
  /\ UNCHANGED <<recon, pending, link, agent, machine, faults>>

(* The catalog call raises, or the task is cancelled: the answer is lost.  *)
LoseAnswer(res) ==
  /\ Fault
  /\ res \in got
  /\ got' = got \ {res}
  /\ UNCHANGED <<catalog, due, recon, pending, link, agent, machine>>

(* The runtime event batch endpoint on a terminal signal of the outbox.    *)
(* The agent keeps the event when the answer of its request is lost.       *)
PostTerminal(event) ==
  /\ event \in outbox
  /\ UpdateConsoleTurn(event.run, event.outcome, TurnStates)
  /\ \/ outbox' = outbox \ {event} /\ UNCHANGED faults
     \/ outbox' = outbox /\ Fault
  /\ UNCHANGED <<recon, pending, got, link, agent, claim, adapter, cancel, proc, spawns, unposted>>

(* interrupt_console_turn of the thread's owner.                           *)
SendInterrupt(m) ==
  /\ Fault
  /\ turn[m] \in Owning
  /\ Supports /\ attached
  /\ wire' = wire \cup {Frame("interrupt", m)}
  /\ UNCHANGED <<catalog, tasks, registered, capable, attached, back, agent, machine>>

(* machine_control_websocket ends: the registry forgets the connection,    *)
(* fails what is pending, and the reconnect task is cancelled.             *)
Unregister ==
  /\ registered /\ ~attached
  /\ registered' = FALSE /\ capable' = FALSE
  /\ pending' = {}
  /\ recon' = {}
  /\ UNCHANGED <<catalog, due, got, attached, wire, back, agent, machine, faults>>

(* The server process dies and starts again; catalogd's rows survive.      *)
ServerRestart ==
  /\ Fault
  /\ due' = {} /\ recon' = {} /\ pending' = {} /\ got' = {}
  /\ registered' = FALSE /\ capable' = FALSE /\ attached' = FALSE
  /\ wire' = {} /\ back' = {}
  /\ answerable' = {}
  /\ UNCHANGED <<catalog, cache, launch, watch, machine>>

---------------------------------------------------------------------------
(* The connection.                                                         *)

(* The agent's hello registers the new connection, fails what was pending  *)
(* on a connection it replaces, and starts the reconnect task.             *)
Connect(supported) ==
  /\ ~attached
  /\ registered' = TRUE /\ attached' = TRUE
  /\ capable' = supported
  /\ IF supported THEN UNCHANGED faults ELSE Fault
  /\ pending' = {}
  /\ recon' = recon \cup InState(turn, "starting")
  /\ UNCHANGED <<catalog, due, got, wire, back, agent, machine>>

(* The agent loses the connection before the server notices.               *)
Disconnect ==
  /\ Fault
  /\ attached
  /\ attached' = FALSE
  /\ wire' = {} /\ back' = {}
  /\ answerable' = {}
  /\ UNCHANGED <<catalog, tasks, registered, capable, cache, launch, watch, machine>>

---------------------------------------------------------------------------
(* The Machine Agent.                                                      *)

(* The result is remembered and sent.                                      *)
Answer(m, answer) ==
  /\ cache' = [cache EXCEPT ![m] = answer]
  /\ back' = back \cup {Result(m, answer)}

(* A launching task answers only on the connection that started it.        *)
AnswerIfAttached(m, answer) ==
  IF m \in answerable
  THEN Answer(m, answer) /\ answerable' = answerable \ {m}
  ELSE UNCHANGED <<cache, back, answerable>>

UnclaimedMutant(m) == claim[m] = "none" \/ (claim[m] = "claimed" /\ launch[m] = "none")

(* turn_claims::claim creates the file only if there is none.              *)
Unclaimed(m) == claim[m] = "none"

ExistingClaimMutant(m) == IF claim[m] = "failed" THEN "refused" ELSE "ok"

(* What execute_turn_start answers for a run that is already claimed.      *)
ExistingClaim(m) ==
  IF claim[m] = "terminal" \/ (claim[m] = "spawned" /\ proc[m] = "running")
  THEN "ok" ELSE "refused"

(* One session.turn.start frame: a completed command is answered from the  *)
(* cache, one that is running is ignored; otherwise the claim file decides *)
(* between a launch and an answer about the earlier one.                   *)
ReceiveStart(m) ==
  /\ attached
  /\ Frame("start", m) \in wire
  /\ wire' = wire \ {Frame("start", m)}
  /\ \/ /\ cache[m] # "none"
        /\ Answer(m, cache[m])
        /\ UNCHANGED <<launch, answerable, claim>>
     \/ /\ cache[m] = "none" /\ m \in answerable
        /\ UNCHANGED <<cache, back, launch, answerable, claim>>
     \/ /\ cache[m] = "none" /\ m \notin answerable
        /\ Unclaimed(m)
        /\ claim' = [claim EXCEPT ![m] = "claimed"]
        /\ launch' = [launch EXCEPT ![m] = "acquired"]
        /\ answerable' = answerable \cup {m}
        /\ UNCHANGED <<cache, back>>
     \/ /\ cache[m] = "none" /\ m \notin answerable
        /\ ~Unclaimed(m)
        /\ Answer(m, ExistingClaim(m))
        /\ UNCHANGED <<launch, answerable, claim>>
  /\ UNCHANGED <<catalog, tasks, registered, capable, attached, watch, adapter,
                 cancel, proc, spawns, outbox, unposted, faults>>

(* A check before the claim fails (the directory, the permission mode), or *)
(* the claim file is created and writing it fails, which leaves it torn.   *)
RejectStart(m) ==
  /\ Fault
  /\ attached
  /\ Frame("start", m) \in wire
  /\ cache[m] = "none" /\ m \notin answerable
  /\ wire' = wire \ {Frame("start", m)}
  /\ Answer(m, "refused")
  /\ \/ UNCHANGED claim
     \/ Unclaimed(m) /\ claim' = [claim EXCEPT ![m] = "torn"]
  /\ UNCHANGED <<catalog, tasks, registered, capable, attached, launch, answerable,
                 watch, adapter, cancel, proc, spawns, outbox, unposted>>

(* The completed command expires, or the cache is full.                    *)
Evict(m) ==
  /\ Fault
  /\ cache[m] # "none"
  /\ cache' = [cache EXCEPT ![m] = "none"]
  /\ UNCHANGED <<catalog, tasks, link, launch, answerable, watch, machine>>

(* start_pi_print_turn and its likes, up to the provider process.          *)
SpawnProvider(m) ==
  /\ launch[m] = "acquired"
  /\ launch' = [launch EXCEPT ![m] = "forked"]
  /\ proc' = [proc EXCEPT ![m] = "running"]
  /\ spawns' = [spawns EXCEPT ![m] = @ + 1]
  /\ UNCHANGED <<catalog, tasks, link, cache, answerable, watch, claim, adapter,
                 cancel, outbox, unposted, faults>>

(* The launch fails before the process exists, or the process is killed    *)
(* because its identity could not be made durable: mark_failed.            *)
LaunchFails(m) ==
  /\ Fault
  /\ launch[m] \in {"acquired", "forked"}
  /\ launch' = [launch EXCEPT ![m] = "none"]
  /\ claim' = [claim EXCEPT ![m] = "failed"]
  /\ proc' = [proc EXCEPT ![m] = IF @ = "running" THEN "exited" ELSE @]
  /\ AnswerIfAttached(m, "refused")
  /\ UNCHANGED <<catalog, tasks, registered, capable, attached, wire, watch, adapter,
                 cancel, spawns, outbox, unposted>>

(* The adapter execute_turn_start leaves in the claim: the adapters whose  *)
(* transport it lists keep their own, the others are overwritten.          *)
RecordedAdapter == IF Provider = "pi" THEN Provider ELSE "codex_exec"

(* The process's identity is made durable, its monitor starts, the command *)
(* is answered.                                                            *)
MarkSpawned(m) ==
  /\ launch[m] = "forked"
  /\ launch' = [launch EXCEPT ![m] = "none"]
  /\ claim' = [claim EXCEPT ![m] = "spawned"]
  /\ adapter' = [adapter EXCEPT ![m] = RecordedAdapter]
  /\ watch' = [watch EXCEPT ![m] = "watching"]
  /\ AnswerIfAttached(m, "ok")
  /\ UNCHANGED <<catalog, tasks, registered, capable, attached, wire, cancel, proc,
                 spawns, outbox, unposted, faults>>

AdoptedMutant(m) == claim[m] = "spawned" /\ adapter[m] = Provider /\ proc[m] = "running"

(* The run is this agent's, and can be watched and interrupted.            *)
Adopted(m) == claim[m] = "spawned" /\ adapter[m] = Provider

(* interrupt_pi_print_turn and its likes.                                  *)
ReceiveInterrupt(m) ==
  /\ attached
  /\ Frame("interrupt", m) \in wire
  /\ wire' = wire \ {Frame("interrupt", m)}
  /\ cancel' = [cancel EXCEPT ![m] = @ \/ (Adopted(m) /\ proc[m] = "running")]
  /\ UNCHANGED <<catalog, tasks, registered, capable, attached, back, agent, claim,
                 adapter, proc, spawns, outbox, unposted, faults>>

(* The provider process ends, by itself or by a signal.                    *)
ProviderExits(m) ==
  /\ proc[m] = "running"
  /\ proc' = [proc EXCEPT ![m] = "exited"]
  /\ UNCHANGED <<catalog, tasks, link, agent, claim, adapter, cancel, spawns, outbox, unposted,
                 faults>>

(* The outcomes a monitor may read off an ended process.                   *)
Outcomes(m) == IF cancel[m] THEN {"cancelled"} ELSE {"completed", "failed"}

(* post_terminal, first half: the event is in the outbox.                  *)
MonitorPosts(m, outcome) ==
  /\ watch[m] = "watching"
  /\ proc[m] = "exited"
  /\ watch' = [watch EXCEPT ![m] = "posted"]
  /\ outbox' = outbox \cup {Ended(m, outcome)}
  /\ unposted' = unposted \ {m}
  /\ IF outcome = "failed" THEN Fault ELSE UNCHANGED faults
  /\ UNCHANGED <<catalog, tasks, link, cache, launch, answerable, claim, adapter,
                 cancel, proc, spawns>>

(* Or the outbox write fails: post_events logs it and goes on all the same. *)
MonitorLosesEvent(m) ==
  /\ Fault
  /\ watch[m] = "watching"
  /\ proc[m] = "exited"
  /\ watch' = [watch EXCEPT ![m] = "posted"]
  /\ unposted' = unposted \cup {m}
  /\ UNCHANGED <<catalog, tasks, link, cache, launch, answerable, claim, adapter,
                 cancel, proc, spawns, outbox>>

(* post_terminal, second half: mark_terminal.                              *)
MonitorMarks(m) ==
  /\ watch[m] = "posted"
  /\ watch' = [watch EXCEPT ![m] = "none"]
  /\ claim' = [claim EXCEPT ![m] = "terminal"]
  /\ UNCHANGED <<catalog, tasks, link, cache, launch, answerable, adapter, cancel,
                 proc, spawns, outbox, unposted, faults>>

(* The agent, or the whole machine with the providers, dies and starts     *)
(* again.  A claim file just created may be left torn: it is written in    *)
(* place.  recover_*_print_turns watches or settles the claims it finds,   *)
(* but gives up, for every run, when one of the files does not parse.      *)
AgentRestart(reboot, torn) ==
  /\ Fault
  /\ \A m \in torn : launch[m] = "acquired"
  /\ claim' = [m \in Messages |-> IF m \in torn THEN "torn" ELSE claim[m]]
  /\ attached' = FALSE /\ wire' = {} /\ back' = {}
  /\ cache' = [m \in Messages |-> "none"]
  /\ launch' = [m \in Messages |-> "none"]
  /\ answerable' = {}
  /\ watch' = [m \in Messages |-> IF Adopted(m) /\ \A n \in Messages : claim'[n] # "torn"
                                     THEN "watching" ELSE "none"]
  /\ proc' = [m \in Messages |-> IF reboot /\ proc[m] = "running" THEN "exited" ELSE proc[m]]
  /\ UNCHANGED <<catalog, tasks, registered, capable, adapter, cancel, spawns, outbox, unposted>>

---------------------------------------------------------------------------

Server ==
  \/ \E m \in Messages : EnqueueConsoleTurn(m) \/ RepeatEnqueue(m)
  \/ \E m \in Messages : CancelReceipt(m) \/ ExpireReceipt(m)
  \/ \E m \in Messages : DispatchTurn(m) \/ ReplayTurn(m) \/ ReplyTimeout(m) \/ SendInterrupt(m)
  \/ \E res \in back : CompleteCommand(res)
  \/ \E res \in got : ApplyAnswer(res) \/ LoseAnswer(res)
  \/ \E event \in outbox : PostTerminal(event)
  \/ Unregister
  \/ ServerRestart

Connection ==
  \/ \E supported \in BOOLEAN : Connect(supported)
  \/ Disconnect

Agent ==
  \/ \E m \in Messages : ReceiveStart(m) \/ RejectStart(m) \/ Evict(m) \/ ReceiveInterrupt(m)
  \/ \E m \in Messages : SpawnProvider(m) \/ LaunchFails(m) \/ MarkSpawned(m)
  \/ \E m \in Messages : ProviderExits(m) \/ MonitorLosesEvent(m) \/ MonitorMarks(m)
  \/ \E m \in Messages : \E outcome \in Outcomes(m) : MonitorPosts(m, outcome)
  \/ \E reboot \in BOOLEAN, torn \in SUBSET Messages : AgentRestart(reboot, torn)

Next == Server \/ Connection \/ Agent

Spec == Init /\ [][Next]_vars

---------------------------------------------------------------------------
(* Properties.                                                             *)

(* A thread never has two turns that own its execution, whatever handlers, *)
(* reconnect tasks and terminal events race on update_console_turn.        *)
OneOwner ==
  \A m, n \in Messages : turn[m] \in Owning /\ turn[n] \in Owning => m = n

(* A queued turn never waits for nobody: whoever ends the owning turn      *)
(* claims the next one in the same transaction, so a crash anywhere after  *)
(* it leaves an owner that a reconnect or a replay can dispatch.           *)
QueueHasOwner ==
  (\E m \in Messages : turn[m] = "queued") => HasOwner(turn)

(* No provider is started twice for one message, however often its start   *)
(* command is repeated, replayed after a reconnect or received by a        *)
(* restarted agent: the claim file is made before the process and outlives *)
(* the agent.                                                              *)
SpawnedOnce ==
  \A m \in Messages : spawns[m] <= 1

(* A message the catalog calls delivered really reached a provider         *)
(* process, and one it calls queued has not touched the machine.           *)
DeliveredRan ==
  \A m \in Messages :
    /\ receipt[m] = "delivered" => spawns[m] > 0
    /\ turn[m] = "queued" => claim[m] = "none"

(* The end of an active turn will be reported: its process is watched, or  *)
(* its terminal event is in the outbox.  post_terminal writes the event    *)
(* before the terminal claim, and recovery adopts every spawned claim, so  *)
(* no crash of the agent leaves an active turn that nobody ends, unless    *)
(* the outbox refused its event or a torn claim file disables recovery.    *)
EndIsReported ==
  \A m \in Messages :
    turn[m] = "active" =>
      \/ watch[m] = "watching"
      \/ \E outcome \in Terminal : Ended(m, outcome) \in outbox
      \/ m \in unposted
      \/ \E n \in Messages : claim[n] = "torn"

(* The outcome of a turn is never rewritten, although recovery may post a  *)
(* second terminal event with another outcome, and a late answer or a      *)
(* repeated event may arrive at any time.                                  *)
OutcomeIsFinal ==
  [][\A m \in Messages : turn[m] \in Terminal => turn'[m] = turn[m]]_vars

(* Of two queued messages the one sent first is started first.             *)
StartsInOrder ==
  [][\A m, n \in Messages :
       /\ m < n
       /\ turn[m] = "queued" /\ turn[n] = "queued"
       /\ turn'[n] # "queued"
       => turn'[m] # "queued"]_vars

=============================================================================

---------------------------- MODULE ConsoleProofs ----------------------------
(***************************************************************************)
(* Theorems about Console turns, for any number of messages and faults.    *)
(***************************************************************************)
EXTENDS ConsoleTurns, WellFoundedInduction, TLAPS

---------------------------------------------------------------------------
(* The queue's order.                                                      *)

(* Created_at stamps of waiting turns have a smallest one.                 *)
LEMMA OldestExists ==
  ASSUME NEW S \in SUBSET Nat, S # {}
  PROVE  Oldest(S) # {}
<1> DEFINE less == {p \in Nat \X Nat : p[1] < p[2]}
<1>1. less = OpToRel(<, Nat)
  BY DEF OpToRel
<1>2. IsWellFoundedOn(less, Nat)
  BY <1>1, NatLessThanWellFounded
<1>3. PICK x \in S : \A y \in S : ~ (<<y, x>> \in less)
  <2> HIDE DEF less
  <2> QED  BY <1>2, WFMin
<1>4. ASSUME NEW y \in S, y < x PROVE <<y, x>> \in less
  <2>1. <<y, x>> \in Nat \X Nat /\ <<y, x>>[1] < <<y, x>>[2]
    BY <1>4
  <2> QED  BY <2>1
<1>5. \A y \in S : x <= y
  <2>1. \A y \in S : ~ (y < x)
    <3> HIDE DEF less
    <3> QED  BY <1>3, <1>4, Zenon
  <2>2. \A y \in S : y \in Nat /\ x \in Nat
    OBVIOUS
  <2> QED  BY <2>1, <2>2
<1> QED  BY <1>5 DEF Oldest

(* Claimed turns are queued ones, and there is at most one.                *)
LEMMA ClaimedFacts ==
  ASSUME TypeOK, NEW state
  PROVE  /\ Claimed(state) \subseteq Messages
         /\ \A n \in Claimed(state) : turn[n] = "queued"
         /\ \A n, k \in Claimed(state) : n = k
         /\ \A n \in Claimed(state), k \in Messages : turn[k] = "queued" => n <= k
BY ConsoleAssumption DEF Claimed, Oldest, InState

---------------------------------------------------------------------------
(* Type correctness.                                                       *)

(* An empty catalog and a machine that has never been asked anything are   *)
(* well typed.                                                             *)
LEMMA InitTyped == Init => TypeOK
<1>1. 0 \in 0..MaxFaults
  BY ConsoleAssumption
<1> SUFFICES ASSUME Init PROVE TypeOK
  OBVIOUS
<1>2. turn \in [Messages -> TurnStates] /\ receipt \in [Messages -> ReceiptStates]
  BY DEF Init, TurnStates, ReceiptStates
<1>3. registered \in BOOLEAN /\ capable \in BOOLEAN /\ attached \in BOOLEAN
  BY DEF Init
<1>4. /\ cache \in [Messages -> Answers \cup {"none"}]
      /\ launch \in [Messages -> {"none", "acquired", "forked"}]
      /\ watch \in [Messages -> {"none", "watching", "posted"}]
  BY DEF Init
<1>5. /\ claim \in [Messages -> {"none", "claimed", "torn", "spawned", "failed", "terminal"}]
      /\ adapter \in [Messages -> {"none", "codex_exec", Provider}]
      /\ cancel \in [Messages -> BOOLEAN]
      /\ proc \in [Messages -> {"none", "running", "exited"}]
      /\ spawns \in [Messages -> Nat]
  BY DEF Init
<1>6. /\ due = {} /\ recon = {} /\ pending = {} /\ got = {}
      /\ wire = {} /\ back = {} /\ answerable = {} /\ outbox = {} /\ faults = 0
      /\ unposted = {}
  BY DEF Init
<1> QED  BY <1>1, <1>2, <1>3, <1>4, <1>5, <1>6 DEF TypeOK

(* update_console_turn writes turn and receipt states, and hands out turns *)
(* of the thread.                                                          *)
LEMMA UpdateTyped ==
  ASSUME TypeOK, NEW m \in Messages, NEW state \in {"active"} \cup Terminal,
         NEW expected, UpdateConsoleTurn(m, state, expected)
  PROVE  /\ turn' \in [Messages -> TurnStates]
         /\ receipt' \in [Messages -> ReceiptStates]
         /\ due' \subseteq Messages
<1>1. Claimed(state) \subseteq Messages
  BY ClaimedFacts
<1>2. Oldest(InState(turn, "starting")) \subseteq Messages
  BY DEF Oldest, InState
<1>3. ReceiptOf(state) \in ReceiptStates /\ state \in TurnStates
  BY DEF ReceiptOf, ReceiptStates, TurnStates, Owning, Terminal
<1>4. "starting" \in TurnStates /\ "delivering" \in ReceiptStates
  BY DEF ReceiptStates, TurnStates, Owning
<1> QED  BY <1>1, <1>2, <1>3, <1>4 DEF UpdateConsoleTurn, TypeOK, catalog

(* A request handler, a reconnect task, an event or a restart of the       *)
(* server leaves everything well typed.                                    *)
LEMMA ServerTyped ==
  ASSUME TypeOK, Server
  PROVE  TypeOK'
<1>f. Fault => faults' \in 0..MaxFaults
  BY ConsoleAssumption DEF Fault, TypeOK
<1> USE DEF catalog, tasks, link, agent, machine
<1>1. ASSUME NEW m \in Messages, EnqueueConsoleTurn(m) \/ RepeatEnqueue(m)
      PROVE  TypeOK'
  BY <1>1, <1>f DEF EnqueueConsoleTurn, RepeatEnqueue, TypeOK, TurnStates, ReceiptStates, Owning
<1>2. ASSUME NEW m \in Messages, CancelReceipt(m) \/ ExpireReceipt(m)
      PROVE  TypeOK'
  BY <1>2, <1>f DEF CancelReceipt, ExpireReceipt, TypeOK, ReceiptStates
<1>3. ASSUME NEW m \in Messages, DispatchTurn(m) PROVE TypeOK'
  BY <1>3 DEF DispatchTurn, SendStart, Frame, Result, Answers, TypeOK
<1>4. ASSUME NEW m \in Messages, ReplayTurn(m) PROVE TypeOK'
  BY <1>4 DEF ReplayTurn, SendStart, Frame, TypeOK
<1>5. ASSUME NEW m \in Messages, ReplyTimeout(m) \/ SendInterrupt(m) PROVE TypeOK'
  BY <1>5, <1>f DEF ReplyTimeout, SendInterrupt, Frame, TypeOK
<1>6. ASSUME NEW res \in back, CompleteCommand(res) PROVE TypeOK'
  BY <1>6 DEF CompleteCommand, TypeOK
<1>7. ASSUME NEW res \in got, ApplyAnswer(res) PROVE TypeOK'
  <2>1. res.run \in Messages
    BY DEF TypeOK
  <2>2. /\ turn' \in [Messages -> TurnStates]
        /\ receipt' \in [Messages -> ReceiptStates]
        /\ due' \subseteq Messages
    BY <1>7, <2>1, UpdateTyped DEF ApplyAnswer, Terminal
  <2> QED  BY <1>7, <2>2 DEF ApplyAnswer, TypeOK
<1>8. ASSUME NEW res \in got, LoseAnswer(res) PROVE TypeOK'
  BY <1>8, <1>f DEF LoseAnswer, TypeOK
<1>9. ASSUME NEW event \in outbox, PostTerminal(event) PROVE TypeOK'
  <2>1. event.run \in Messages /\ event.outcome \in Terminal
    BY DEF TypeOK
  <2>2. /\ turn' \in [Messages -> TurnStates]
        /\ receipt' \in [Messages -> ReceiptStates]
        /\ due' \subseteq Messages
    BY <1>9, <2>1, UpdateTyped DEF PostTerminal
  <2> QED  BY <1>9, <1>f, <2>2 DEF PostTerminal, TypeOK
<1>10. ASSUME Unregister \/ ServerRestart PROVE TypeOK'
  BY <1>10, <1>f DEF Unregister, ServerRestart, TypeOK
<1> QED  BY <1>1, <1>2, <1>3, <1>4, <1>5, <1>6, <1>7, <1>8, <1>9, <1>10 DEF Server

(* So does a connection made or lost, and a step of the agent.             *)
LEMMA AgentTyped ==
  ASSUME TypeOK, Connection \/ Agent
  PROVE  TypeOK'
<1>f. Fault => faults' \in 0..MaxFaults
  BY ConsoleAssumption DEF Fault, TypeOK
<1> USE DEF catalog, tasks, link, agent, machine
<1>1. ASSUME NEW supported \in BOOLEAN, Connect(supported) PROVE TypeOK'
  BY <1>1, <1>f DEF Connect, InState, TypeOK
<1>2. ASSUME Disconnect PROVE TypeOK'
  BY <1>2, <1>f DEF Disconnect, TypeOK
<1>3. ASSUME NEW m \in Messages, ReceiveStart(m) PROVE TypeOK'
  <2>1. ExistingClaim(m) \in Answers
    BY DEF ExistingClaim, Answers
  <2> QED  BY <1>3, <2>1 DEF ReceiveStart, Answer, Result, TypeOK
<1>4. ASSUME NEW m \in Messages, RejectStart(m) PROVE TypeOK'
  BY <1>4, <1>f DEF RejectStart, Answer, Result, Answers, TypeOK
<1>14. ASSUME NEW m \in Messages, MonitorLosesEvent(m) PROVE TypeOK'
  BY <1>14, <1>f DEF MonitorLosesEvent, TypeOK
<1>5. ASSUME NEW m \in Messages, Evict(m) PROVE TypeOK'
  BY <1>5, <1>f DEF Evict, TypeOK
<1>6. ASSUME NEW m \in Messages, ReceiveInterrupt(m) PROVE TypeOK'
  BY <1>6 DEF ReceiveInterrupt, TypeOK
<1>7. ASSUME NEW m \in Messages, SpawnProvider(m) PROVE TypeOK'
  BY <1>7 DEF SpawnProvider, TypeOK
<1>8. ASSUME NEW m \in Messages, LaunchFails(m) PROVE TypeOK'
  BY <1>8, <1>f DEF LaunchFails, AnswerIfAttached, Answer, Result, Answers, TypeOK
<1>9. ASSUME NEW m \in Messages, MarkSpawned(m) PROVE TypeOK'
  BY <1>9 DEF MarkSpawned, RecordedAdapter, AnswerIfAttached, Answer, Result, Answers, TypeOK
<1>10. ASSUME NEW m \in Messages, ProviderExits(m) PROVE TypeOK'
  BY <1>10 DEF ProviderExits, TypeOK
<1>11. ASSUME NEW m \in Messages, MonitorMarks(m) PROVE TypeOK'
  BY <1>11 DEF MonitorMarks, TypeOK
<1>12. ASSUME NEW m \in Messages, NEW outcome \in Outcomes(m), MonitorPosts(m, outcome)
       PROVE  TypeOK'
  <2>1. outcome \in Terminal
    BY DEF Outcomes, Terminal
  <2> QED  BY <1>12, <1>f, <2>1 DEF MonitorPosts, Ended, TypeOK
<1>13. ASSUME NEW reboot \in BOOLEAN, NEW torn \in SUBSET Messages, AgentRestart(reboot, torn)
       PROVE  TypeOK'
  BY <1>13, <1>f DEF AgentRestart, TypeOK
<1> QED  BY <1>1, <1>2, <1>3, <1>4, <1>5, <1>6, <1>7, <1>8, <1>9, <1>10, <1>11, <1>12, <1>13,
            <1>14
         DEF Connection, Agent

(* Every step keeps the types.                                             *)
LEMMA StepTyped == TypeOK /\ [Next]_vars => TypeOK'
<1>1. ASSUME TypeOK, UNCHANGED vars PROVE TypeOK'
  BY <1>1 DEF TypeOK, vars
<1> QED  BY <1>1, ServerTyped, AgentTyped DEF Next

(* The rows, tasks, frames, claims and events of Console turns have the    *)
(* types the columns, messages and files of the code give them.            *)
THEOREM ConsoleTyping == Spec => []TypeOK
BY InitTyped, StepTyped, PTL DEF Spec

---------------------------------------------------------------------------
(* What each side leaves alone.                                            *)

(* The server and the connection never touch the machine's launches,       *)
(* monitors, claims and processes.                                         *)
LEMMA ServerLeavesMachine ==
  ASSUME Server \/ Connection
  PROVE  UNCHANGED <<cache, launch, watch, claim, adapter, cancel, proc, spawns>>
<1> USE DEF catalog, tasks, link, agent, machine
<1>1. ASSUME Server PROVE UNCHANGED <<cache, launch, watch, claim, adapter, cancel, proc, spawns>>
  BY <1>1 DEF Server, EnqueueConsoleTurn, RepeatEnqueue, CancelReceipt, ExpireReceipt,
     DispatchTurn, ReplayTurn, ReplyTimeout, SendInterrupt, CompleteCommand, ApplyAnswer,
     LoseAnswer, PostTerminal, Unregister, ServerRestart
<1>2. ASSUME Connection PROVE UNCHANGED <<cache, launch, watch, claim, adapter, cancel, proc, spawns>>
  BY <1>2 DEF Connection, Connect, Disconnect
<1> QED  BY <1>1, <1>2

(* The agent never touches the catalog's rows or the server's tasks.       *)
LEMMA AgentLeavesServer ==
  ASSUME Agent
  PROVE  UNCHANGED <<turn, receipt, due, recon, pending, got>>
BY DEF Agent, ReceiveStart, RejectStart, Evict, ReceiveInterrupt, SpawnProvider, LaunchFails,
   MarkSpawned, ProviderExits, MonitorMarks, MonitorPosts, MonitorLosesEvent, AgentRestart,
   catalog, tasks, link, agent, machine

---------------------------------------------------------------------------
(* The machine.  The claim file is what a launch, a process and a monitor  *)
(* have in common: it is made before the process, says "spawned" exactly   *)
(* when a monitor may watch it, and never goes back.                       *)

Live == {"spawned", "terminal"}

ClaimTellsLaunch(m) ==
  /\ launch[m] # "none" => claim[m] = "claimed"
  /\ launch[m] = "acquired" \/ claim[m] = "none" => spawns[m] = 0
  /\ launch[m] = "forked" \/ claim[m] \in Live => spawns[m] > 0
  /\ spawns[m] <= 1

ClaimTellsWatch(m) ==
  /\ watch[m] # "none" => claim[m] = "spawned"
  /\ claim[m] = "spawned" => adapter[m] = RecordedAdapter

MachineInv == \A m \in Messages : ClaimTellsLaunch(m) /\ ClaimTellsWatch(m)

(* Launches, monitors and recovery keep the claim file truthful.           *)
LEMMA MachineStep ==
  ASSUME TypeOK, MachineInv, [Next]_vars
  PROVE  MachineInv'
<1> USE DEF MachineInv, ClaimTellsLaunch, ClaimTellsWatch, Live
<1>1. ASSUME UNCHANGED <<launch, watch, claim, adapter, spawns>> PROVE MachineInv'
  BY <1>1 DEF RecordedAdapter
<1>2. ASSUME NEW m \in Messages, ReceiveStart(m) PROVE MachineInv'
  BY <1>2 DEF ReceiveStart, Unclaimed, TypeOK, RecordedAdapter, catalog, tasks
<1>3. ASSUME NEW m \in Messages, SpawnProvider(m) PROVE MachineInv'
  BY <1>3 DEF SpawnProvider, TypeOK, RecordedAdapter
<1>4. ASSUME NEW m \in Messages, LaunchFails(m) PROVE MachineInv'
  BY <1>4 DEF LaunchFails, TypeOK, RecordedAdapter
<1>5. ASSUME NEW m \in Messages, MarkSpawned(m) PROVE MachineInv'
  BY <1>5 DEF MarkSpawned, TypeOK, RecordedAdapter
<1>6. ASSUME NEW m \in Messages, NEW outcome, MonitorPosts(m, outcome) PROVE MachineInv'
  BY <1>6 DEF MonitorPosts, TypeOK, RecordedAdapter
<1>7. ASSUME NEW m \in Messages, MonitorMarks(m) PROVE MachineInv'
  BY <1>7 DEF MonitorMarks, TypeOK, RecordedAdapter
<1>10. ASSUME NEW m \in Messages, MonitorLosesEvent(m) PROVE MachineInv'
  BY <1>10 DEF MonitorLosesEvent, TypeOK, RecordedAdapter
<1>11. ASSUME NEW m \in Messages, RejectStart(m) PROVE MachineInv'
  BY <1>11 DEF RejectStart, Unclaimed, TypeOK, RecordedAdapter
<1>8. ASSUME NEW reboot, NEW torn \in SUBSET Messages, AgentRestart(reboot, torn) PROVE MachineInv'
  BY <1>8 DEF AgentRestart, Adopted, TypeOK, RecordedAdapter
<1>9. ASSUME NEW m \in Messages,
             Evict(m) \/ ReceiveInterrupt(m) \/ ProviderExits(m)
      PROVE  UNCHANGED <<launch, watch, claim, adapter, spawns>>
  BY <1>9 DEF Evict, ReceiveInterrupt, ProviderExits, agent, machine
<1> QED
  <2>1. CASE Server \/ Connection
    BY <2>1, <1>1, ServerLeavesMachine
  <2>2. CASE Agent
    BY <2>2, <1>1, <1>2, <1>3, <1>4, <1>5, <1>6, <1>7, <1>8, <1>9, <1>10, <1>11 DEF Agent
  <2>3. CASE UNCHANGED vars
    BY <2>3, <1>1 DEF vars
  <2> QED  BY <2>1, <2>2, <2>3 DEF Next

(* A claim of a process is never taken back, a torn one never mended, and  *)
(* a run is first claimed when its start command arrives.                  *)
LEMMA ClaimsAdvance ==
  ASSUME TypeOK, MachineInv, [Next]_vars, NEW m \in Messages
  PROVE  /\ claim[m] \in Live => claim'[m] \in Live
         /\ claim[m] = "torn" => claim'[m] = "torn"
         /\ claim[m] = "none" /\ claim'[m] # "none" => Frame("start", m) \in wire
<1> USE DEF MachineInv, ClaimTellsLaunch, ClaimTellsWatch, Live
<1> DEFINE Goal == /\ claim[m] \in Live => claim'[m] \in Live
                   /\ claim[m] = "torn" => claim'[m] = "torn"
                   /\ claim[m] = "none" /\ claim'[m] # "none" => Frame("start", m) \in wire
<1>1. ASSUME UNCHANGED claim PROVE Goal
  BY <1>1
<1>2. ASSUME NEW n \in Messages, ReceiveStart(n) PROVE Goal
  BY <1>2 DEF ReceiveStart, Unclaimed, TypeOK
<1>3. ASSUME NEW n \in Messages, LaunchFails(n) PROVE Goal
  BY <1>3 DEF LaunchFails, TypeOK
<1>4. ASSUME NEW n \in Messages, MarkSpawned(n) PROVE Goal
  BY <1>4 DEF MarkSpawned, TypeOK
<1>5. ASSUME NEW n \in Messages, MonitorMarks(n) PROVE Goal
  BY <1>5 DEF MonitorMarks, TypeOK
<1>6. ASSUME NEW n \in Messages,
             \/ Evict(n) \/ ReceiveInterrupt(n) \/ SpawnProvider(n) \/ ProviderExits(n)
             \/ MonitorLosesEvent(n) \/ \E outcome \in Outcomes(n) : MonitorPosts(n, outcome)
      PROVE  UNCHANGED claim
  BY <1>6 DEF Evict, ReceiveInterrupt, SpawnProvider, ProviderExits,
     MonitorPosts, MonitorLosesEvent, agent, machine
<1>7. ASSUME NEW reboot, NEW torn \in SUBSET Messages, AgentRestart(reboot, torn) PROVE Goal
  BY <1>7 DEF AgentRestart, TypeOK
<1>8. ASSUME NEW n \in Messages, RejectStart(n) PROVE Goal
  BY <1>8 DEF RejectStart, Unclaimed, TypeOK
<1> QED
  <2>1. CASE Server \/ Connection
    BY <2>1, <1>1, ServerLeavesMachine
  <2>2. CASE Agent
    BY <2>2, <1>1, <1>2, <1>3, <1>4, <1>5, <1>6, <1>7, <1>8 DEF Agent
  <2>3. CASE UNCHANGED vars
    BY <2>3, <1>1 DEF vars
  <2> QED  BY <2>1, <2>2, <2>3 DEF Next

---------------------------------------------------------------------------
(* What the catalog and the machine know of each other.  A turn that was   *)
(* not claimed has left no trace outside the catalog; whoever says that a  *)
(* run started or ended has a claim of its process behind it.              *)

Untouched(m) ==
  /\ m \notin due /\ m \notin recon /\ m \notin pending
  /\ Frame("start", m) \notin wire
  /\ \A answer \in Answers : Result(m, answer) \notin got /\ Result(m, answer) \notin back
  /\ cache[m] = "none"
  /\ claim[m] = "none"

Vouched(m) ==
  \/ turn[m] = "active"
  \/ receipt[m] = "delivered"
  \/ Result(m, "ok") \in got \/ Result(m, "ok") \in back \/ cache[m] = "ok"
  \/ \E outcome \in Terminal : Ended(m, outcome) \in outbox

WaitingIsUntouched == \A m \in Messages : turn[m] \in {"none", "queued"} => Untouched(m)
VouchedIsLive == \A m \in Messages : Vouched(m) => claim[m] \in Live

(* A turn is claimed before anything else happens to it.                   *)
LEMMA WaitingStep ==
  ASSUME TypeOK, MachineInv, WaitingIsUntouched, VouchedIsLive, [Next]_vars
  PROVE  WaitingIsUntouched'
<1> USE DEF WaitingIsUntouched, Untouched, Frame, Result, TypeOK, catalog, tasks, link, agent, machine
<1>1. ASSUME NEW m \in Messages, EnqueueConsoleTurn(m) PROVE WaitingIsUntouched'
  BY <1>1 DEF EnqueueConsoleTurn
<1>2. ASSUME NEW m \in Messages, RepeatEnqueue(m) PROVE WaitingIsUntouched'
  BY <1>2 DEF RepeatEnqueue
<1>3. ASSUME NEW m \in Messages, CancelReceipt(m) \/ ExpireReceipt(m) PROVE WaitingIsUntouched'
  BY <1>3 DEF CancelReceipt, ExpireReceipt
<1>4. ASSUME NEW m \in Messages, DispatchTurn(m) PROVE WaitingIsUntouched'
  BY <1>4 DEF DispatchTurn, SendStart
<1>5. ASSUME NEW m \in Messages, ReplayTurn(m) PROVE WaitingIsUntouched'
  BY <1>5 DEF ReplayTurn, SendStart
<1>6. ASSUME NEW m \in Messages, ReplyTimeout(m) \/ SendInterrupt(m) PROVE WaitingIsUntouched'
  BY <1>6 DEF ReplyTimeout, SendInterrupt
<1>7. ASSUME NEW res \in back, CompleteCommand(res) PROVE WaitingIsUntouched'
  BY <1>7 DEF CompleteCommand
<1>8. ASSUME NEW res \in got, LoseAnswer(res) PROVE WaitingIsUntouched'
  BY <1>8 DEF LoseAnswer
<1>9. ASSUME Unregister \/ ServerRestart \/ Disconnect PROVE WaitingIsUntouched'
  BY <1>9 DEF Unregister, ServerRestart, Disconnect
<1>10. ASSUME NEW supported, Connect(supported) PROVE WaitingIsUntouched'
  BY <1>10 DEF Connect, InState
<1>11. ASSUME NEW r \in Messages, NEW state \in {"active"} \cup Terminal, NEW expected,
              UpdateConsoleTurn(r, state, expected), turn[r] \notin {"none", "queued"},
              UNCHANGED <<recon, pending, wire, back, cache, claim>>, got' \subseteq got
       PROVE  WaitingIsUntouched'
  <2>1. /\ Claimed(state) \subseteq Messages
        /\ \A n \in Claimed(state) : turn[n] = "queued"
    BY ClaimedFacts
  <2>2. \A n \in Oldest(InState(turn, "starting")) : turn[n] = "starting"
    BY DEF Oldest, InState
  <2>3. \A n \in Messages : turn'[n] \in {"none", "queued"} =>
          turn[n] \in {"none", "queued"} /\ (n \in due' => n \in due)
    BY <1>11, <2>1, <2>2 DEF UpdateConsoleTurn, Terminal
  <2> QED  BY <1>11, <2>3
<1>12. ASSUME NEW res \in got, ApplyAnswer(res) PROVE WaitingIsUntouched'
  <2>1. res.run \in Messages /\ res.answer \in Answers /\ res = Result(res.run, res.answer)
    OBVIOUS
  <2>2. turn[res.run] \notin {"none", "queued"}
    <3> HIDE DEF Result
    <3>1. Result(res.run, res.answer) \in got
      BY <2>1
    <3> QED  BY <2>1, <3>1
  <2> QED  BY <1>12, <2>1, <2>2, <1>11 DEF ApplyAnswer, Terminal
<1>13. ASSUME NEW event \in outbox, PostTerminal(event) PROVE WaitingIsUntouched'
  <2>1. event.run \in Messages /\ event.outcome \in Terminal /\ event = Ended(event.run, event.outcome)
    BY DEF Ended
  <2>2. claim[event.run] \in Live
    <3>1. Ended(event.run, event.outcome) \in outbox
      BY <2>1
    <3> QED  BY <2>1, <3>1, Zenon DEF VouchedIsLive, Vouched
  <2>3. turn[event.run] \notin {"none", "queued"}
    BY <2>1, <2>2 DEF Live
  <2> QED  BY <1>13, <2>1, <2>3, <1>11 DEF PostTerminal
<1>14. ASSUME NEW m \in Messages, ReceiveStart(m) PROVE WaitingIsUntouched'
  BY <1>14 DEF ReceiveStart, Answer
<1>15. ASSUME NEW m \in Messages, RejectStart(m) PROVE WaitingIsUntouched'
  BY <1>15 DEF RejectStart, Answer, Unclaimed
<1>16. ASSUME NEW m \in Messages, Evict(m) \/ ReceiveInterrupt(m) PROVE WaitingIsUntouched'
  BY <1>16 DEF Evict, ReceiveInterrupt
<1>17. ASSUME NEW m \in Messages, SpawnProvider(m) \/ ProviderExits(m) PROVE WaitingIsUntouched'
  BY <1>17 DEF SpawnProvider, ProviderExits
<1>18. ASSUME NEW m \in Messages, LaunchFails(m) PROVE WaitingIsUntouched'
  BY <1>18 DEF LaunchFails, AnswerIfAttached, Answer, MachineInv, ClaimTellsLaunch
<1>19. ASSUME NEW m \in Messages, MarkSpawned(m) PROVE WaitingIsUntouched'
  BY <1>19 DEF MarkSpawned, AnswerIfAttached, Answer, MachineInv, ClaimTellsLaunch
<1>20. ASSUME NEW m \in Messages, MonitorMarks(m) PROVE WaitingIsUntouched'
  BY <1>20 DEF MonitorMarks, MachineInv, ClaimTellsWatch
<1>21. ASSUME NEW m \in Messages, NEW outcome, MonitorPosts(m, outcome) PROVE WaitingIsUntouched'
  BY <1>21 DEF MonitorPosts
<1>22. ASSUME NEW reboot, NEW torn \in SUBSET Messages, AgentRestart(reboot, torn)
       PROVE  WaitingIsUntouched'
  BY <1>22 DEF AgentRestart, MachineInv, ClaimTellsLaunch
<1>24. ASSUME NEW m \in Messages, MonitorLosesEvent(m) PROVE WaitingIsUntouched'
  BY <1>24 DEF MonitorLosesEvent
<1>23. ASSUME UNCHANGED vars PROVE WaitingIsUntouched'
  BY <1>23 DEF vars
<1> QED
  BY <1>1, <1>2, <1>3, <1>4, <1>5, <1>6, <1>7, <1>8, <1>9, <1>10, <1>12, <1>13, <1>14, <1>15,
     <1>16, <1>17, <1>18, <1>19, <1>20, <1>21, <1>22, <1>23, <1>24
  DEF Next, Server, Connection, Agent

(* Only a process that was recorded is reported as started or ended.       *)
LEMMA VouchedStep ==
  ASSUME TypeOK, MachineInv, VouchedIsLive, [Next]_vars
  PROVE  VouchedIsLive'
<1> SUFFICES ASSUME NEW n \in Messages, Vouched(n)', claim[n] \notin Live
             PROVE  claim'[n] \in Live
  BY ClaimsAdvance DEF VouchedIsLive
<1>n. ~ Vouched(n)
  BY DEF VouchedIsLive
<1> USE <1>n DEF Vouched, Result, Ended, TypeOK, catalog, tasks, link, agent, machine
<1> DEFINE Goal == claim'[n] \in Live
<1>1. ASSUME NEW m \in Messages, EnqueueConsoleTurn(m) \/ RepeatEnqueue(m) PROVE Goal
  BY <1>1 DEF EnqueueConsoleTurn, RepeatEnqueue
<1>2. ASSUME NEW m \in Messages, CancelReceipt(m) \/ ExpireReceipt(m) PROVE Goal
  BY <1>2 DEF CancelReceipt, ExpireReceipt
<1>3. ASSUME NEW m \in Messages, DispatchTurn(m) PROVE Goal
  BY <1>3 DEF DispatchTurn
<1>4. ASSUME NEW m \in Messages, ReplayTurn(m) \/ ReplyTimeout(m) \/ SendInterrupt(m) PROVE Goal
  BY <1>4 DEF ReplayTurn, ReplyTimeout, SendInterrupt
<1>5. ASSUME NEW res \in back, CompleteCommand(res) PROVE Goal
  BY <1>5 DEF CompleteCommand
<1>6. ASSUME NEW res \in got, LoseAnswer(res) PROVE Goal
  BY <1>6 DEF LoseAnswer
<1>7. ASSUME Unregister \/ ServerRestart \/ Disconnect PROVE Goal
  BY <1>7 DEF Unregister, ServerRestart, Disconnect
<1>8. ASSUME NEW supported, Connect(supported) PROVE Goal
  BY <1>8 DEF Connect
<1>9. ASSUME NEW r \in Messages, NEW state \in {"active"} \cup Terminal, NEW expected,
             UpdateConsoleTurn(r, state, expected), r = n => state \in {"failed", "cancelled"}
      PROVE  turn'[n] # "active" /\ receipt'[n] # "delivered"
  BY <1>9 DEF UpdateConsoleTurn, ReceiptOf, Terminal
<1>10. ASSUME NEW res \in got, ApplyAnswer(res) PROVE Goal
  <2>1. res.run \in Messages /\ res.answer \in Answers /\ res = Result(res.run, res.answer)
    OBVIOUS
  <2>2. res.run = n => res.answer # "ok"
    BY <2>1
  <2>3. turn'[n] # "active" /\ receipt'[n] # "delivered"
    BY <1>9, <1>10, <2>1, <2>2 DEF ApplyAnswer, Terminal
  <2> QED  BY <1>10, <2>3 DEF ApplyAnswer
<1>11. ASSUME NEW event \in outbox, PostTerminal(event) PROVE Goal
  <2>1. event.run \in Messages /\ event.outcome \in Terminal /\ event = Ended(event.run, event.outcome)
    OBVIOUS
  <2>2. event.run # n
    <3>1. Ended(event.run, event.outcome) \in outbox
      BY <2>1
    <3> HIDE DEF Ended
    <3> QED  BY <2>1, <3>1
  <2>3. turn'[n] # "active" /\ receipt'[n] # "delivered"
    BY <1>9, <1>11, <2>1, <2>2 DEF PostTerminal
  <2> QED  BY <1>11, <2>3 DEF PostTerminal
<1>12. ASSUME NEW m \in Messages, ReceiveStart(m) PROVE Goal
  BY <1>12 DEF ReceiveStart, Answer, ExistingClaim, Live
<1>13. ASSUME NEW m \in Messages, RejectStart(m) PROVE Goal
  BY <1>13 DEF RejectStart, Answer
<1>14. ASSUME NEW m \in Messages, Evict(m) \/ ReceiveInterrupt(m) PROVE Goal
  BY <1>14 DEF Evict, ReceiveInterrupt
<1>15. ASSUME NEW m \in Messages, SpawnProvider(m) \/ ProviderExits(m) PROVE Goal
  BY <1>15 DEF SpawnProvider, ProviderExits
<1>16. ASSUME NEW m \in Messages, LaunchFails(m) PROVE Goal
  <2>1. /\ UNCHANGED <<turn, receipt, got, outbox>>
        /\ cache' \in {cache, [cache EXCEPT ![m] = "refused"]}
        /\ back' \in {back, back \cup {Result(m, "refused")}}
    BY <1>16 DEF LaunchFails, AnswerIfAttached, Answer
  <2> QED  BY <2>1
<1>17. ASSUME NEW m \in Messages, MarkSpawned(m) PROVE Goal
  <2>1. /\ UNCHANGED <<turn, receipt, got, outbox>>
        /\ cache' \in {cache, [cache EXCEPT ![m] = "ok"]}
        /\ back' \in {back, back \cup {Result(m, "ok")}}
        /\ claim' = [claim EXCEPT ![m] = "spawned"]
    BY <1>17 DEF MarkSpawned, AnswerIfAttached, Answer
  <2>2. m = n
    BY <2>1
  <2> QED  BY <2>1, <2>2 DEF Live
<1>18. ASSUME NEW m \in Messages, MonitorMarks(m) PROVE Goal
  BY <1>18 DEF MonitorMarks, Live
<1>19. ASSUME NEW m \in Messages, NEW outcome \in Outcomes(m), MonitorPosts(m, outcome) PROVE Goal
  BY <1>19 DEF MonitorPosts, MachineInv, ClaimTellsWatch, Live
<1>20. ASSUME NEW reboot, NEW torn \in SUBSET Messages, AgentRestart(reboot, torn) PROVE Goal
  BY <1>20 DEF AgentRestart
<1>22. ASSUME NEW m \in Messages, MonitorLosesEvent(m) PROVE Goal
  BY <1>22 DEF MonitorLosesEvent
<1>21. ASSUME UNCHANGED vars PROVE Goal
  BY <1>21 DEF vars
<1> QED
  BY <1>1, <1>2, <1>3, <1>4, <1>5, <1>6, <1>7, <1>8, <1>10, <1>11, <1>12, <1>13, <1>14, <1>15,
     <1>16, <1>17, <1>18, <1>19, <1>20, <1>21, <1>22
  DEF Next, Server, Connection, Agent

---------------------------------------------------------------------------
(* The thread's queue.                                                     *)

Enqueued(m) ==
  /\ turn[m] = "none"
  /\ turn' = [turn EXCEPT ![m] = IF HasOwner(turn) THEN "queued" ELSE "starting"]

Moved(m, state) ==
  /\ turn[m] \in Owning
  /\ turn' = [n \in Messages |-> IF n = m THEN state
                                 ELSE IF n \in Claimed(state) THEN "starting" ELSE turn[n]]

(* All a step can do to the turns of a thread: add one, or move the one    *)
(* that owns the thread and claim the next.  An answer or an event about a *)
(* turn that owns nothing finds it ended, since a waiting one is untouched *)
(* by the machine.                                                         *)
LEMMA TurnsMove ==
  ASSUME TypeOK, WaitingIsUntouched, VouchedIsLive, [Next]_vars
  PROVE  \/ UNCHANGED turn
         \/ \E m \in Messages : Enqueued(m)
         \/ \E m \in Messages, state \in {"active"} \cup Terminal : Moved(m, state)
<1> USE DEF TypeOK, catalog, tasks, link, agent, machine
<1> DEFINE Goal == \/ UNCHANGED turn
                   \/ \E m \in Messages : Enqueued(m)
                   \/ \E m \in Messages, state \in {"active"} \cup Terminal : Moved(m, state)
<1>1. ASSUME NEW m \in Messages, EnqueueConsoleTurn(m) PROVE Goal
  BY <1>1 DEF EnqueueConsoleTurn, Enqueued
<1>2. ASSUME NEW r \in Messages, NEW state \in {"active"} \cup Terminal, NEW expected,
             UpdateConsoleTurn(r, state, expected), turn[r] \notin {"none", "queued"}
      PROVE  Goal
  <2>1. CASE UNCHANGED turn
    BY <2>1
  <2>2. CASE /\ turn[r] \notin Terminal
             /\ turn' = [n \in Messages |-> IF n = r THEN state
                                            ELSE IF n \in Claimed(state) THEN "starting" ELSE turn[n]]
    <3>1. turn[r] \in Owning
      BY <1>2, <2>2 DEF TurnStates
    <3> QED  BY <2>2, <3>1 DEF Moved
  <2> QED  BY <1>2, <2>1, <2>2 DEF UpdateConsoleTurn
<1>3. ASSUME NEW res \in got, ApplyAnswer(res) PROVE Goal
  <2>1. res.run \in Messages /\ res.answer \in Answers /\ res = Result(res.run, res.answer)
    BY DEF Result
  <2>2. turn[res.run] \notin {"none", "queued"}
    <3>1. Result(res.run, res.answer) \in got
      BY <2>1
    <3> QED  BY <2>1, <3>1 DEF WaitingIsUntouched, Untouched
  <2> QED  BY <1>2, <1>3, <2>1, <2>2 DEF ApplyAnswer, Terminal
<1>4. ASSUME NEW event \in outbox, PostTerminal(event) PROVE Goal
  <2>1. event.run \in Messages /\ event.outcome \in Terminal /\ event = Ended(event.run, event.outcome)
    BY DEF Ended
  <2>2. claim[event.run] \in Live
    <3>1. Ended(event.run, event.outcome) \in outbox
      BY <2>1
    <3> QED  BY <2>1, <3>1, Zenon DEF VouchedIsLive, Vouched
  <2>3. turn[event.run] \notin {"none", "queued"}
    BY <2>1, <2>2 DEF Live, WaitingIsUntouched, Untouched
  <2> QED  BY <1>2, <1>4, <2>1, <2>3 DEF PostTerminal
<1>5. ASSUME NEW m \in Messages,
             \/ RepeatEnqueue(m) \/ CancelReceipt(m) \/ ExpireReceipt(m) \/ DispatchTurn(m)
             \/ ReplayTurn(m) \/ ReplyTimeout(m) \/ SendInterrupt(m)
      PROVE  UNCHANGED turn
  BY <1>5 DEF RepeatEnqueue, CancelReceipt, ExpireReceipt, DispatchTurn, ReplayTurn,
     ReplyTimeout, SendInterrupt
<1>6. ASSUME NEW res, CompleteCommand(res) \/ LoseAnswer(res) PROVE UNCHANGED turn
  BY <1>6 DEF CompleteCommand, LoseAnswer
<1>7. ASSUME Unregister \/ ServerRestart \/ Connection PROVE UNCHANGED turn
  BY <1>7 DEF Unregister, ServerRestart, Connection, Connect, Disconnect
<1>8. CASE Server
  BY <1>1, <1>3, <1>4, <1>5, <1>6, <1>7, <1>8 DEF Server
<1>9. CASE Agent
  BY <1>9, AgentLeavesServer
<1>10. CASE UNCHANGED vars
  BY <1>10 DEF vars
<1> QED  BY <1>7, <1>8, <1>9, <1>10 DEF Next

(* A move leaves one owner, and somebody to wait for.                      *)
LEMMA QueueStep ==
  ASSUME TypeOK, WaitingIsUntouched, VouchedIsLive, OneOwner, QueueHasOwner, [Next]_vars
  PROVE  OneOwner' /\ QueueHasOwner'
<1> USE DEF OneOwner, QueueHasOwner, HasOwner, TypeOK
<1>1. ASSUME UNCHANGED turn PROVE OneOwner' /\ QueueHasOwner'
  BY <1>1
<1>2. ASSUME NEW m \in Messages, Enqueued(m) PROVE OneOwner' /\ QueueHasOwner'
  BY <1>2 DEF Enqueued, Owning
<1>3. ASSUME NEW m \in Messages, NEW state \in {"active"} \cup Terminal, Moved(m, state)
      PROVE  OneOwner' /\ QueueHasOwner'
  <2>1. /\ Claimed(state) \subseteq Messages
        /\ \A n \in Claimed(state) : turn[n] = "queued"
        /\ \A n, k \in Claimed(state) : n = k
    BY ClaimedFacts
  <2>2. CASE state = "active"
    <3>1. Claimed(state) = {}
      BY <2>2 DEF Claimed, Terminal
    <3> QED  BY <1>3, <2>2, <3>1 DEF Moved, Owning
  <2>3. CASE state \in Terminal
    <3>1. OneOwner'
      BY <1>3, <2>1, <2>3 DEF Moved, Owning, Terminal
    <3>2. ASSUME NEW q \in Messages, turn'[q] = "queued" PROVE HasOwner(turn')
      <4>1. turn[q] = "queued"
        BY <1>3, <2>3, <3>2 DEF Moved, Terminal
      <4>2. InState(turn, "queued") \in SUBSET Nat /\ InState(turn, "queued") # {}
        BY <4>1, ConsoleAssumption DEF InState
      <4>3. Claimed(state) # {}
        BY <2>3, <4>2, OldestExists DEF Claimed
      <4>4. PICK n \in Claimed(state) : TRUE
        BY <4>3
      <4>5. n # m /\ n \in Messages
        BY <1>3, <2>1, <4>4 DEF Moved, Owning
      <4>6. turn'[n] = "starting"
        BY <1>3, <4>4, <4>5 DEF Moved
      <4> QED  BY <4>5, <4>6 DEF Owning
    <3> QED  BY <3>1, <3>2
  <2> QED  BY <2>2, <2>3
<1> QED  BY <1>1, <1>2, <1>3, TurnsMove

---------------------------------------------------------------------------
(* The theorems.                                                           *)

Inv ==
  /\ TypeOK
  /\ MachineInv
  /\ WaitingIsUntouched
  /\ VouchedIsLive
  /\ OneOwner
  /\ QueueHasOwner

(* An empty thread satisfies the invariant.                                *)
LEMMA InvInit == Init => Inv
<1> SUFFICES ASSUME Init PROVE Inv
  OBVIOUS
<1>1. TypeOK
  BY InitTyped
<1>2. MachineInv
  BY DEF Init, MachineInv, ClaimTellsLaunch, ClaimTellsWatch, Live
<1>3. WaitingIsUntouched
  BY DEF Init, WaitingIsUntouched, Untouched
<1>4. VouchedIsLive
  BY DEF Init, VouchedIsLive, Vouched
<1>5. OneOwner /\ QueueHasOwner
  BY DEF Init, OneOwner, QueueHasOwner, Owning
<1> QED  BY <1>1, <1>2, <1>3, <1>4, <1>5 DEF Inv

(* Every step of the server, the connection and the agent keeps it.        *)
LEMMA InvStep == Inv /\ [Next]_vars => Inv'
BY StepTyped, MachineStep, WaitingStep, VouchedStep, QueueStep DEF Inv

(* The invariant holds in every reachable state.                           *)
LEMMA InvHolds == Spec => []Inv
BY InvInit, InvStep, PTL DEF Spec

(* However handlers, reconnect tasks and terminal events race on           *)
(* update_console_turn, a thread has at most one turn that owns it.        *)
THEOREM ThreadHasOneOwner == Spec => []OneOwner
<1>1. Inv => OneOwner
  BY DEF Inv
<1> QED  BY <1>1, InvHolds, PTL

(* No crash leaves queued turns without a turn to wait for: the claim of   *)
(* the next turn is part of the transaction that ends its predecessor.     *)
THEOREM QueueIsNeverStranded == Spec => []QueueHasOwner
<1>1. Inv => QueueHasOwner
  BY DEF Inv
<1> QED  BY <1>1, InvHolds, PTL

(* The claim file makes the start of a provider happen at most once per    *)
(* message, for any number of repeated, replayed and delayed commands.     *)
THEOREM ProviderStartsOnce == Spec => []SpawnedOnce
<1>1. Inv => SpawnedOnce
  BY DEF Inv, MachineInv, ClaimTellsLaunch, SpawnedOnce
<1> QED  BY <1>1, InvHolds, PTL

(* A receipt says delivered only of a message a provider was started for,  *)
(* and a queued message has not touched the machine.                       *)
THEOREM DeliveryIsReal == Spec => []DeliveredRan
<1>1. Inv => DeliveredRan
  BY DEF Inv, MachineInv, ClaimTellsLaunch, VouchedIsLive, Vouched,
     WaitingIsUntouched, Untouched, DeliveredRan
<1> QED  BY <1>1, InvHolds, PTL

(* A turn that has ended does not move.                                    *)
LEMMA TerminalStays ==
  ASSUME Inv, [Next]_vars, NEW m \in Messages, turn[m] \in Terminal
  PROVE  turn'[m] = turn[m]
<1>1. ASSUME NEW n \in Messages, Enqueued(n) PROVE turn'[m] = turn[m]
  BY <1>1 DEF Enqueued, Terminal, Inv, TypeOK
<1>2. ASSUME NEW n \in Messages, NEW state \in {"active"} \cup Terminal, Moved(n, state)
      PROVE  turn'[m] = turn[m]
  BY <1>2, ClaimedFacts DEF Moved, Owning, Terminal, Inv
<1> QED  BY <1>1, <1>2, TurnsMove DEF Inv

(* The outcome update_console_turn first records for a turn stays.         *)
THEOREM OutcomesAreFinal == Spec => OutcomeIsFinal
<1>1. Inv /\ [Next]_vars => [\A m \in Messages : turn[m] \in Terminal => turn'[m] = turn[m]]_vars
  BY TerminalStays
<1> QED  BY <1>1, InvHolds, PTL DEF Spec, OutcomeIsFinal

(* Turns that wait together are started in the order of their created_at   *)
(* stamps, by whichever handler or event ends their predecessors.          *)
THEOREM QueueIsFifo == Spec => StartsInOrder
<1> DEFINE Fifo == \A m, n \in Messages :
                     /\ m < n
                     /\ turn[m] = "queued" /\ turn[n] = "queued"
                     /\ turn'[n] # "queued"
                     => turn'[m] # "queued"
<1>1. Inv /\ [Next]_vars => [Fifo]_vars
  <2> SUFFICES ASSUME Inv, [Next]_vars, NEW m \in Messages, NEW n \in Messages,
                      m < n, turn[m] = "queued", turn[n] = "queued", turn'[n] # "queued"
               PROVE  FALSE
    OBVIOUS
  <2>1. ASSUME NEW k \in Messages, Enqueued(k) PROVE FALSE
    BY <2>1 DEF Enqueued, Inv, TypeOK
  <2>2. ASSUME NEW k \in Messages, NEW state \in {"active"} \cup Terminal, Moved(k, state)
        PROVE  FALSE
    <3>1. n \in Claimed(state)
      BY <2>2 DEF Moved, Owning, Inv, TypeOK
    <3>2. n <= m
      BY <3>1, ClaimedFacts DEF Inv
    <3> QED  BY <3>2, ConsoleAssumption
  <2> QED  BY <2>1, <2>2, TurnsMove DEF Inv
<1> QED  BY <1>1, InvHolds, PTL DEF Spec, StartsInOrder

---------------------------------------------------------------------------
(* The end of a turn.  It is reported for every process on record, not     *)
(* only for turns the catalog has heard to be active: the answer to a      *)
(* start may still be on its way, or lost.                                 *)

RecoveryIsOff == \E n \in Messages : claim[n] = "torn"

Reported(m) ==
  \/ watch[m] = "watching"
  \/ \E outcome \in Terminal : Ended(m, outcome) \in outbox
  \/ m \in unposted

LiveIsReported ==
  ~RecoveryIsOff =>
    \A m \in Messages : claim[m] \in Live /\ turn[m] \notin Terminal => Reported(m)

(* A monitor gives way to an event, and an event to the end of its turn.   *)
LEMMA ReportStep ==
  ASSUME Provider = "pi", Inv, LiveIsReported, [Next]_vars
  PROVE  LiveIsReported'
<1> SUFFICES ASSUME ~RecoveryIsOff', NEW n \in Messages, claim'[n] \in Live,
                    turn'[n] \notin Terminal
             PROVE  Reported(n)'
  BY DEF LiveIsReported
<1>o. ~RecoveryIsOff
  BY ClaimsAdvance DEF RecoveryIsOff, Inv
<1>t. turn[n] \notin Terminal
  BY TerminalStays
<1>r. claim[n] \in Live => Reported(n)
  BY <1>t, <1>o DEF LiveIsReported
<1>1. ASSUME claim[n] \in Live, watch'[n] = watch[n], outbox \subseteq outbox',
             n \in unposted => n \in unposted'
      PROVE  Reported(n)'
  BY <1>1, <1>r DEF Reported
<1>2. ASSUME NEW m \in Messages, MarkSpawned(m) PROVE Reported(n)'
  BY <1>1, <1>2 DEF MarkSpawned, Reported, Inv, TypeOK, Live
<1>3. ASSUME NEW m \in Messages, NEW outcome \in Outcomes(m), MonitorPosts(m, outcome)
      PROVE  Reported(n)'
  <2>1. outcome \in Terminal /\ Ended(m, outcome) \in outbox' /\ outbox \subseteq outbox'
    BY <1>3 DEF MonitorPosts, Outcomes, Terminal
  <2>2. n # m => watch'[n] = watch[n] /\ (n \in unposted => n \in unposted')
    BY <1>3 DEF MonitorPosts, Inv, TypeOK
  <2>3. claim[n] \in Live
    BY <1>3 DEF MonitorPosts
  <2> QED  BY <1>1, <2>1, <2>2, <2>3, Zenon DEF Reported
<1>4. ASSUME NEW m \in Messages, MonitorMarks(m) PROVE Reported(n)'
  BY <1>4, <1>r DEF MonitorMarks, Reported, Inv, TypeOK, MachineInv, ClaimTellsWatch, Live
<1>5. ASSUME NEW reboot, NEW torn \in SUBSET Messages, AgentRestart(reboot, torn)
      PROVE  Reported(n)'
  <2>1. claim[n] \in Live /\ UNCHANGED <<outbox, unposted>>
    BY <1>5 DEF AgentRestart, Live
  <2>2. CASE claim[n] = "spawned"
    BY <1>5, <2>2 DEF AgentRestart, Adopted, RecordedAdapter, Reported, RecoveryIsOff, Inv,
                      MachineInv, ClaimTellsWatch
  <2>3. CASE claim[n] = "terminal"
    BY <1>r, <2>1, <2>3 DEF Reported, Inv, MachineInv, ClaimTellsWatch
  <2> QED  BY <2>1, <2>2, <2>3 DEF Live
<1>6. ASSUME NEW event \in outbox, PostTerminal(event) PROVE Reported(n)'
  <2>1. event.run \in Messages /\ event.outcome \in Terminal
    BY DEF Inv, TypeOK
  <2>2. event.run # n
    BY <1>6, <1>t, <2>1 DEF PostTerminal, UpdateConsoleTurn, Inv, TypeOK
  <2>3. claim[n] \in Live /\ watch'[n] = watch[n] /\ unposted' = unposted
    BY <1>6 DEF PostTerminal, agent
  <2>4. \A outcome \in Terminal : Ended(n, outcome) \in outbox => Ended(n, outcome) \in outbox'
    BY <1>6, <2>2 DEF PostTerminal, Ended
  <2> QED  BY <1>r, <2>3, <2>4, Zenon DEF Reported
<1>7. ASSUME NEW m \in Messages, ReceiveStart(m) PROVE Reported(n)'
  <2>1. UNCHANGED <<watch, outbox, unposted>> /\ claim[n] \in Live
    BY <1>7 DEF ReceiveStart, Inv, TypeOK, Live
  <2> QED  BY <1>1, <2>1
<1>8. ASSUME NEW m \in Messages, LaunchFails(m) PROVE Reported(n)'
  <2>1. UNCHANGED <<watch, outbox, unposted>> /\ claim[n] \in Live
    BY <1>8 DEF LaunchFails, Inv, TypeOK, Live
  <2> QED  BY <1>1, <2>1
<1>9. ASSUME NEW m \in Messages,
             \/ Evict(m) \/ ReceiveInterrupt(m) \/ SpawnProvider(m) \/ ProviderExits(m)
      PROVE  UNCHANGED <<watch, outbox, unposted, claim>>
  BY <1>9 DEF Evict, ReceiveInterrupt, SpawnProvider, ProviderExits, agent, machine
<1>10. ASSUME Server \/ Connection, ~ \E event \in outbox : PostTerminal(event)
       PROVE  UNCHANGED <<watch, outbox, unposted, claim>>
  <2>1. UNCHANGED <<outbox, unposted>>
    BY <1>10 DEF Server, EnqueueConsoleTurn, RepeatEnqueue, CancelReceipt, ExpireReceipt,
       DispatchTurn, ReplayTurn, ReplyTimeout, SendInterrupt, CompleteCommand, ApplyAnswer,
       LoseAnswer, Unregister, ServerRestart, Connection, Connect, Disconnect, machine
  <2> QED  BY <1>10, <2>1, ServerLeavesMachine
<1>11. CASE UNCHANGED <<watch, outbox, unposted, claim>>
  BY <1>1, <1>11
<1>14. ASSUME NEW m \in Messages, RejectStart(m) PROVE Reported(n)'
  <2>1. UNCHANGED <<watch, outbox, unposted>> /\ claim[n] \in Live
    BY <1>14 DEF RejectStart, Inv, TypeOK, Live
  <2> QED  BY <1>1, <2>1
<1>15. ASSUME NEW m \in Messages, MonitorLosesEvent(m) PROVE Reported(n)'
  <2>1. /\ UNCHANGED <<outbox, claim>> /\ unposted' = unposted \cup {m}
        /\ n # m => watch'[n] = watch[n]
    BY <1>15 DEF MonitorLosesEvent, Inv, TypeOK
  <2> QED  BY <1>1, <2>1 DEF Reported
<1>12. CASE Agent
  BY <1>2, <1>3, <1>4, <1>5, <1>7, <1>8, <1>9, <1>11, <1>12, <1>14, <1>15 DEF Agent
<1>13. CASE UNCHANGED vars
  BY <1>11, <1>13 DEF vars
<1> QED  BY <1>6, <1>10, <1>11, <1>12, <1>13 DEF Next

(* For an adapter whose claim keeps its name (pi), no crash of the agent   *)
(* or the machine and no lost answer leaves an active turn whose end       *)
(* nobody will report, short of the two failures EndIsReported names: an   *)
(* event the outbox did not take, and a torn claim file.                   *)
THEOREM TurnEndIsReported ==
  ASSUME Provider = "pi"
  PROVE  Spec => []EndIsReported
<1>1. Init => LiveIsReported
  BY DEF Init, LiveIsReported, Live
<1>2. Inv /\ LiveIsReported /\ [Next]_vars => LiveIsReported'
  BY ReportStep
<1>3. Inv /\ LiveIsReported => EndIsReported
  BY DEF Inv, LiveIsReported, Reported, RecoveryIsOff, VouchedIsLive, Vouched, Terminal,
         EndIsReported
<1> QED  BY <1>1, <1>2, <1>3, InvHolds, PTL DEF Spec

=============================================================================

------------------------- MODULE TranscriptArchive -------------------------
(***************************************************************************)
(* What the durable lane promises of one transcript, without files, rows,  *)
(* retries or processes.  The archive is one log per epoch, written at its *)
(* end only, and only in the newest epoch.  A position is acknowledged to  *)
(* the sending side only once the log holds it, and for ever.              *)
(***************************************************************************)
EXTENDS Integers

CONSTANTS Epochs, None

VARIABLES
    log,        \* of each epoch begun, the content of each position it holds
    current,    \* the epoch being written
    acked       \* the positions of each epoch the sending side relies on

archiveVars == <<log, current, acked>>

IsInterval(S) == \A i, j \in S : i .. j \subseteq S

Init ==
    /\ log = [e \in {} |-> None]
    /\ current = None
    /\ acked = [e \in Epochs |-> {}]

\* A replacement of the transcript, or its first content, starts a new log.
Begin(e) ==
    /\ e \notin DOMAIN log
    /\ DOMAIN log' = DOMAIN log \cup {e}
    /\ \A f \in DOMAIN log : log'[f] = log[f]
    /\ DOMAIN log'[e] # {} /\ IsInterval(DOMAIN log'[e])
    /\ current' = e
    /\ UNCHANGED acked

\* New content follows what the current log holds, without a hole.
Extend ==
    /\ current # None
    /\ DOMAIN log' = DOMAIN log
    /\ \A f \in DOMAIN log \ {current} : log'[f] = log[f]
    /\ \A k \in DOMAIN log[current] :
          /\ k \in DOMAIN log'[current]
          /\ log'[current][k] = log[current][k]
    /\ \A k \in DOMAIN log[current] :
          \A n \in DOMAIN log'[current] \ DOMAIN log[current] : k < n
    /\ IsInterval(DOMAIN log'[current])
    /\ UNCHANGED <<current, acked>>

\* The sending side may forget what the log holds.
Acknowledge(e) ==
    /\ e \in DOMAIN log
    /\ acked[e] \subseteq acked'[e]
    /\ acked'[e] \subseteq DOMAIN log[e]
    /\ \A f \in Epochs \ {e} : acked'[f] = acked[f]
    /\ UNCHANGED <<log, current>>

Next == Extend \/ \E e \in Epochs : Begin(e) \/ Acknowledge(e)

Spec == Init /\ [][Next]_archiveVars
=============================================================================

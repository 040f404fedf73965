------------------------------ MODULE ManagerNode ------------------------------
(***************************************************************************)
(* A manager (PollerTimer), a network that loses polls, and a node's Lost   *)
(* Mode (NodeLifecycle) together: is a node that is being polled ever taken *)
(* for lost?                                                                *)
(*                                                                          *)
(* A poll that goes out waits in the node's socket until its receive timer  *)
(* ticks, or is lost.  The network loses, and the manager fails to send, at *)
(* most MaxLost polls of the repeat timer in a row.  The node was taken     *)
(* live and keeps its keys and its socket; other managers may poll it too.  *)
(*                                                                          *)
(* lost_in_row restrains the network; steady is a history variable.         *)
(***************************************************************************)
EXTENDS PollerTimer

CONSTANTS NODE_LOST_THRESHOLD_MS, POLL_TIME_MS, TimerLag, TickMod,
          MaxLost   \* polls lost in a row

\* The longest a node waits for a poll while the manager repeats.
LongestWait == (MaxLost + 1) * (MaxInterval + PollerLag) + TimerLag

ASSUME PollsOftenEnough ==
    MaxLost \in Nat /\ LongestWait <= NODE_LOST_THRESHOLD_MS
ASSUME NodeTimes ==
    /\ NODE_LOST_THRESHOLD_MS \in Nat /\ TimerLag \in Nat /\ TickMod \in Nat
    /\ NODE_LOST_THRESHOLD_MS < TickMod

VARIABLES
    now, keys_valid, socket_initialized, node_is_live, node_in_lost_mode,
    last_valid_poll_tick, last_lost_tx_tick, silence, unheard, unannounced,
    since_announce, lag,
    pending,      \* a poll waits in the node's socket
    lost_in_row,
    steady        \* how long the manager has been repeating

Node == INSTANCE NodeLifecycle

nodeVars == <<now, keys_valid, socket_initialized, node_is_live,
              node_in_lost_mode, last_valid_poll_tick, last_lost_tx_tick,
              silence, unheard, unannounced, since_announce, lag>>
vars == <<pollerVars, nodeVars, pending, lost_in_row, steady>>

\* The node has keys, and the operator has just taken it live.
NodeLive ==
    /\ now = TickMod - 1
    /\ keys_valid = TRUE
    /\ socket_initialized = TRUE
    /\ node_is_live = TRUE
    /\ node_in_lost_mode = FALSE
    /\ last_valid_poll_tick = now
    /\ last_lost_tx_tick = 0
    /\ silence = 0 /\ unheard = 0 /\ unannounced = 0
    /\ since_announce = TickMod
    /\ lag = 0

Init ==
    /\ PollerInit
    /\ NodeLive
    /\ pending = FALSE
    /\ lost_in_row = 0
    /\ steady = 0

-------------------------------------------------------------------------------
\* The poll reaches the node's socket.
PollArrives ==
    /\ Polls(TRUE)
    /\ pending' = TRUE
    /\ lost_in_row' = 0
    /\ UNCHANGED <<nodeVars, steady>>

\* One of the repeat timer is lost, or was not sent.
PollLost(sent) ==
    /\ TimerPollRepeatTimer(sent)
    /\ lost_in_row < MaxLost
    /\ lost_in_row' = lost_in_row + 1
    /\ UNCHANGED <<nodeVars, pending, steady>>

\* The manager's operator; steady starts again when repeating does.
ManagerOperator ==
    /\ PollerOperator
    /\ steady' = IF Repeating /\ Repeating' THEN steady ELSE 0
    /\ UNCHANGED <<nodeVars, pending, lost_in_row>>

\* The node empties its socket, which another manager may have filled.
NodeTick(other) ==
    /\ Node!ReceiveTimerTick(pending \/ other)
    /\ pending' = FALSE
    /\ UNCHANGED <<pollerVars, lost_in_row, steady>>

TimePasses ==
    /\ PollerTimePasses
    /\ Node!TimePasses
    /\ steady' = IF Repeating /\ steady <= LongestWait THEN steady + 1 ELSE steady
    /\ UNCHANGED <<pending, lost_in_row>>

Next ==
    \/ PollArrives
    \/ \E sent \in BOOLEAN : PollLost(sent)
    \/ ManagerOperator
    \/ \E other \in BOOLEAN : NodeTick(other)
    \/ TimePasses

Spec == Init /\ [][Next]_vars

-------------------------------------------------------------------------------
(***************************************************************************)
(* Properties                                                               *)
(***************************************************************************)

\* A node that a manager has been polling on its timer for LongestWait is not
\* in Lost Mode, or has left it: jitter, late timers on both sides, MaxLost
\* lost polls in a row, settings changed and keys selected again on the way,
\* and the wrap of the tick counter do not add up to node_lost_timeout
\* (RearmPollTimer, ReceiveTimerTick).
PolledNodeIsNotLost == steady > LongestWait => ~node_in_lost_mode

===============================================================================

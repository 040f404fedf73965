----------------------------- MODULE NodeLifecycle -----------------------------
(***************************************************************************)
(* Lost Mode of the node program (sig-net-node-main-form.cpp): a node that  *)
(* was taken live and has keys watches for manager polls.  When none was    *)
(* authenticated for NODE_LOST_THRESHOLD_MS it enters Lost Mode and         *)
(* announces itself every POLL_TIME_MS until a poll arrives.                *)
(*                                                                          *)
(* The check runs at the end of the receive timer's tick, after the socket  *)
(* was polled, and not at all while there is no socket.  Time is the uint32 *)
(* millisecond tick, which wraps at TickMod.  TimerLag bounds the time      *)
(* between two ticks of the timer: 20 ms and what the message loop adds.    *)
(*                                                                          *)
(* silence, unheard, unannounced and lag are history variables: times since *)
(* an event, which stop counting at TickMod.  Only the clock reads lag.     *)
(***************************************************************************)
EXTENDS Integers

CONSTANTS
    NODE_LOST_THRESHOLD_MS,   \* 9000
    POLL_TIME_MS,             \* 3000
    TimerLag,
    TickMod                   \* 2^32

ASSUME LifecycleTimes ==
    /\ NODE_LOST_THRESHOLD_MS \in Nat /\ POLL_TIME_MS \in Nat
    /\ TimerLag \in Nat \ {0} /\ TickMod \in Nat
    /\ 0 < POLL_TIME_MS /\ POLL_TIME_MS <= NODE_LOST_THRESHOLD_MS
    /\ NODE_LOST_THRESHOLD_MS + 2 * TimerLag < TickMod

VARIABLES
    now,                    \* GetTickCount()
    keys_valid,
    socket_initialized,
    node_is_live,
    node_in_lost_mode,
    last_valid_poll_tick,
    last_lost_tx_tick,
    silence,        \* since a poll was authenticated or the node went live
    unheard,        \* the same, or since keys or socket came back
    unannounced,    \* since a node_lost announce, or keys or socket came back
    since_announce, \* since a node_lost announce
    lag             \* since the last tick of the timer

lifecycle == <<node_is_live, node_in_lost_mode, last_valid_poll_tick,
               last_lost_tx_tick>>
history == <<silence, unheard, unannounced, since_announce>>
vars == <<now, keys_valid, socket_initialized, node_is_live, node_in_lost_mode,
          last_valid_poll_tick, last_lost_tx_tick, silence, unheard,
          unannounced, since_announce, lag>>

Tick == 0 .. TickMod - 1

\* The unsigned 32-bit difference later - earlier.
Elapsed(later, earlier) ==
    IF earlier <= later THEN later - earlier ELSE later + TickMod - earlier

Init ==
    /\ now \in Tick
    /\ keys_valid = FALSE
    /\ socket_initialized \in BOOLEAN
    /\ node_is_live = FALSE
    /\ node_in_lost_mode = FALSE
    /\ last_valid_poll_tick = 0
    /\ last_lost_tx_tick = 0
    /\ silence = TickMod
    /\ unheard = 0
    /\ unannounced = 0
    /\ since_announce = TickMod
    /\ lag = 0

-------------------------------------------------------------------------------
\* Mutant of EntersLostMode: the threshold is compared for equality.
EntersLostModeOnce(heard, lost) ==
    ~lost /\ Elapsed(now, heard) = NODE_LOST_THRESHOLD_MS + 1

\* Mutant of EntersLostMode: entered again on every tick.
EntersLostModeAlways(heard, lost) ==
    Elapsed(now, heard) > NODE_LOST_THRESHOLD_MS

\* In the tick, with the last poll at heard and the node lost or not: no poll
\* for more than node_lost_timeout.
EntersLostMode(heard, lost) ==
    ~lost /\ Elapsed(now, heard) > NODE_LOST_THRESHOLD_MS

\* Mutant of AnnounceDue: the deadline is computed without wrapping.
AnnounceDueUnwrapped == now >= last_lost_tx_tick + POLL_TIME_MS

\* POLL_TIME_MS since the last node_lost announce.
AnnounceDue == Elapsed(now, last_lost_tx_tick) >= POLL_TIME_MS

\* A tick that reaches the lifecycle check; polled says whether it took an
\* authenticated TID_POLL from the socket.  Entering Lost Mode backdates
\* last_lost_tx_tick, so that the announce is due at once.  An announce that
\* cannot be sent counts as one: the tick does not look at the result.
ReceiveTimerTick(polled) ==
    /\ polled => keys_valid
    /\ LET armed == node_is_live /\ keys_valid
           heard == IF polled THEN now ELSE last_valid_poll_tick
           still == node_in_lost_mode /\ ~polled
           enters == armed /\ EntersLostMode(heard, still)
           lost == still \/ enters
           announces == armed /\ lost /\ (enters \/ AnnounceDue)
           restored == ~socket_initialized
       IN  /\ last_valid_poll_tick' = heard
           /\ node_in_lost_mode' = lost
           /\ last_lost_tx_tick' = IF announces THEN now ELSE last_lost_tx_tick
           /\ silence' = IF polled THEN 0 ELSE silence
           /\ unheard' = IF polled \/ restored THEN 0 ELSE unheard
           /\ unannounced' = IF announces \/ restored THEN 0 ELSE unannounced
           /\ since_announce' = IF announces THEN 0 ELSE since_announce
    /\ socket_initialized' = TRUE
    /\ lag' = 0
    /\ UNCHANGED <<now, keys_valid, node_is_live>>

\* A tick that finds no socket and cannot open one returns at once.
ReceiveTimerTickNoSocket ==
    /\ ~socket_initialized
    /\ lag' = 0
    /\ UNCHANGED <<now, keys_valid, socket_initialized, lifecycle, history>>

\* Mutant of ButtonGoLiveClick: a node that was lost goes live lost.
ButtonGoLiveClickStillLost ==
    /\ keys_valid
    /\ socket_initialized' = TRUE
    /\ node_is_live' = TRUE
    /\ last_valid_poll_tick' = now
    /\ silence' = 0
    /\ unheard' = 0
    /\ unannounced' = 0
    /\ UNCHANGED <<now, keys_valid, node_in_lost_mode, last_lost_tx_tick,
                   since_announce, lag>>

\* The socket is or can be opened and the On-Boot Announce goes out.
ButtonGoLiveClick ==
    /\ keys_valid
    /\ socket_initialized' = TRUE
    /\ node_is_live' = TRUE
    /\ node_in_lost_mode' = FALSE
    /\ last_valid_poll_tick' = now
    /\ silence' = 0
    /\ unheard' = 0
    /\ unannounced' = 0
    /\ UNCHANGED <<now, keys_valid, last_lost_tx_tick, since_announce, lag>>

\* Outside the tick, whatever is sent opens the socket first: the label's
\* report to the manager, or a click on Go Live whose announce then fails.
SendOpensSocket ==
    /\ keys_valid
    /\ ~socket_initialized
    /\ socket_initialized' = TRUE
    /\ unheard' = 0
    /\ unannounced' = 0
    /\ UNCHANGED <<now, keys_valid, lifecycle, silence, since_announce, lag>>

\* The dialog was confirmed; valid says whether every key could be derived.
ButtonSelectK0Click(valid) ==
    /\ keys_valid' = valid
    /\ unheard' = IF keys_valid THEN unheard ELSE 0
    /\ unannounced' = IF keys_valid THEN unannounced ELSE 0
    /\ UNCHANGED <<now, socket_initialized, lifecycle, silence, since_announce,
                   lag>>

\* The keys are wiped; the node stays live, and lost if it was.
ButtonDeprovisionClick ==
    /\ keys_valid' = FALSE
    /\ UNCHANGED <<now, socket_initialized, lifecycle, history, lag>>

\* Another interface: the socket is closed and may not open again.
ButtonSelectNicClick(ok) ==
    /\ socket_initialized' = ok
    /\ unheard' = IF socket_initialized THEN unheard ELSE 0
    /\ unannounced' = IF socket_initialized THEN unannounced ELSE 0
    /\ UNCHANGED <<now, keys_valid, lifecycle, silence, since_announce, lag>>

Longer(time) == IF time < TickMod THEN time + 1 ELSE time

\* Mutant of NextTick: the counter does not wrap.
NextTickUnwrapped == now + 1

NextTick == IF now = TickMod - 1 THEN 0 ELSE now + 1

TimePasses ==
    /\ lag < TimerLag
    /\ now' = NextTick
    /\ lag' = lag + 1
    /\ silence' = Longer(silence)
    /\ unheard' = Longer(unheard)
    /\ unannounced' = Longer(unannounced)
    /\ since_announce' = Longer(since_announce)
    /\ UNCHANGED <<keys_valid, socket_initialized, lifecycle>>

Next ==
    \/ \E polled \in BOOLEAN : ReceiveTimerTick(polled)
    \/ ReceiveTimerTickNoSocket
    \/ ButtonGoLiveClick
    \/ SendOpensSocket
    \/ \E valid \in BOOLEAN : ButtonSelectK0Click(valid)
    \/ ButtonDeprovisionClick
    \/ \E ok \in BOOLEAN : ButtonSelectNicClick(ok)
    \/ TimePasses

Spec == Init /\ [][Next]_vars

-------------------------------------------------------------------------------
\* The types, and the clock never more than TimerLag past a tick of the timer.
LifecycleTypeOK ==
    /\ now \in Tick /\ last_valid_poll_tick \in Tick /\ last_lost_tx_tick \in Tick
    /\ keys_valid \in BOOLEAN /\ socket_initialized \in BOOLEAN
    /\ node_is_live \in BOOLEAN /\ node_in_lost_mode \in BOOLEAN
    /\ silence \in 0 .. TickMod /\ unheard \in 0 .. TickMod
    /\ unannounced \in 0 .. TickMod /\ since_announce \in 0 .. TickMod
    /\ lag \in 0 .. TimerLag

\* A node in Lost Mode really has had no poll for longer than
\* node_lost_timeout, whatever was deprovisioned, rekeyed, rebound or taken
\* live again meanwhile, and however often the tick counter wrapped.
LostMeansSilent == node_in_lost_mode => silence > NODE_LOST_THRESHOLD_MS

\* A live node with keys and a socket that has heard no poll for
\* node_lost_timeout and two rounds of the timer is in Lost Mode.  A wrapped
\* tick difference can hide the silence once, when keys or socket come back;
\* it cannot hide it for longer than the timeout.
SilenceIsNoticed ==
    (/\ node_is_live /\ keys_valid /\ socket_initialized
     /\ unheard > NODE_LOST_THRESHOLD_MS + 2 * TimerLag) => node_in_lost_mode

\* While it is lost, a node with keys and a socket announces itself at least
\* every POLL_TIME_MS and two rounds of the timer, also after an outage.
AnnouncesKeepComing ==
    (/\ node_is_live /\ keys_valid /\ socket_initialized
     /\ node_in_lost_mode) => unannounced <= POLL_TIME_MS + 2 * TimerLag

\* Two node_lost announces are never less than POLL_TIME_MS apart: entering
\* Lost Mode again, which backdates last_lost_tx_tick, does not break the pace.
AnnouncesSpaced ==
    [][(since_announce > 0 /\ since_announce' = 0)
          => since_announce >= POLL_TIME_MS]_vars

===============================================================================

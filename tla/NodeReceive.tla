------------------------------ MODULE NodeReceive ------------------------------
(***************************************************************************)
(* What the node does with a datagram before it looks at the payload        *)
(* (ProcessIncomingPacket, sig-net-node-main-form.cpp): the checks, in the  *)
(* order they are made, and the security events a failed one may raise.     *)
(*                                                                          *)
(* A datagram may be malformed, meant for another node, or come in while    *)
(* the node has no keys; then it is counted and dropped.  One that fails    *)
(* its HMAC, and one that is authentic but not fresh, raises an event: the  *)
(* node multicasts it, at most once in SECURITY_EVENT_MIN_INTERVAL_MS for   *)
(* each kind.  Time is the uint32 tick, which wraps at TickMod.             *)
(*                                                                          *)
(* Freshness is the pair seen last per Sender-ID, the table's limits left   *)
(* out (they are in FreshnessTracker).  The counters of an event and the    *)
(* address it quotes are payload and are left out.                          *)
(*                                                                          *)
(* newest_authentic, since and event_sent are history variables.            *)
(***************************************************************************)
EXTENDS Integers

CONSTANTS
    SenderId,
    MaxPair,                          \* (session, sequence) pairs, in order
    SECURITY_EVENT_MIN_INTERVAL_MS,   \* 1000
    TickMod                           \* 2^32

ASSUME PairAssumption == MaxPair \in Nat
ASSUME EventTimes ==
    /\ TickMod \in Nat /\ SECURITY_EVENT_MIN_INTERVAL_MS \in Nat
    /\ 0 < SECURITY_EVENT_MIN_INTERVAL_MS
    /\ SECURITY_EVENT_MIN_INTERVAL_MS < TickMod

VARIABLES
    now,
    keys_valid,
    network_up,                   \* whether what is sent goes out
    floor,                        \* Sender-ID -> pair accepted last
    security_event_last_tx_tick,  \* kind -> tick of its last multicast, or 0
    newest_authentic,  \* Sender-ID -> newest pair that was authentic
    since,             \* kind -> time since its last multicast
    event_sent         \* kinds multicast in the last step

environment == <<now, keys_valid, network_up>>
vars == <<now, keys_valid, network_up, floor, security_event_last_tx_tick,
          newest_authentic, since, event_sent>>

SECURITY_EVENT_HMAC_FAIL == 1
SECURITY_EVENT_REPLAY == 2
Code == {SECURITY_EVENT_HMAC_FAIL, SECURITY_EVENT_REPLAY}

SECURITY_MODE_HMAC_SHA256 == 0
SECURITY_MODE_OPEN == 1
SECURITY_MODE_UNPROVISIONED == 255

\* What the checks tell apart: whether it is well formed, on a known lane and
\* addressed to this node; the mode; the HMAC; the Sender-ID and its pair.
Datagram ==
    [for_us : BOOLEAN,
     security_mode : {SECURITY_MODE_HMAC_SHA256, SECURITY_MODE_OPEN,
                      SECURITY_MODE_UNPROVISIONED},
     authentic : BOOLEAN, sender_id : SenderId, pair : 1 .. MaxPair]

Tick == 0 .. TickMod - 1

\* The unsigned 32-bit difference now - earlier.
Elapsed(earlier) == IF earlier <= now THEN now - earlier ELSE now + TickMod - earlier

Init ==
    /\ now \in Tick
    /\ keys_valid = FALSE
    /\ network_up \in BOOLEAN
    /\ floor = [s \in SenderId |-> 0]
    /\ security_event_last_tx_tick = [c \in Code |-> 0]
    /\ newest_authentic = [s \in SenderId |-> 0]
    /\ since = [c \in Code |-> TickMod]
    /\ event_sent = {}

-------------------------------------------------------------------------------
(***************************************************************************)
(* Security events                                                          *)
(***************************************************************************)

\* Mutant of RateLimited: the deadline is computed without wrapping.
RateLimitedUnwrapped(c) ==
    /\ security_event_last_tx_tick[c] # 0
    /\ now < security_event_last_tx_tick[c] + SECURITY_EVENT_MIN_INTERVAL_MS

\* Mutant of RateLimited: a tick that has wrapped counts as an interval.
RateLimitedForward(c) ==
    /\ security_event_last_tx_tick[c] # 0
    /\ security_event_last_tx_tick[c] <= now
    /\ now - security_event_last_tx_tick[c] < SECURITY_EVENT_MIN_INTERVAL_MS

\* Tick 0 stands for an event that was never sent.
RateLimited(c) ==
    /\ security_event_last_tx_tick[c] # 0
    /\ Elapsed(security_event_last_tx_tick[c]) < SECURITY_EVENT_MIN_INTERVAL_MS

\* Mutant of SendSecurityEvent: what is remembered is when the next may go.
SendSecurityEventDeadline(c) ==
    LET sends == ~RateLimited(c) /\ network_up
    IN  /\ event_sent' = IF sends THEN {c} ELSE {}
        /\ security_event_last_tx_tick' =
             [security_event_last_tx_tick EXCEPT
                ![c] = IF sends THEN now + SECURITY_EVENT_MIN_INTERVAL_MS ELSE @]
        /\ since' = [since EXCEPT ![c] = IF sends THEN 0 ELSE @]

\* Mutant of SendSecurityEvent: the tick is noted before the send, which may fail.
SendSecurityEventAttempt(c) ==
    LET sends == ~RateLimited(c) /\ network_up
    IN  /\ event_sent' = IF sends THEN {c} ELSE {}
        /\ security_event_last_tx_tick' =
             [security_event_last_tx_tick EXCEPT ![c] = IF RateLimited(c) THEN @ ELSE now]
        /\ since' = [since EXCEPT ![c] = IF sends THEN 0 ELSE @]

\* One that cannot be sent, or may not, is not sent later; the tick stays.
SendSecurityEvent(c) ==
    LET sends == ~RateLimited(c) /\ network_up
    IN  /\ event_sent' = IF sends THEN {c} ELSE {}
        /\ security_event_last_tx_tick' =
             [security_event_last_tx_tick EXCEPT ![c] = IF sends THEN now ELSE @]
        /\ since' = [since EXCEPT ![c] = IF sends THEN 0 ELSE @]

NoEvent ==
    /\ event_sent' = {}
    /\ UNCHANGED <<security_event_last_tx_tick, since>>

-------------------------------------------------------------------------------
(***************************************************************************)
(* ProcessIncomingPacket                                                    *)
(***************************************************************************)

\* Dropped without an event: not for this node, no keys, the mode of a node
\* that is not provisioned, or a mode that would go around the HMAC.
DropUnread(d) ==
    /\ \/ ~d.for_us
       \/ ~keys_valid
       \/ d.security_mode # SECURITY_MODE_HMAC_SHA256
    /\ NoEvent
    /\ UNCHANGED <<environment, floor, newest_authentic>>

Verified(d) ==
    d.for_us /\ keys_valid /\ d.security_mode = SECURITY_MODE_HMAC_SHA256

Newest(d) ==
    newest_authentic' =
        [newest_authentic EXCEPT ![d.sender_id] = IF d.pair > @ THEN d.pair ELSE @]

\* Mutant of RejectHmac: freshness is committed before the HMAC is verified.
RejectHmacAfterFreshness(d) ==
    /\ Verified(d)
    /\ ~d.authentic
    /\ floor' = [floor EXCEPT ![d.sender_id] = IF d.pair > @ THEN d.pair ELSE @]
    /\ SendSecurityEvent(SECURITY_EVENT_HMAC_FAIL)
    /\ UNCHANGED <<environment, newest_authentic>>

RejectHmac(d) ==
    /\ Verified(d)
    /\ ~d.authentic
    /\ SendSecurityEvent(SECURITY_EVENT_HMAC_FAIL)
    /\ UNCHANGED <<environment, floor, newest_authentic>>

RejectReplay(d) ==
    /\ Verified(d)
    /\ d.authentic
    /\ d.pair <= floor[d.sender_id]
    /\ SendSecurityEvent(SECURITY_EVENT_REPLAY)
    /\ Newest(d)
    /\ UNCHANGED <<environment, floor>>

Accept(d) ==
    /\ Verified(d)
    /\ d.authentic
    /\ d.pair > floor[d.sender_id]
    /\ floor' = [floor EXCEPT ![d.sender_id] = d.pair]
    /\ NoEvent
    /\ Newest(d)
    /\ UNCHANGED environment

ProcessIncomingPacket(d) ==
    DropUnread(d) \/ RejectHmac(d) \/ RejectReplay(d) \/ Accept(d)

\* Keys are selected or wiped; what was heard and sent is kept.
KeysChange ==
    /\ keys_valid' = ~keys_valid
    /\ NoEvent
    /\ UNCHANGED <<now, network_up, floor, newest_authentic>>

NetworkChanges ==
    /\ network_up' = ~network_up
    /\ NoEvent
    /\ UNCHANGED <<now, keys_valid, floor, newest_authentic>>

\* Mutant of TimePasses: the tick does not wrap.
TimePassesUnwrapped ==
    /\ now' = now + 1
    /\ event_sent' = {}
    /\ UNCHANGED <<keys_valid, network_up, floor, security_event_last_tx_tick,
                   newest_authentic, since>>

TimePasses ==
    /\ now' = IF now = TickMod - 1 THEN 0 ELSE now + 1
    /\ since' = [c \in Code |-> IF since[c] < TickMod THEN since[c] + 1 ELSE TickMod]
    /\ event_sent' = {}
    /\ UNCHANGED <<keys_valid, network_up, floor, security_event_last_tx_tick,
                   newest_authentic>>

Next ==
    \/ \E d \in Datagram : ProcessIncomingPacket(d)
    \/ KeysChange
    \/ NetworkChanges
    \/ TimePasses

Spec == Init /\ [][Next]_vars

-------------------------------------------------------------------------------
(***************************************************************************)
(* Properties                                                               *)
(***************************************************************************)

\* Types.
ReceiveTypeOK ==
    /\ now \in Tick /\ keys_valid \in BOOLEAN /\ network_up \in BOOLEAN
    /\ floor \in [SenderId -> 0 .. MaxPair]
    /\ newest_authentic \in [SenderId -> 0 .. MaxPair]
    /\ security_event_last_tx_tick \in [Code -> Tick]
    /\ since \in [Code -> 0 .. TickMod]
    /\ event_sent \subseteq Code

\* The wrapped difference the rate limit reads is how long ago the last event of
\* the kind went out: a failed send, another kind's event or a wrap of the tick
\* never moves one without the other (SendSecurityEvent).  After a whole period
\* the difference no longer tells, and tick 0 is no tick.
TickIsAge ==
    \A c \in Code :
        security_event_last_tx_tick[c] # 0 /\ since[c] < TickMod
            => Elapsed(security_event_last_tx_tick[c]) = since[c]

\* What is accepted later depends on authentic datagrams only: a run of
\* damaged ones, with whatever pairs, never raises the floor above what the
\* sender really sent, so its next datagram is accepted (the order of
\* VerifyPacketHMAC and ValidateAndCommitFreshness).
FloorIsAuthentic == floor = newest_authentic

\* sig-net-node-main-form.cpp:1127 "Rate-limited to one packet per second per
\* code": two multicasts of a kind are an interval apart, across any number of
\* wraps of the tick and failed sends, but for one: a multicast at tick 0 is
\* not remembered and holds nothing back.
EventsSpaced ==
    [][\A c \in event_sent' :
          \/ since[c] >= SECURITY_EVENT_MIN_INTERVAL_MS
          \/ security_event_last_tx_tick[c] = 0]_vars

Detects(c) ==
    \E d \in Datagram : (IF c = SECURITY_EVENT_HMAC_FAIL THEN RejectHmac(d)
                                                         ELSE RejectReplay(d))

\* A failed check is multicast when the network is up, unless the same kind
\* was multicast within the interval, or longer ago than a period of the tick,
\* where the wrapped difference may hide it once.  Other kinds, failed sends
\* and lost keys never hold an event back (SendSecurityEvent).
EventsNotSwallowed ==
    [][\A c \in Code :
          Detects(c) /\ network_up /\ c \notin event_sent'
            => \/ since[c] < SECURITY_EVENT_MIN_INTERVAL_MS
               \/ since[c] = TickMod]_vars

===============================================================================

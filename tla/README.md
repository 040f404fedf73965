# Sig-Net SDK: TLA+ models, checks and proofs

This directory holds TLA+ models of the Sig-Net SDK and of the programs built on
it, the TLC configurations that check them on small instances, and theorems
that TLAPS proves for every value of the constants. Paths below are relative to
the repository.

    tlc -config MCNodeControl.cfg MCNodeControl      # one run
    tlapm FreshnessTrackerProofs.tla                 # one proof module

`PROJECT.json` lists the components, runs, mutants, source lines, findings,
hazards and theorems in a form a script can read.

## 1. The system

Sig-Net carries lighting control data in authenticated CoAP datagrams over UDP
multicast. The SDK is a library of headers and C++ files; three VCL programs use
it: a level transmitter, a poller (the manager) and a node. A fourth, the imgui
example, repeats pieces of all three. Every program is single-threaded: timers,
clicks and received packets are handled one after another on the message loop.

| Component | State | Operations | Interacts with |
|---|---|---|---|
| Freshness tracker (`sig-net-node-udp-listen.hpp`) | two tables of 32 slots: sessions by TUID, (session, sequence) by Sender-ID, both with a last-seen tick | `ValidateAndCommitFreshness`, `ResetFreshnessTracker`, the scans | called by the node for every datagram that passes its HMAC, by the example for every datagram |
| Sender sequence (`sig-net-send.hpp`, `SendPacket` of each program) | `session_id`, `sequence_num`, TUID | send, rollover, start | stamps datagrams the tracker judges |
| Node control plane (`sig-net-node-main-form.cpp`, `sig-net-node-data.cpp`, `sig-net-node-profile.hpp`) | parameter blobs with two stale flags, `change_count`, the last poll's level and endpoints, form controls, keys | receive a packet (polls, GET, SET), timer flushes, edits, keys in and out | manager over the network, operator over the form |
| Node lifecycle (same file) | live, lost, two ticks, keys, socket | Go Live, timer check, polls, keys and NIC changes | polls end Lost Mode, announces start discovery |
| Multicast groups (`sig-net-node-udp-socket.hpp`, `sig-net-send.cpp`) | joined flags, universe group address; in the system, the socket's memberships | refresh on every tick, close and reopen, fold a universe on a group | universe on the form or SET, interface chosen |
| Receive path and security events (node) | floor per Sender-ID; last-sent tick per code | check, verify, judge freshness; multicast at most once a second | before the control plane |
| Codecs and builders (`sig-net-coap`, `-parse`, `-tlv`, `-send`, `-security`, `PacketBuffer`) | two 1400-byte buffers and a position | encode, decode, cut back a reply that does not fit | every send and receive |
| Crypto and security | none | HMAC, HKDF, PBKDF2, key choice by URI | every send and receive |
| Poller (`sig-net-poller-main-form.cpp`) | keys, repeat timer, jitter | clicks, timer | sender sequence; its polls keep nodes out of Lost Mode |
| Level transmitter (`sig-net-tid-level-tx-main-form.cpp`) | keys, keep-alive, dynamic pattern, bad frame counter, pair | clicks and three timers | sender sequence, codecs |
| Dialogs, self test, build files | local | I/O, tests | none of the above at run time |

What is hard here: datagrams are lost, repeated and reordered; tables are full
and recycled on a wrapping tick; a call fails half way and leaves what its first
half wrote; sequence numbers roll over; programs restart without stored state;
a manager and an operator change the same value; several SETs of a packet
succeed one by one while the packet as a whole is refused; sends fail; Lost Mode
is timed by a clock that is not looked at while keys or socket are gone; joins
and leaves of groups fail and only the system knows what they left; one-shot and
periodic timers race with keys that come and go.

What makes each component correct: the tracker never takes the same or an older
datagram of a sender it heard lately and never refuses a newer one; a sender's
pairs grow; together, endpoints are delivered in order and once. The control
plane loses no change in either direction, and CHANGE_COUNT moves when persistent
values do (section 3 shows where the code falls short of both). The lifecycle takes only real silence for loss, notices it in
time and announces at its pace; a manager's polls keep it out of Lost Mode for as
long as they are sent. What the node takes for a joined group is one, and it
comes to listen to every group it wants. Only authentic datagrams decide what is
accepted later; a rate limit limits and swallows nothing else. A reader finds
what the builder built, and a reply carries as much as a datagram has room for.
The timers of poller and transmitter run exactly while they should, whatever
fails.

## 2. Modules

| Module | Models | State in the code |
|---|---|---|
| `FreshnessTracker` | the tracker; `now_ms` is the caller's uint32 tick | `session_tracks`, `sequence_tracks` are the arrays; `heard_*` are history |
| `ReplayGuard` | what the tracker promises, without tables | none: abstract |
| `SenderIdentity` | a Sender-ID as TUID and endpoint, shared by the next and the tracker | none: constants |
| `SenderSequence` | what pairs a program stamps, and its starts | `session_id`, `sequence_num`, `tuid_hex`; `wire`, `position`, `tuids_drawn` are history |
| `SignetDelivery` | senders, a network and one receiver's tracker: extends both modules | as above; `accepted` is history |
| `NodeReceive` | `ProcessIncomingPacket` up to the payload, and its security events | floor, `security_event_last_tx_tick`; the rest is history |
| `NodeControl` | the control plane | blobs are `value`, `manager_is_stale`, `ui_is_stale`; `rx` is the locals of `ProcessIncomingPacket`; `known`, `uncounted`, `typed` are history |
| `NodeLifecycle` | Lost Mode | the members of the same names; the times are history |
| `NodeGroups` | the multicast groups of the node's socket | `groups` is `UdpGroupState`; `membership` is the system's side |
| `PollerTimer` | the poller's keys and repeat timer | the form's check boxes, spins and `TimerPollRepeat` |
| `ManagerNode` | `PollerTimer`, a network that loses polls, and `NodeLifecycle`, composed | as in its parts |
| `LevelTransmitter` | the level transmitter; implements `SenderSequence` | the form's members and timers; `SenderSequence`'s history and three more ages |
| `PacketCodec` | a datagram built and taken apart, byte by byte | the two `PacketBuffer`s, the readers' positions |
| `SignetPackets` | every builder of the SDK and the node as a message of `PacketCodec` | none: operators |
| `*Proofs` | the theorems about the module they are named for; `SignetDeliveryProofs` those of `SenderSequence` too, `ManagerNodeProofs` those of `PollerTimer`, `NodeReceptionProofs` those of `NodeReceive` and `NodeGroups` | |
| `MC*` | constants for TLC | |

No action reads a history variable, with three exceptions that restrain the
model and not the program: `lag` of `NodeLifecycle` the clock, `lost_in_row` of
`ManagerNode` the network, and `position` of `SenderSequence` and
`LevelTransmitter` the number of datagrams.

**FreshnessTracker.** `ValidateAndCommitFreshness(p)` is three actions: the
session half refuses and writes nothing; the sequence half refuses and the
session slot opened on the way stays; both accept and both slots are written.
`AcquireTrackSlot` is the scan of both tables: first unused slot, else the oldest
if it has been idle for `ReclaimAge`. `Age` wraps at `TickMod`. Any datagram may
come at any time, which covers loss, repetition and reordering.

**SenderSequence.** One counter pair per program for all its endpoints. A send
that fails is a stutter: the code moves the counters after a send that went out
(one that is refused on the chosen interface is tried on others, and counts as
sent, once, when one of them took it). The
number is incremented and then tested, so 0 and 2^32 - 1 are never on the wire.
A start resets the pair and draws a new TUID, except for programs in
`PinnedTuid`: generation failed, the operator typed it, or it is built in.

**SignetDelivery.** Any datagram ever transmitted may be delivered at any moment
and any number of times. A datagram that fails authentication in the node never
reaches the tracker, so it counts as lost.

**NodeReceive.** One action per way out of the checks, in the code's order: not
for this node or unreadable without keys; HMAC refused; pair refused; accepted.
`SendSecurityEvent` is part of the two refusals. Freshness is one floor per
Sender-ID, since the tables' limits are `FreshnessTracker`'s subject; an event's
counters and addresses are payload. The tick wraps, and tick 0 means "never".

**NodeControl.** A timer tick is `StartTick`, packets, `FinishTick`; a packet is
`ReceivePacket`, one action per TLV, `EndOfPacket`, because a packet's TLVs act
one after another on shared state; nothing else runs in between, since clicks
and keys need `phase = "idle"`. `EndOfPacket` is the poll's reply, CHANGE_COUNT
and the SET reply in the code's order, each send with its own outcome;
`FinishTick` is `SyncUIFromStaleBlobs` and `SendStaleTIDsToManager`. Three
parameters stand for the table: persistent root with an edit box, root not
persistent, persistent on the data endpoint with a spin control. `Packet` is the
set of packets that may come. `Init` takes the manager to have read the values
once. `uncounted` says that a persistent value has changed since CHANGE_COUNT last
moved, by a SET or by the operator's commit, for which the code moves no counter.
`SendStaleTIDsToManager` is one datagram per endpoint with marked blobs, as in the
code; of the modelled parameters only the label is ever marked, since the spin
control has no event, so the data endpoint's datagram is never sent. A poll
reply that does not fit is lowered (`PacketCodec`); here that is left out: it
could concern the data endpoint's only, for the longest values a SET may leave in
the root endpoint's blobs fit at configuration level.

**NodeLifecycle.** `ReceiveTimerTick(polled)` is a tick as the lifecycle sees it,
with or without an authenticated poll; entering Lost Mode and its first announce
are one step, as in the code. An announce that fails counts, as in the code.
Time passes at most `TimerLag` between ticks of the timer.

**NodeGroups.** `RefreshReceiverGroups` is the set of states the calls may leave,
each join and leave failing or not. The code joins on the chosen interface, or
when that fails on the default one, and leaves on the default one always; so a
leave may miss, a membership may stay behind, and a later join of it fails. The
refresh runs in every tick of the 20 ms timer, and a second time when a SET
brought a universe. The universe has two homes, the form's (listened to) and the
blob's (reported). A group is the last two bytes of its address.

**PollerTimer.** The VCL timer is a one-shot: its handler stops it, polls, and
arms it with a new random interval; it is handled at most `PollerLag` late. A
poll that fails re-arms it as well. **ManagerNode** extends it with the node's
`NodeLifecycle` as an instance over variables of the same names: a poll waits in
the node's socket for its next tick or is lost, at most `MaxLost` in a row.

**LevelTransmitter.** Every source of a level datagram (button, fader, the
pattern's 10 ms timer, keep-alive) goes through `SendPacket`, which works
(`LevelSent`) or fails (`LevelFails`). Only what went out moves the pair and the
count of good frames and restarts the keep-alive; a keep-alive that failed
keeps the phase of its period. The announce moves the pair and nothing else.

**PacketCodec, SignetPackets.** Positions, lengths and the bytes that code them
are exact: header, option deltas and lengths with their one- and two-byte
extensions, payload marker, TLV heads, both buffers of 1400 bytes and the 1400
bytes of the HMAC's input. Contents are the byte 0xFF, which is the payload
marker and so catches a reader that looks in the wrong place. The node's announces carry
the lengths its blobs have, which an unchecked SET may have changed; the SDK's own
announce has fixed ones. A message is its options
and the TLVs of its payload at each level: a poll reply's levels are the query
levels, and one that does not fit is built again one level lower. Only a payload,
an HMAC or an end that does not fit is tried lower; another option that does not
is an error like any other. The readers are the node's
`ExtractPayload` and, written independently of it, the transmitter's
`FindCoapOptionAndPayload`, each one step per option or TLV. A value its encoder
refuses is `Unencodable`.

## 3. Runs

| Run | Instance | Question |
|---|---|---|
| `MCFreshnessTracker` | 3 devices, 4 Sender-IDs, 2 slots, sessions 0..1, reclaim after 2 of 3 ticks | well-formed tables, recent senders kept and served, quiet tables open, refinement of `ReplayGuard` |
| `MCSignetDelivery` | 1 program, 2 endpoints, 4 datagrams over two rollovers, a restart under a spare TUID, 2 slots for 4 Sender-IDs | pairs grow; in order and once; newest served |
| `MCNodeReceive` | 2 senders, 2 pairs, interval 2, wrap at 5 | floor is authentic; an event's tick is its age; events spaced and not swallowed |
| `MCNodeControl` | polls of every kind, heartbeat among them, GETs, SETs and refused SETs, alone and in mixed pairs, at the root endpoint and broadcast; 2 packets per tick; all edits | leaving the label box undoes no SET; a change is forgotten only by a reply that was not asked for it; all others arrive |
| `MCNodeLifecycle` | timeout 3, poll time 2, lag 1, wrap at 8 | Lost Mode |
| `MCNodeGroups` | universes 0, 1, 109, 110; two interfaces and loopback | recorded is joined; no gap; listens again |
| `MCManagerNode` | repeat 1 or 2, jitter 1, one poll lost in a row, timeout 7, wrap at 10 | repeating goes on; a polled node is not lost |
| `MCLevelTransmitter` | 5 datagrams over two rollovers, keep-alive 2, lag 1, 2 levels, a restart | receivers kept alive; bad frames spaced; refinement of `SenderSequence` |
| `MCPacketCodec` | the real sizes; all builders at shortest and longest, payloads around 1400 bytes, foreign options at every boundary, cut and damaged | fits or is given up; both readers find what was built |

Three more runs show where a statement of the repository does not hold; each
checks one property and TLC finds the counterexample.

| Run | Statement | What happens |
|---|---|---|
| `MCNodeVoided` | node-main-form:2228 and 1378, an invalid SET voids the transaction | SETs before it are stored, uncounted |
| `MCNodeHeartbeat` | node-main-form:2337, the flag means the manager does not know | any poll reply drops it, also one that carries nothing |
| `MCNodeUniverse` | node-data.hpp:39, an edit on the form updates the blob | the universe's control has no event: the next tick joins the new universe's group on an open socket, and the old universe is still reported |

`ForgottenOnlyBlindly` of `MCNodeControl` is what is left of the second statement on
all traffic: a reply that carries none of the endpoint's values, at heartbeat level
or for the other endpoint, is the only way a change is forgotten. Of CHANGE_COUNT
nothing is claimed beyond the first run: a voided transaction misses it, and so does
every commit of the operator.

**Other divergences**, met while modelling and not run:

- Sessions are not stored, against README.md:230: every program starts at
  session 1, so one whose TUID outlives its restart is refused until it has
  caught up. `SenderPairsGrow` therefore assumes `PinnedTuid = {}`.
- What was accepted from a sender whose slot was recycled, after an hour of its
  silence, can be accepted again, against README.md:231. `KeepsPromise` says that it
  happens then only.
- A SET reply is sent on the URI of the packet's last SET (node-main-form:2213),
  also when a broadcast reached both endpoints, against the comment at 2182-2186.
- A label committed on the form changes a persistent value and not CHANGE_COUNT,
  against node-data.hpp:68.
- CHANGE_COUNT has moved before it is known whether the SET reply fits
  (node-main-form:2234).
- Of more than 32 SETs in a packet all are applied, and the first 32 are named in the
  reply (node-main-form:2210).
- README.md:20, 71, 156 and 205-211 and the example in `sig-net-send.hpp` fold
  universes on 100 groups; the code folds on 109. README.md:263 has a maximum of
  44 Hz; the dynamic pattern's timer sends every 10 ms.
- A repeat time up to 10 s and a jitter up to 1 s can be set, more than a node's
  timeout of 9 s; `ManagerNode` assumes settings below it (`PollsOftenEnough`).
- A datagram whose options end it is refused by `ParseSigNetOptions`, which needs a
  payload marker; the branch of `ExtractPayload` for an empty payload is never
  taken.
- The profile says that a TID it does not list falls to the caller's read-only
  handling (`sig-net-node-profile.hpp:95-96`); `HandleSetRequest` has none and
  stores it, and a firmware text of more than 64 bytes stored this way makes
  every full poll reply of the root endpoint fail. Likewise a version, role or
  endpoint count of a length that leaves no room makes the node's announces fail.
- A full reply of the data endpoint carries `TID_EP_CAPABILITY` twice.

**Why the bounds are enough.** With more devices than slots every scan outcome
occurs: found, unused, recycled, none. Two sessions give older, equal and newer
pairs, `MCSignetDelivery` adds sequence numbers, and the history keeps only the
last pair. `TickMod` one above `ReclaimAge` makes the tick wrap inside the
silence of a sender. A rollover after two datagrams leaves pairs on both sides
of it in flight. Two packets per tick, `MAX_SET_TIDS_PER_PACKET = 1` and
`CountMod = 2` reach their limits in one packet. In `MCNodeLifecycle` the wrap
comes before two timeouts have passed, so both differences wrap many times; in
`MCNodeReceive` it comes inside the second interval, so an event meets a
difference hidden by it. Of the universes of `MCNodeGroups`, 1 and 110 share a
group, 109 has another, and 0 is out of range and can be typed. In
`MCManagerNode` the timeout is the longest wait and not a tick more. In
`MCLevelTransmitter` the bad frame interval is 1 or 2, the keep-alive fires on
time and late, and both rollovers come before and after the restart. Of the
lengths `MCPacketCodec` varies, those on both sides of every change of coding
(12/13, 268/269), of the URI strings' size and of the buffers' occur. The proofs of section 4
remove these bounds for all modules with state.

`MaxTransmissions` caps the datagrams of a program, `MaxLost` the polls lost in a
row, `PacketBudget` the packets of a tick. Deadlock is checked in all runs but
`MCPacketCodec`, where a datagram is done when it has been read. Symmetry is
used in `MCFreshnessTracker`, over the two devices with one endpoint each, and in
`MCSignetDelivery`, over the TUIDs; no liveness is checked there, and the
refinement is a safety property. `MCManagerNode` has a VIEW that leaves out the
history of `NodeLifecycle`, which none of its actions and properties read.

**Fairness.** `FairSpec` of `NodeControl` has weak fairness of the thread: the VCL
timer keeps firing and a tick ends after at most `PacketBudget` packets. Strong
fairness of a `FinishTick` whose sends succeed says that a transmission tried
again on every tick is not refused by the socket for ever. Nothing is assumed of
the operator, who may deprovision, nor of the manager; that is why
`LabelReachesManager` has `~keys_valid` and `Forgotten` as its ways out. `FairSpec` of `NodeGroups`
has weak fairness of a tick of the receive timer in which no call fails that
need not: the form never stops that timer, and the system does not fail for
ever. Calls that must fail, like joining a group twice, fail there too. The
operator may go on changing universe and interface; `ListensAgain` says that the
node catches up again and again. The timers of `PollerTimer`, `NodeLifecycle` and
`LevelTransmitter` are bounded by their lags instead, and their promises are
safety properties with explicit times.

## 4. Proofs

All theorems hold for every value of the constants that satisfies the `ASSUME`s
of the modules: `ReclaimAge` positive and less than `TickMod`;
`NODE_LOST_THRESHOLD_MS` and two timer lags less than `TickMod`, `POLL_TIME_MS` no
more than the threshold; at least three sequence numbers; the event interval
positive and less than `TickMod`; repeat times positive; `Trim` a function on
labels that trims nothing twice; room for at least one TID in a packet's SETs;
datagrams of at most the 1400 bytes of the HMAC's input, and messages with their
options in ascending order and the six of Sig-Net among them with their lengths;
`PollsOftenEnough`, that the manager's settings
and the polls lost in a row add up to no more than the node's timeout. The
code's values satisfy all but the last, which depends on the settings. Each
module proves that its inductive invariant is one (`IInvHolds`, `TrackerIInvHolds`
and so on), and the theorems follow from it.

**FreshnessTrackerProofs**: `TrackerTypeCorrect`, `TracksStayUnique`,
`RecentlyHeardStaysTracked`, `KnownSenderIsServed`, `QuietTableLetsIn`,
`TrackerKeepsPromise`. The inductive invariant is the types, unique slots, the
correspondence of recent senders and slots, and `DeviceHeardLast`: a device is heard no earlier
than any of its endpoints. The last is what makes a half-done call harmless: it
opens a session slot only for a device not in the table, whose endpoints then
are not recent either. Unique slots are needed for the scan to return the very
slot the correspondence speaks of; ages are exact because a recent sender's
silence is shorter than a wrap. The refinement follows step by step: an accepted
datagram is an `Admit`, the clock is `GrowSilent`, a refusal is a stutter. For
`QuietTableLetsIn` a second invariant, `QuietIInv`, follows the oldest slot: the age
of a tracked sender is its silence however long ago it was heard, up to a wrap
(`SequenceAges`), and the tick of the last datagram accepted is in both tables, also
when its session slot was used since by a call that failed half way
(`LastAcceptedStays`). So one silence past `ReclaimAge` for all makes a slot free in
both tables at once.

**LevelTransmitterProofs**: `TransmitterTypeCorrect`, `ReceiversStayAlive`,
`BadFramesStaySpaced`, `TransmitterStampsInSequence`. The invariant has five
parts: the pair; the pattern on its wheel (two neighbouring colours share
`MaxLevel`, the third is off), without which a phase could never end; the frame
counter is the history's count while bad frames are asked for; the timer runs
exactly while the box is checked and there are keys; and the ages. Of these, `unheard` may be
one period older than the timer only while no good frame followed a bad one:
that is why two bad frames in a row, which would make it two, need an interval
of at least 1. The refinement maps a datagram that got out to `Send`, a restart to
`Restart` and all else to a stutter, so what is proved of `SenderSequence` is true of
the program.

**NodeLifecycleProofs**: `LifecycleTypeCorrect`, `LostOnlyWhenSilent`,
`LongSilenceIsNoticed`, `LostNodeAnnounces`, `LostAnnouncesAreSpaced`. The
differences the code reads are known modulo the tick only. `HeardTick` and
`AnnouncedTick` say that they are the true times while those are less than a
wrap; `NotYetNoticed` and `NotYetDue` cover the time after an outage, in which
the difference may have wrapped: either the timer has not ticked since, or it
has found the difference small, and then it cannot wrap again before the
threshold. `AnnouncedBeforeHeard` gives the pace: what ended Lost Mode is later
than the last announce, and Lost Mode is entered a whole timeout later.

**NodeReceptionProofs**, of `NodeReceive`: `ReceiveTypeCorrect`, `FloorStaysAuthentic`,
`TickStaysAge`, `EventsStaySpaced`, `EventsAreNotSwallowed`. `FloorIsAuthentic` is inductive with the
types; for the events, `TickIsAge` says that the wrapped difference is the true
age while that is less than a wrap and the tick is not 0.

Of `NodeGroups`: `GroupsTypeCorrect`, `RecordedStaysJoined`, `TicksKeepWanted`, for any
universes, any interfaces and any calls that fail. What is recorded is joined
(`SocketSound`) is inductive only together with the fact that the group recorded for
the universe is never one of the managers' (`SocketOK`): otherwise leaving an old
universe would end a membership that is still recorded for another purpose.
Both are proved of every stage of `RefreshReceiverGroups` and so of every state a
tick may leave.

**NodeControlProofs**: `TypeCorrect`, `UntypedLabelStays`, `OnlyBlindRepliesForget`, for
every `Packet`, every set of values and every budget, with no hypothesis on the
traffic. The invariant adds to the types that between ticks no blob waits to be
shown (`IdleMeansShown`), and that within one the box differs from the blob only
by what the operator typed or what this tick will still show (`LabelBoxFollows`).
Without the second a SET could be undone by leaving the box. `OnlyBlindRepliesForget`
looks at every step that could make a value forgotten. A value changes only
with its mark set (the commit) or with the manager as its author (a SET). A mark
goes with a SET of its value, with a flush, or with the replies to a poll. The flush
drops marks only when the datagrams of all endpoints with marked blobs went out,
and those carry every marked value (`FlushStep`). A poll's replies drop them only
when all of them went out, and a poll that asks for an endpoint's values gets
them all; what remains is the blind reply.

**PacketCodecProofs**: `CodecTypeCorrect`, `EveryBuildFitsOrFails`,
`EveryReadIsAsBuilt`, `FinderFindsBuilt`, for all options, lengths, levels and cuts.
The invariant `CInv` says where everything is. A build has a first part of the
options in the buffer, each header behind the value before it, and the buffer is
as long as their sizes sum up to; likewise the TLVs in the payload. A reader has
read a first part of the options and stands where the next one starts, or stands
at the TLV whose place the sums of the sizes give. Three facts carry the steps: a
header read where it was written gives back its number and length, and its first
byte is never the payload marker (`HeaderReads`); what is appended moves nothing
(`Joined`, `WrittenKept`); and the sums of sizes grow, which decides whether
something fits. The HMAC's own buffer of 1400 bytes is no limit of its own because
what the HMAC covers of the options is never longer than the options themselves
(`HmacInputFits`, the room its own option takes makes up for the fixed fields), so
no reply is lowered or given up for it alone. A cut datagram is never accepted,
wherever it is cut: a reader inside the options runs out of bytes, and one behind
them has a payload that differs from what the HMAC covers.

**SignetDeliveryProofs**: of the transmitters alone `SenderTypeCorrect` and
`SenderPairsGrow`, both under `PinnedTuid = {}`. The invariant says that whatever is
on the wire under a program's present TUID is before the pair it stamps next and
not after it in position, that no two programs share a TUID, and that every TUID
on the wire was drawn. Of the whole: `DeliveryTypeCorrect`, `DeliveryIsInOrderOnce`,
`LatestIsServed`, on `PinnedTuid = {}` and for as long as no session on the wire is
wider than the field it is sent in (`SessionsFit`): a program would have to send
almost 2^64 datagrams to get there. The invariant joins those of the two parts,
each kept by its own lemma, with three facts about both: a program uses each
position once; what the receiver remembers of an endpoint it heard lately is the
pair of a datagram on the wire whose position is the one `accepted` has for it
(`EndpointFloorSent`); and the session it remembers of a device heard lately was
sent by that device (`DeviceFloorSent`). Pairs grow with positions, so a fresh
pair has a later position than the floor, and the latest one is never below the
device's session.

**ManagerNodeProofs**: `PollerTypeCorrect`, `RepeatingGoesOn`,
`PolledNodeStaysFound`. `TimerFollows` says that the timer runs exactly while
repeating and that its age is the time since the last poll tried. For the node,
`SilenceIsBounded` measures the silence in the manager's time: with no poll in the
socket it is within the polls lost since, a longest round each, and the age of
the timer; with one there, within all the rounds that can be lost, one more and
the age of the node's own tick. A manager that has just begun to repeat may find a
longer silence, so either bound holds of the silence or of `steady`. `HeardTick`
makes the wrapped difference the true silence while it is less than a wrap, and
`Silent` is the lifecycle's own property again.

**Only model-checked**: the liveness properties `LabelReachesManager` and
`ListensAgain`, since fairness and ENABLED are beyond this prover, and that the
builders of `SignetPackets` make messages as `PacketCodec` assumes them
(`MessageAssumption`, which TLC evaluates for all messages of its run). Sums over
sequences are recursive functions of a position, so what the proofs need of them is
proved by a least counterexample, without the induction theorems that take an
operator.

## 5. Not modelled, and why

- HMAC, HKDF, PBKDF2 and the analysis of passphrases: functions without state.
  Which bytes the HMAC covers is in `PacketCodec`; whether it matches is decided
  before the other models begin.
- Wording, logs, form layout, dialogs, NIC enumeration, self test, build files.
- The example application: a demonstration that does not compile (`app.cpp` has
  an unbalanced brace around line 655) and reads `preview.uri` after moving it
  away (1329), so what its receive path does is not determined. Where its order
  differs from the node's, freshness before HMAC, `NodeReceive` has that order as a
  mutant.
- `ReceiverSenderState` (`sig-net-types.hpp:369-434`): no program uses it.
- Level data: the node's meter and the transmitter's faders. `NodeControl` leaves
  `TID_LEVEL` out.
- A TUID typed in the middle of a session.
- Single values of the profile's table: `NodeControl` has one parameter per kind of
  row, `SignetPackets` their lengths. Replies too large for a datagram are in
  `PacketCodec` and not in `NodeControl`.

## 6. Plan

Done, in this order: tracker, sender, their composition, control plane,
lifecycle; receive path and events, groups, poller, manager and node,
transmitter, codecs and builders; proofs of all safety properties.

Left:

1. A manager that reads CHANGE_COUNT and GETs what changed, composed with
   `NodeControl` over a lossy network.
2. The passphrase rules as pure operators.
3. Theorems over `SignetPackets`: that the packets the SDK's own builders make
   (announce, poll, security event) are messages the codec accepts and always
   fit a datagram of 1400 bytes, by bounding their option sizes and TLV sums. The
   node's own announces and replies do not always: unchecked SETs may leave values
   of any length in its blobs. What is proved now is that a message fits or is
   given up, not which ones fit.

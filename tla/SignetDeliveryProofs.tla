------------------------- MODULE SignetDeliveryProofs -------------------------
(***************************************************************************)
(* Theorems about transmitters, network and tracker together, for any       *)
(* number of programs, endpoints and slots, any widths of the sequence      *)
(* number and the tick, and any losses, repetitions and reorderings: as     *)
(* long as no TUID outlives a restart of its program and no session is      *)
(* beyond the width of the tracker's.                                       *)
(***************************************************************************)
EXTENDS SignetDelivery, FreshnessTrackerProofs

(***************************************************************************)
(* The transmitters alone (SenderSequence): the pairs a device puts on the  *)
(* wire grow in the order it transmits them, as long as no TUID outlives    *)
(* the program's counters.                                                  *)
(***************************************************************************)

\* The pair a program will stamp on its next datagram.
NextPair(s) == [session_id |-> session_id[s], seq_num |-> sequence_num[s]]

TuidsDistinct ==
    /\ \A s, t \in Sender : tuid_hex[s] = tuid_hex[t] => s = t
    /\ \A s \in Sender : tuid_hex[s] \in tuids_drawn
    /\ \A p \in wire : p.sender_id[1] \in tuids_drawn

\* All a device has transmitted is older than what it will transmit next.
CountersAhead ==
    \A p \in wire, s \in Sender :
        p.sender_id[1] = tuid_hex[s]
        => Before(p, NextPair(s)) /\ p.position <= position[s]

\* PairsFollowTransmission alone is not inductive: it says nothing of the
\* counters the next pair comes from, nor of whose TUID a restart may draw.
SenderIInv ==
    /\ SenderTypeOK
    /\ TuidsDistinct
    /\ CountersAhead
    /\ PairsFollowTransmission

-------------------------------------------------------------------------------
\* One advance of the counters of s makes its next pair later than the one it
\* has just used (IncrementSequence, ShouldIncrementSession).
LEMMA AdvanceIsLater ==
    ASSUME SenderTypeOK, NEW s \in Sender, AdvanceSequence(s)
    PROVE  /\ session_id' \in [Sender -> Nat]
           /\ sequence_num' \in [Sender -> UsableSequence]
           /\ \/ session_id[s] < session_id'[s]
              \/ session_id[s] = session_id'[s] /\ sequence_num[s] < sequence_num'[s]
           /\ \A t \in Sender \ {s} : /\ session_id'[t] = session_id[t]
                                      /\ sequence_num'[t] = sequence_num[t]
  BY SequenceWidthAssumption
  DEF AdvanceSequence, IncrementSequence, ShouldIncrementSession, SenderTypeOK,
      UsableSequence

\* The invariant holds when no program has transmitted.
LEMMA SenderInitIInv == SenderInit => SenderIInv
<1>. SUFFICES ASSUME SenderInit PROVE SenderIInv
  OBVIOUS
<1>1. SenderTypeOK
  BY SequenceWidthAssumption DEF SenderInit, SenderTypeOK, UsableSequence
<1>3. TuidsDistinct /\ CountersAhead /\ PairsFollowTransmission
  BY DEF SenderInit, TuidsDistinct, CountersAhead, PairsFollowTransmission
<1>. QED
  BY <1>1, <1>3 DEF SenderIInv

\* A transmission uses the next pair of its device and moves it on.
LEMMA SendIInv ==
    ASSUME SenderIInv, NEW s \in Sender, SendPacket(s)
    PROVE  SenderIInv'
<1>1. PICK id \in SenderId :
        /\ id[1] = tuid_hex[s]
        /\ wire' = wire \union {Datagram(s, id)}
        /\ position' = [position EXCEPT ![s] = @ + 1]
        /\ AdvanceSequence(s)
        /\ UNCHANGED <<tuid_hex, tuids_drawn>>
  BY DEF SendPacket
<1>. DEFINE m == Datagram(s, id)
<1>2. /\ m.sender_id = id /\ m.session_id = session_id[s]
      /\ m.seq_num = sequence_num[s] /\ m.position = position[s] + 1
  BY DEF Datagram
<1>3. m \in Transmission
  BY DEF Datagram, Transmission, SenderIInv, SenderTypeOK
<1>4. /\ session_id' \in [Sender -> Nat]
      /\ sequence_num' \in [Sender -> UsableSequence]
      /\ \/ session_id[s] < session_id'[s]
         \/ session_id[s] = session_id'[s] /\ sequence_num[s] < sequence_num'[s]
      /\ \A t \in Sender \ {s} : /\ session_id'[t] = session_id[t]
                                 /\ sequence_num'[t] = sequence_num[t]
  BY <1>1, AdvanceIsLater DEF SenderIInv
<1>5. /\ position' \in [Sender -> Nat]
      /\ position'[s] = position[s] + 1
      /\ \A t \in Sender \ {s} : position'[t] = position[t]
  BY <1>1 DEF SenderIInv, SenderTypeOK
<1>. HIDE DEF m
<1>6. wire' = wire \union {m}
  BY <1>1 DEF m
<1>7. SenderTypeOK'
  BY <1>1, <1>3, <1>4, <1>5, <1>6 DEF SenderIInv, SenderTypeOK
<1>9. TuidsDistinct'
  BY <1>1, <1>2, <1>6 DEF SenderIInv, TuidsDistinct
<1>10. CountersAhead'
  <2>. SUFFICES ASSUME NEW p \in wire', NEW t \in Sender,
                       p.sender_id[1] = tuid_hex[t]
                PROVE  /\ \/ p.session_id < session_id'[t]
                          \/ /\ p.session_id = session_id'[t]
                             /\ p.seq_num < sequence_num'[t]
                       /\ p.position <= position'[t]
    BY <1>1 DEF CountersAhead, Before, NextPair
  <2>1. CASE p = m
    <3>1. t = s
      BY <2>1, <1>1, <1>2 DEF SenderIInv, TuidsDistinct
    <3>. QED
      BY <2>1, <3>1, <1>2, <1>4, <1>5 DEF SenderIInv, SenderTypeOK, UsableSequence
  <2>2. CASE p \in wire
    <3>1. /\ \/ p.session_id < session_id[t]
             \/ p.session_id = session_id[t] /\ p.seq_num < sequence_num[t]
          /\ p.position <= position[t]
      BY <2>2 DEF SenderIInv, CountersAhead, Before, NextPair
    <3>2. p.session_id \in Nat /\ p.seq_num \in Int /\ p.position \in Nat
      BY <2>2 DEF SenderIInv, SenderTypeOK, Transmission, UsableSequence
    <3>3. CASE t = s
      BY <3>1, <3>2, <3>3, <1>4, <1>5, SequenceWidthAssumption
      DEF SenderIInv, SenderTypeOK, UsableSequence
    <3>4. CASE t # s
      BY <3>1, <3>4, <1>4, <1>5
    <3>. QED
      BY <3>3, <3>4
  <2>. QED
    BY <2>1, <2>2, <1>6
<1>11. PairsFollowTransmission'
  <2>. SUFFICES ASSUME NEW p \in wire', NEW q \in wire',
                       SameDevice(p, q), p.position < q.position
                PROVE  Before(p, q)
    BY DEF PairsFollowTransmission
  <2>1. CASE q = m /\ p \in wire
    <3>1. p.sender_id[1] = tuid_hex[s]
      BY <2>1, <1>1, <1>2 DEF SameDevice
    <3>2. Before(p, NextPair(s))
      BY <2>1, <3>1 DEF SenderIInv, CountersAhead
    <3>. QED
      BY <2>1, <3>2, <1>2 DEF Before, NextPair
  <2>2. CASE p = m /\ q \in wire
    <3>1. q.sender_id[1] = tuid_hex[s]
      BY <2>2, <1>1, <1>2 DEF SameDevice
    <3>2. q.position <= position[s]
      BY <2>2, <3>1 DEF SenderIInv, CountersAhead
    <3>3. q.position \in Nat /\ position[s] \in Nat
      BY <2>2 DEF SenderIInv, SenderTypeOK, Transmission
    <3>. QED
      BY <2>2, <3>2, <3>3, <1>2
  <2>3. CASE p \in wire /\ q \in wire
    BY <2>3 DEF SenderIInv, PairsFollowTransmission
  <2>4. CASE p = m /\ q = m
    <3>1. m.position \in Nat
      BY <1>3 DEF Transmission
    <3>. QED
      BY <2>4, <3>1
  <2>. QED
    BY <2>1, <2>2, <2>3, <2>4, <1>6
<1>. QED
  BY <1>7, <1>9, <1>10, <1>11 DEF SenderIInv

\* A restart that draws a TUID no device has had leaves nothing on the wire
\* that the new counters could repeat.
LEMMA RestartIInv ==
    ASSUME PinnedTuid = {}, SenderIInv, NEW s \in Sender, Restart(s)
    PROVE  SenderIInv'
<1>1. PICK t \in Tuid \ tuids_drawn :
        /\ tuid_hex' = [tuid_hex EXCEPT ![s] = t]
        /\ tuids_drawn' = tuids_drawn \union {t}
  BY DEF Restart
<1>2. /\ session_id' = [session_id EXCEPT ![s] = 1]
      /\ sequence_num' = [sequence_num EXCEPT ![s] = 1]
      /\ position' = position /\ wire' = wire
  BY DEF Restart
<1>3. SenderTypeOK'
  BY <1>1, <1>2, SequenceWidthAssumption
  DEF SenderIInv, SenderTypeOK, UsableSequence
<1>5. TuidsDistinct'
  BY <1>1, <1>2 DEF SenderIInv, TuidsDistinct, SenderTypeOK
<1>6. CountersAhead'
  <2>. SUFFICES ASSUME NEW p \in wire, NEW u \in Sender,
                       p.sender_id[1] = tuid_hex'[u]
                PROVE  (Before(p, NextPair(u)) /\ p.position <= position[u])'
    BY <1>2 DEF CountersAhead
  <2>1. u # s
    BY <1>1 DEF SenderIInv, TuidsDistinct, SenderTypeOK
  <2>2. /\ tuid_hex'[u] = tuid_hex[u] /\ session_id'[u] = session_id[u]
        /\ sequence_num'[u] = sequence_num[u]
    BY <2>1, <1>1, <1>2 DEF SenderIInv, SenderTypeOK
  <2>. QED
    BY <2>2, <1>2 DEF SenderIInv, CountersAhead, Before, NextPair
<1>7. PairsFollowTransmission'
  BY <1>2 DEF SenderIInv, PairsFollowTransmission, SameDevice, Before
<1>. QED
  BY <1>3, <1>5, <1>6, <1>7 DEF SenderIInv

\* Every step keeps the invariant.
LEMMA SenderNextIInv ==
    ASSUME PinnedTuid = {}, SenderIInv, [SenderNext]_senderVars
    PROVE  SenderIInv'
<1>1. CASE \E s \in Sender : SendPacket(s)
  BY <1>1, SendIInv
<1>2. CASE \E s \in Sender : Restart(s)
  BY <1>2, RestartIInv
<1>3. CASE UNCHANGED senderVars
  BY <1>3 DEF senderVars, SenderIInv, SenderTypeOK, TuidsDistinct, CountersAhead,
              PairsFollowTransmission, Before, NextPair, SameDevice
<1>. QED
  BY <1>1, <1>2, <1>3 DEF SenderNext

-------------------------------------------------------------------------------
\* Type correctness of the counters of every transmitting program, when every
\* restart draws a new TUID.
THEOREM SenderTypeCorrect ==
    ASSUME PinnedTuid = {} PROVE SenderSpec => []SenderTypeOK
<1>1. SenderInit => SenderIInv
  BY SenderInitIInv
<1>2. SenderIInv /\ [SenderNext]_senderVars => SenderIInv'
  BY SenderNextIInv
<1>3. SenderIInv => SenderTypeOK
  BY DEF SenderIInv
<1>. QED
  BY <1>1, <1>2, <1>3, PTL DEF SenderSpec

\* When every restart draws a new TUID, the pairs on a device's datagrams grow
\* in the order of transmission, across endpoints and rollovers of the sequence
\* number (IncrementSequence, ShouldIncrementSession, FormCreate).
THEOREM SenderPairsGrow ==
    ASSUME PinnedTuid = {} PROVE SenderSpec => []PairsFollowTransmission
<1>1. SenderInit => SenderIInv
  BY SenderInitIInv
<1>2. SenderIInv /\ [SenderNext]_senderVars => SenderIInv'
  BY SenderNextIInv
<1>3. SenderIInv => PairsFollowTransmission
  BY DEF SenderIInv
<1>. QED
  BY <1>1, <1>2, <1>3, PTL DEF SenderSpec

-------------------------------------------------------------------------------
(***************************************************************************)
(* Transmitters, network and tracker                                        *)
(***************************************************************************)

\* No session number on the wire is too wide for a slot: with 32 bits this
\* takes almost 2^64 datagrams of one program to break.
SessionsFit == \A m \in wire : m.session_id <= MaxSession

\* A program uses a position for one datagram only.
PositionsAreUsedOnce ==
    /\ \A s \in Sender : position[s] <= MaxTransmissions
    /\ \A p \in wire : p.position <= MaxTransmissions
    /\ \A p, q \in wire : SameDevice(p, q) /\ p.position = q.position => p = q

Remembered(heard) == heard.silence < TickMod

\* What the receiver remembers of an endpoint is the datagram of it that was
\* accepted last,
EndpointFloorSent ==
    \A id \in SenderId : Remembered(heard_sender[id]) =>
        \E f \in wire : /\ f.sender_id = id
                        /\ f.position = accepted[id]
                        /\ f.session_id = heard_sender[id].session_id
                        /\ f.seq_num = heard_sender[id].seq_num

\* and what it remembers of a device is the session of one of its datagrams.
DeviceFloorSent ==
    \A t \in Tuid : Remembered(heard_tuid[t]) =>
        \E f \in wire : /\ f.sender_id[1] = t
                        /\ f.session_id = heard_tuid[t].session_id

\* The parts' own invariants, and what joins them: the floors of the receiver
\* are places in the output of the transmitters.
DeliveryIInv ==
    /\ SenderIInv
    /\ TrackerIInv
    /\ accepted \in [SenderId -> 0 .. MaxTransmissions]
    /\ PositionsAreUsedOnce
    /\ EndpointFloorSent
    /\ DeviceFloorSent

-------------------------------------------------------------------------------
(***************************************************************************)
(* The invariant is one                                                     *)
(***************************************************************************)

\* Nothing was sent, heard or accepted.
LEMMA DeliveryInitIInv == Init => DeliveryIInv
<1>. SUFFICES ASSUME Init PROVE DeliveryIInv
  OBVIOUS
<1>1. SenderIInv /\ TrackerIInv
  BY SenderInitIInv, TrackerInitIInv DEF Init
<1>2. accepted \in [SenderId -> 0 .. MaxTransmissions]
  BY BoundAssumption DEF Init
<1>3. PositionsAreUsedOnce
  BY BoundAssumption DEF Init, SenderInit, PositionsAreUsedOnce
<1>4. \A id \in SenderId : ~Remembered(heard_sender[id])
  BY TimeAssumption DEF Init, TrackerInit, Remembered, SenderNeverHeard
<1>5. \A u \in Tuid : ~Remembered(heard_tuid[u])
  BY TimeAssumption DEF Init, TrackerInit, Remembered, TuidNeverHeard
<1>. QED
  BY <1>1, <1>2, <1>3, <1>4, <1>5 DEF DeliveryIInv, EndpointFloorSent, DeviceFloorSent

\* While the receiver does nothing and nothing is taken off the wire, its floors
\* stay what they are.
LEMMA FloorsStaySent ==
    ASSUME DeliveryIInv, wire \subseteq wire', UNCHANGED <<trackerVars, accepted>>
    PROVE  EndpointFloorSent' /\ DeviceFloorSent'
<1>1. heard_sender' = heard_sender /\ heard_tuid' = heard_tuid /\ accepted' = accepted
  BY DEF trackerVars
<1>2. EndpointFloorSent'
  <2>. SUFFICES ASSUME NEW id \in SenderId, Remembered(heard_sender[id])
                PROVE  \E f \in wire' : /\ f.sender_id = id
                                        /\ f.position = accepted[id]
                                        /\ f.session_id = heard_sender[id].session_id
                                        /\ f.seq_num = heard_sender[id].seq_num
    BY <1>1 DEF EndpointFloorSent, Remembered
  <2>. QED
    BY DEF DeliveryIInv, EndpointFloorSent
<1>3. DeviceFloorSent'
  <2>. SUFFICES ASSUME NEW u \in Tuid, Remembered(heard_tuid[u])
                PROVE  \E f \in wire' : /\ f.sender_id[1] = u
                                        /\ f.session_id = heard_tuid[u].session_id
    BY <1>1 DEF DeviceFloorSent, Remembered
  <2>. QED
    BY DEF DeliveryIInv, DeviceFloorSent
<1>. QED
  BY <1>2, <1>3

\* A transmission takes the first position its device has not used.
LEMMA TransmitIInv ==
    ASSUME DeliveryIInv, PinnedTuid = {}, Transmit
    PROVE  DeliveryIInv'
<1>1. SenderIInv'
  BY SenderNextIInv DEF DeliveryIInv, Transmit, SenderNext
<1>2. TrackerIInv'
  BY TrackerNextIInv DEF DeliveryIInv, Transmit
<1>3. PICK s \in Sender : SendPacket(s)
  BY DEF Transmit
<1>4. PICK id \in SenderId :
        /\ id[1] = tuid_hex[s]
        /\ position[s] < MaxTransmissions
        /\ wire' = wire \union {Datagram(s, id)}
        /\ position' = [position EXCEPT ![s] = @ + 1]
  BY <1>3 DEF SendPacket
<1>. DEFINE m == Datagram(s, id)
<1>5. m.sender_id = id /\ m.position = position[s] + 1
  BY DEF Datagram
<1>. HIDE DEF m
<1>6. position \in [Sender -> Nat] /\ wire \subseteq Transmission
  BY DEF DeliveryIInv, SenderIInv, SenderTypeOK
<1>7. \A p \in wire : p.position \in Nat
  BY <1>6 DEF Transmission
<1>8. \A p \in wire : p.sender_id[1] = id[1] => p.position <= position[s]
  BY <1>4 DEF DeliveryIInv, SenderIInv, CountersAhead
<1>9. wire' = wire \union {m}
  BY <1>4 DEF m
<1>10. PositionsAreUsedOnce'
  <2>1. \A t \in Sender : position'[t] <= MaxTransmissions
    BY <1>4, <1>6, BoundAssumption DEF DeliveryIInv, PositionsAreUsedOnce
  <2>2. \A p \in wire' : p.position <= MaxTransmissions
    BY <1>4, <1>5, <1>6, <1>9, BoundAssumption DEF DeliveryIInv, PositionsAreUsedOnce
  <2>3. ASSUME NEW p \in wire', NEW q \in wire',
               SameDevice(p, q), p.position = q.position
        PROVE  p = q
    <3>1. CASE p \in wire /\ q \in wire
      BY <2>3, <3>1 DEF DeliveryIInv, PositionsAreUsedOnce
    <3>2. CASE p = m /\ q \in wire
      BY <2>3, <3>2, <1>5, <1>6, <1>7, <1>8 DEF SameDevice
    <3>3. CASE p \in wire /\ q = m
      BY <2>3, <3>3, <1>5, <1>6, <1>7, <1>8 DEF SameDevice
    <3>. QED
      BY <3>1, <3>2, <3>3, <1>9
  <2>. QED
    BY <2>1, <2>2, <2>3 DEF PositionsAreUsedOnce, SameDevice
<1>11. EndpointFloorSent' /\ DeviceFloorSent'
  BY <1>9, FloorsStaySent DEF Transmit
<1>. QED
  BY <1>1, <1>2, <1>10, <1>11 DEF DeliveryIInv, Transmit

\* A restarted sender keeps what is on the wire below its next pair.
LEMMA RestartSenderIInv ==
    ASSUME DeliveryIInv, PinnedTuid = {}, RestartSender
    PROVE  DeliveryIInv'
<1>1. SenderIInv'
  BY SenderNextIInv DEF DeliveryIInv, RestartSender, SenderNext
<1>2. TrackerIInv'
  BY TrackerNextIInv DEF DeliveryIInv, RestartSender
<1>3. wire' = wire /\ position' = position
  BY DEF RestartSender, Restart
<1>4. PositionsAreUsedOnce'
  BY <1>3 DEF DeliveryIInv, PositionsAreUsedOnce, SameDevice
<1>5. EndpointFloorSent' /\ DeviceFloorSent'
  BY <1>3, FloorsStaySent DEF RestartSender
<1>. QED
  BY <1>1, <1>2, <1>4, <1>5 DEF DeliveryIInv, RestartSender

\* The transmitters stand still while the receiver moves.
LEMMA SendersStandStill ==
    ASSUME DeliveryIInv, UNCHANGED senderVars
    PROVE  SenderIInv' /\ PositionsAreUsedOnce' /\ wire' = wire
<1>1. SenderIInv'
  BY DEF DeliveryIInv, senderVars, SenderIInv, SenderTypeOK, TuidsDistinct,
         CountersAhead, PairsFollowTransmission, Before, NextPair, SameDevice
<1>. QED
  BY <1>1 DEF senderVars, DeliveryIInv, PositionsAreUsedOnce, SameDevice

\* What the tracker reads of a datagram, and that it is a packet.
LEMMA OptionsAre ==
    ASSUME DeliveryIInv, SessionsFit, NEW m \in wire
    PROVE  /\ OptionsOf(m) \in Packet
           /\ OptionsOf(m).sender_id = m.sender_id
           /\ OptionsOf(m).session_id = m.session_id
           /\ OptionsOf(m).seq_num = m.seq_num
           /\ m.sender_id \in SenderId /\ m.session_id \in Nat
           /\ m.seq_num \in Nat /\ m.position \in 1 .. MaxTransmissions
           /\ m.sender_id[1] \in Tuid
<1>1. m \in Transmission
  BY DEF DeliveryIInv, SenderIInv, SenderTypeOK
<1>2. /\ m.sender_id \in SenderId /\ m.session_id \in Nat
      /\ m.seq_num \in 1 .. MaxSequence - 1 /\ m.position \in Nat \ {0}
  BY <1>1 DEF Transmission, UsableSequence
<1>3. m.position <= MaxTransmissions
  BY DEF DeliveryIInv, PositionsAreUsedOnce
<1>4. m.session_id \in Session /\ m.seq_num \in Sequence
  BY <1>2, WidthAssumption DEF SessionsFit, Session, Sequence
<1>5. OptionsOf(m) \in Packet
  BY <1>2, <1>4 DEF OptionsOf, Packet
<1>. QED
  BY <1>2, <1>3, <1>5, BoundAssumption, SenderIdAssumption DEF OptionsOf

\* A datagram that is accepted becomes the floor of its endpoint and its session
\* that of its device; a refusal moves nothing the history knows of.
LEMMA DeliverIInv ==
    ASSUME DeliveryIInv, SessionsFit, NEW m \in wire, Deliver(m)
    PROVE  DeliveryIInv'
<1>. DEFINE p == OptionsOf(m)
<1>1. /\ p \in Packet
      /\ p.sender_id = m.sender_id /\ p.session_id = m.session_id
      /\ p.seq_num = m.seq_num
      /\ m.sender_id \in SenderId /\ m.sender_id[1] \in Tuid
      /\ m.position \in 1 .. MaxTransmissions
  BY OptionsAre
<1>2. ValidateAndCommitFreshness(p)
  BY DEF Deliver
<1>3. accepted' = IF IsFresh(p) THEN [accepted EXCEPT ![m.sender_id] = m.position]
                                ELSE accepted
  BY DEF Deliver
<1>4. SenderIInv' /\ PositionsAreUsedOnce' /\ wire' = wire
  BY SendersStandStill DEF Deliver
<1>. HIDE DEF p
<1>5. TrackerIInv'
  BY <1>1, <1>2, TrackerNextIInv DEF DeliveryIInv, TrackerNext
<1>6. accepted' \in [SenderId -> 0 .. MaxTransmissions]
  BY <1>1, <1>3 DEF DeliveryIInv
<1>7. CASE AcceptFresh(p)
  <2>1. accepted' = [accepted EXCEPT ![m.sender_id] = m.position]
    BY <1>3, <1>7 DEF AcceptFresh
  <2>2. /\ heard_sender' = [heard_sender EXCEPT ![m.sender_id] =
                              [silence |-> 0, session_id |-> m.session_id,
                               seq_num |-> m.seq_num]]
        /\ heard_tuid' = [heard_tuid EXCEPT ![m.sender_id[1]] =
                            [silence |-> 0, session_id |-> m.session_id]]
    BY <1>1, <1>7 DEF AcceptFresh, TuidOf
  <2>3. EndpointFloorSent'
    <3>. SUFFICES ASSUME NEW id \in SenderId, Remembered(heard_sender'[id])
                  PROVE  \E f \in wire : /\ f.sender_id = id
                                         /\ f.position = accepted'[id]
                                         /\ f.session_id = heard_sender'[id].session_id
                                         /\ f.seq_num = heard_sender'[id].seq_num
      BY <1>4 DEF EndpointFloorSent, Remembered
    <3>1. CASE id = m.sender_id
      <4>1. /\ accepted'[id] = m.position
            /\ heard_sender'[id].session_id = m.session_id
            /\ heard_sender'[id].seq_num = m.seq_num
        BY <2>1, <2>2, <3>1 DEF DeliveryIInv, TrackerIInv, TrackerTypeOK
      <4>. QED
        BY <3>1, <4>1
    <3>2. CASE id # m.sender_id
      <4>1. accepted'[id] = accepted[id] /\ heard_sender'[id] = heard_sender[id]
        BY <2>1, <2>2, <3>2 DEF DeliveryIInv, TrackerIInv, TrackerTypeOK
      <4>. QED
        BY <4>1 DEF DeliveryIInv, EndpointFloorSent
    <3>. QED
      BY <3>1, <3>2
  <2>4. DeviceFloorSent'
    <3>. SUFFICES ASSUME NEW u \in Tuid, Remembered(heard_tuid'[u])
                  PROVE  \E f \in wire : /\ f.sender_id[1] = u
                                         /\ f.session_id = heard_tuid'[u].session_id
      BY <1>4 DEF DeviceFloorSent, Remembered
    <3>1. CASE u = m.sender_id[1]
      <4>1. heard_tuid'[u].session_id = m.session_id
        BY <1>1, <2>2, <3>1 DEF DeliveryIInv, TrackerIInv, TrackerTypeOK
      <4>. QED
        BY <3>1, <4>1
    <3>2. CASE u # m.sender_id[1]
      <4>1. heard_tuid'[u] = heard_tuid[u]
        BY <2>2, <3>2 DEF DeliveryIInv, TrackerIInv, TrackerTypeOK
      <4>. QED
        BY <4>1 DEF DeliveryIInv, DeviceFloorSent
    <3>. QED
      BY <3>1, <3>2
  <2>. QED
    BY <1>4, <1>5, <1>6, <2>3, <2>4 DEF DeliveryIInv
<1>8. CASE RejectSession(p) \/ RejectSequence(p)
  <2>1. ~IsFresh(p) /\ heard_sender' = heard_sender /\ heard_tuid' = heard_tuid
    BY <1>8 DEF RejectSession, RejectSequence, IsFresh, trackerVars
  <2>2. accepted' = accepted
    BY <1>3, <2>1
  <2>3. EndpointFloorSent' /\ DeviceFloorSent'
    BY <1>4, <2>1, <2>2
    DEF DeliveryIInv, EndpointFloorSent, DeviceFloorSent, Remembered
  <2>. QED
    BY <1>4, <1>5, <1>6, <2>3 DEF DeliveryIInv
<1>. QED
  BY <1>2, <1>7, <1>8 DEF ValidateAndCommitFreshness

\* A restarted node remembers nothing and has accepted nothing.
LEMMA RestartReceiverIInv ==
    ASSUME DeliveryIInv, RestartReceiver
    PROVE  DeliveryIInv'
<1>1. SenderIInv' /\ PositionsAreUsedOnce' /\ wire' = wire
  BY SendersStandStill DEF RestartReceiver
<1>2. TrackerIInv'
  BY ResetIInv DEF DeliveryIInv, RestartReceiver
<1>3. accepted' \in [SenderId -> 0 .. MaxTransmissions]
  BY BoundAssumption DEF RestartReceiver
<1>4. \A id \in SenderId : ~Remembered(heard_sender'[id])
  BY TimeAssumption
  DEF RestartReceiver, ResetFreshnessTracker, Remembered, SenderNeverHeard
<1>5. \A u \in Tuid : ~Remembered(heard_tuid'[u])
  BY TimeAssumption
  DEF RestartReceiver, ResetFreshnessTracker, Remembered, TuidNeverHeard
<1>6. EndpointFloorSent' /\ DeviceFloorSent'
  BY <1>4, <1>5 DEF EndpointFloorSent, DeviceFloorSent, Remembered
<1>. QED
  BY <1>1, <1>2, <1>3, <1>6 DEF DeliveryIInv

\* Whoever is remembered after a tick was remembered before it.
LEMMA TimePassesDeliveryIInv ==
    ASSUME DeliveryIInv, TimePasses
    PROVE  DeliveryIInv'
<1>1. /\ SenderIInv' /\ PositionsAreUsedOnce' /\ wire' = wire
      /\ accepted' = accepted
  BY SendersStandStill DEF TimePasses
<1>2. TrackerIInv'
  BY TrackerTimePassesIInv DEF DeliveryIInv, TimePasses
<1>3. EndpointFloorSent'
  <2>. SUFFICES ASSUME NEW id \in SenderId, Remembered(heard_sender'[id])
                PROVE  \E f \in wire : /\ f.sender_id = id
                                       /\ f.position = accepted[id]
                                       /\ f.session_id = heard_sender'[id].session_id
                                       /\ f.seq_num = heard_sender'[id].seq_num
    BY <1>1 DEF EndpointFloorSent, Remembered
  <2>1. /\ Remembered(heard_sender[id])
        /\ heard_sender'[id].session_id = heard_sender[id].session_id
        /\ heard_sender'[id].seq_num = heard_sender[id].seq_num
    BY TimeAssumption
    DEF TimePasses, TrackerTimePasses, Longer, Remembered, SenderNeverHeard,
        DeliveryIInv, TrackerIInv, TrackerTypeOK, Silence
  <2>. QED
    BY <2>1 DEF DeliveryIInv, EndpointFloorSent
<1>4. DeviceFloorSent'
  <2>. SUFFICES ASSUME NEW u \in Tuid, Remembered(heard_tuid'[u])
                PROVE  \E f \in wire : /\ f.sender_id[1] = u
                                       /\ f.session_id = heard_tuid'[u].session_id
    BY <1>1 DEF DeviceFloorSent, Remembered
  <2>1. /\ Remembered(heard_tuid[u])
        /\ heard_tuid'[u].session_id = heard_tuid[u].session_id
    BY TimeAssumption
    DEF TimePasses, TrackerTimePasses, Longer, Remembered, TuidNeverHeard,
        DeliveryIInv, TrackerIInv, TrackerTypeOK, Silence
  <2>. QED
    BY <2>1 DEF DeliveryIInv, DeviceFloorSent
<1>. QED
  BY <1>1, <1>2, <1>3, <1>4 DEF DeliveryIInv

\* Every step keeps the invariant, while sessions fit.
LEMMA DeliveryNextIInv ==
    ASSUME PinnedTuid = {}, DeliveryIInv, SessionsFit, [Next]_vars
    PROVE  DeliveryIInv'
<1>1. CASE Transmit
  BY <1>1, TransmitIInv
<1>2. CASE RestartSender
  BY <1>2, RestartSenderIInv
<1>3. CASE \E m \in wire : Deliver(m)
  BY <1>3, DeliverIInv
<1>4. CASE RestartReceiver
  BY <1>4, RestartReceiverIInv
<1>5. CASE TimePasses
  BY <1>5, TimePassesDeliveryIInv
<1>6. CASE UNCHANGED vars
  <2>1. UNCHANGED <<trackerVars, accepted>> /\ UNCHANGED senderVars
    BY <1>6 DEF vars
  <2>2. SenderIInv' /\ PositionsAreUsedOnce' /\ wire' = wire
    BY <2>1, SendersStandStill
  <2>3. TrackerIInv'
    BY <2>1, TrackerNextIInv DEF DeliveryIInv
  <2>. QED
    BY <2>1, <2>2, <2>3, FloorsStaySent DEF DeliveryIInv
<1>. QED
  BY <1>1, <1>2, <1>3, <1>4, <1>5, <1>6 DEF Next

\* As long as the sessions fit, the parts stay joined.
THEOREM DeliveryIInvHolds ==
    ASSUME PinnedTuid = {} PROVE Spec /\ []SessionsFit => []DeliveryIInv
<1>1. Init => DeliveryIInv
  BY DeliveryInitIInv
<1>2. DeliveryIInv /\ SessionsFit /\ [Next]_vars => DeliveryIInv'
  BY DeliveryNextIInv
<1>. QED
  BY <1>1, <1>2, PTL DEF Spec

-------------------------------------------------------------------------------
(***************************************************************************)
(* The theorems                                                             *)
(***************************************************************************)

\* Types of both sides and of what was accepted (SendPacket,
\* ValidateAndCommitFreshness).
THEOREM DeliveryTypeCorrect ==
    ASSUME PinnedTuid = {} PROVE Spec /\ []SessionsFit => []TypeOK
<1>1. DeliveryIInv => TypeOK
  BY DEF DeliveryIInv, SenderIInv, TrackerIInv, TypeOK
<1>. QED
  BY <1>1, DeliveryIInvHolds, PTL

\* Of two datagrams of a device the one with the later position has the later
\* pair, and there is none with the same.
LEMMA PositionsOrderPairs ==
    ASSUME DeliveryIInv, NEW p \in wire, NEW q \in wire, SameDevice(p, q)
    PROVE  /\ p.position < q.position => Before(p, q)
           /\ p.position = q.position => p = q
           /\ p.position \in Nat /\ q.position \in Nat
           /\ p.session_id \in Nat /\ q.session_id \in Nat
           /\ p.seq_num \in Nat /\ q.seq_num \in Nat
  BY DEF DeliveryIInv, SenderIInv, SenderTypeOK, Transmission, UsableSequence,
         PairsFollowTransmission, PositionsAreUsedOnce

\* The datagram an endpoint heard lately was heard with.
LEMMA FloorOf ==
    ASSUME DeliveryIInv, NEW id \in SenderId, Recent(heard_sender[id])
    PROVE  \E f \in wire : /\ f.sender_id = id
                           /\ f.position = accepted[id]
                           /\ f.session_id = heard_sender[id].session_id
                           /\ f.seq_num = heard_sender[id].seq_num
<1>1. Remembered(heard_sender[id])
  BY TimeAssumption
  DEF Recent, Remembered, DeliveryIInv, TrackerIInv, TrackerTypeOK, Silence
<1>. QED
  BY <1>1 DEF DeliveryIInv, EndpointFloorSent

\* A receiver takes the datagrams of an endpoint in the order they were sent and
\* none twice, over any losses, repetitions and reorderings, rollovers and
\* restarts, while the endpoint is not silent for ReclaimAge
\* (ValidateAndCommitFreshness, IncrementSequence).
THEOREM DeliveryIsInOrderOnce ==
    ASSUME PinnedTuid = {} PROVE Spec /\ []SessionsFit => []DeliveredInOrderOnce
<1>1. DeliveryIInv /\ SessionsFit => DeliveredInOrderOnce
  <2>. SUFFICES ASSUME DeliveryIInv, SessionsFit, NEW m \in wire,
                       Recent(heard_sender[m.sender_id]), IsFresh(OptionsOf(m))
                PROVE  accepted[m.sender_id] < m.position
    BY DEF DeliveredInOrderOnce
  <2>. DEFINE p == OptionsOf(m)
  <2>1. /\ p \in Packet /\ p.sender_id = m.sender_id
        /\ p.session_id = m.session_id /\ p.seq_num = m.seq_num
        /\ m.sender_id \in SenderId
    BY OptionsAre
  <2>2. NewerThan(p, heard_sender[m.sender_id])
    BY <2>1, FreshIsNewer DEF DeliveryIInv
  <2>3. PICK f \in wire : /\ f.sender_id = m.sender_id
                          /\ f.position = accepted[m.sender_id]
                          /\ f.session_id = heard_sender[m.sender_id].session_id
                          /\ f.seq_num = heard_sender[m.sender_id].seq_num
    BY <2>1, FloorOf
  <2>4. SameDevice(m, f)
    BY <2>3 DEF SameDevice
  <2>. HIDE DEF p
  <2>5. ~Before(m, f) /\ m # f
    BY <2>1, <2>2, <2>3, <2>4, PositionsOrderPairs DEF Before, NewerThan
  <2>. QED
    BY <2>3, <2>4, <2>5, PositionsOrderPairs
<1>. QED
  BY <1>1, DeliveryIInvHolds, PTL

\* The datagram a device sent last is never refused, if its endpoint was heard
\* lately: nothing that arrives pushes a floor above what the device sends now
\* (ValidateAndCommitFreshness, IncrementSequence).
THEOREM LatestIsServed ==
    ASSUME PinnedTuid = {} PROVE Spec /\ []SessionsFit => []LatestServed
<1>1. DeliveryIInv /\ SessionsFit => LatestServed
  <2>. SUFFICES ASSUME DeliveryIInv, SessionsFit, NEW m \in wire, Latest(m),
                       Recent(heard_sender[m.sender_id]),
                       accepted[m.sender_id] < m.position
                PROVE  IsFresh(OptionsOf(m))
    BY DEF LatestServed
  <2>. DEFINE p == OptionsOf(m)
  <2>1. /\ p \in Packet /\ p.sender_id = m.sender_id
        /\ p.session_id = m.session_id /\ p.seq_num = m.seq_num
        /\ m.sender_id \in SenderId /\ m.sender_id[1] \in Tuid
    BY OptionsAre
  <2>. HIDE DEF p
  <2>2. PICK f \in wire : /\ f.sender_id = m.sender_id
                          /\ f.position = accepted[m.sender_id]
                          /\ f.session_id = heard_sender[m.sender_id].session_id
                          /\ f.seq_num = heard_sender[m.sender_id].seq_num
    BY <2>1, FloorOf
  <2>3. Before(f, m)
    BY <2>2, PositionsOrderPairs DEF SameDevice
  <2>4. NewerThan(p, heard_sender[p.sender_id])
    BY <2>1, <2>2, <2>3 DEF Before, NewerThan
  <2>5. Remembered(heard_tuid[m.sender_id[1]])
    BY <2>1, TimeAssumption
    DEF Recent, Remembered, DeliveryIInv, TrackerIInv, TrackerTypeOK,
        DeviceHeardLast, Silence
  <2>6. PICK g \in wire :
               /\ g.sender_id[1] = m.sender_id[1]
               /\ g.session_id = heard_tuid[m.sender_id[1]].session_id
    BY <2>1, <2>5 DEF DeliveryIInv, DeviceFloorSent
  <2>7. g.position <= m.position
    BY <2>6 DEF Latest
  <2>8. g.session_id <= m.session_id
    BY <2>6, <2>7, PositionsOrderPairs DEF SameDevice, Before
  <2>9. TuidOf(p) = m.sender_id[1]
    BY <2>1 DEF TuidOf
  <2>10. IsFresh(p)
    BY <2>1, <2>4, <2>6, <2>8, <2>9, NewerIsFresh DEF DeliveryIInv
  <2>. QED
    BY <2>10 DEF p
<1>. QED
  BY <1>1, DeliveryIInvHolds, PTL

===============================================================================

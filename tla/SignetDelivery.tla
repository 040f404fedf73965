---------------------------- MODULE SignetDelivery ----------------------------
(***************************************************************************)
(* Transmitting programs (SenderSequence), a UDP multicast network and one  *)
(* receiving node's freshness tracker (FreshnessTracker) together.  The     *)
(* network may lose, delay, duplicate and reorder: any datagram ever        *)
(* transmitted may arrive at any moment, any number of times, or never.     *)
(* Datagrams that fail authentication do not reach the tracker and count    *)
(* as lost.                                                                 *)
(*                                                                          *)
(* accepted is a history variable: for each Sender-ID the position, in its  *)
(* program's output, of the datagram accepted last (0 for none).            *)
(***************************************************************************)
EXTENDS SenderSequence, FreshnessTracker

VARIABLE accepted

vars == <<senderVars, trackerVars, accepted>>

Init ==
    /\ SenderInit
    /\ TrackerInit
    /\ accepted = [id \in SenderId |-> 0]

Transmit ==
    /\ \E s \in Sender : SendPacket(s)
    /\ UNCHANGED <<trackerVars, accepted>>

RestartSender ==
    /\ \E s \in Sender : Restart(s)
    /\ UNCHANGED <<trackerVars, accepted>>

\* The options of a datagram that the tracker is given.
OptionsOf(m) ==
    [sender_id |-> m.sender_id, session_id |-> m.session_id,
     seq_num |-> m.seq_num]

Deliver(m) ==
    /\ ValidateAndCommitFreshness(OptionsOf(m))
    /\ accepted' = IF IsFresh(OptionsOf(m))
                   THEN [accepted EXCEPT ![m.sender_id] = m.position]
                   ELSE accepted
    /\ UNCHANGED senderVars

RestartReceiver ==
    /\ ResetFreshnessTracker
    /\ accepted' = [id \in SenderId |-> 0]
    /\ UNCHANGED senderVars

TimePasses == TrackerTimePasses /\ UNCHANGED <<senderVars, accepted>>

Next ==
    \/ Transmit
    \/ RestartSender
    \/ \E m \in wire : Deliver(m)
    \/ RestartReceiver
    \/ TimePasses

Spec == Init /\ [][Next]_vars

-------------------------------------------------------------------------------
(***************************************************************************)
(* Properties                                                               *)
(***************************************************************************)

\* Types of both sides and of the history.
TypeOK ==
    /\ SenderTypeOK
    /\ TrackerTypeOK
    /\ accepted \in [SenderId -> 0 .. MaxTransmissions]

\* Seen from the transmitter's output, a receiver takes the datagrams of an
\* endpoint in the order they were sent and none twice, across the rollover of
\* the sequence number and restarts of the program, for as long as the endpoint
\* is not silent for ReclaimAge (ValidateAndCommitFreshness on the pairs
\* IncrementSequence hands out).
DeliveredInOrderOnce ==
    \A m \in wire :
        /\ Recent(heard_sender[m.sender_id])
        /\ IsFresh(OptionsOf(m))
        => accepted[m.sender_id] < m.position

Latest(m) ==
    \A q \in wire : q.sender_id[1] = m.sender_id[1] => q.position <= m.position

\* The datagram a device sent last gets through if it arrives and its endpoint
\* was heard lately: late duplicates of other datagrams, other endpoints of the
\* device, other devices and the rollover of the sequence number never push
\* the receiver's floor above what the device sends now.
LatestServed ==
    \A m \in wire :
        /\ Latest(m)
        /\ Recent(heard_sender[m.sender_id])
        /\ accepted[m.sender_id] < m.position
        => IsFresh(OptionsOf(m))

===============================================================================

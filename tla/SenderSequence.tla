---------------------------- MODULE SenderSequence ----------------------------
(***************************************************************************)
(* What the level transmitter, the poller and the node do with the pair     *)
(* (session_id, sequence_num): one pair per program, shared by all its      *)
(* endpoints, stamped on each datagram, moved on after a datagram was       *)
(* handed to the socket and left alone when that failed.  A program that    *)
(* starts again begins at session 1, sequence 1: nothing is stored.  What   *)
(* changes at a start is the TUID, which is drawn anew unless it is pinned  *)
(* (generation failed, typed in by the operator, or a built-in TUID).       *)
(*                                                                          *)
(* wire holds every datagram ever transmitted, with the position it had in  *)
(* its program's output.  message_id, send_count and last_packet_size move  *)
(* with sequence_num and are read by no receiver; they are left out.        *)
(***************************************************************************)
EXTENDS SenderIdentity

CONSTANTS
    Sender,           \* transmitting programs
    PinnedTuid,       \* the programs whose TUID survives a restart
    MaxTransmissions  \* bound on the datagrams of one program

ASSUME PinnedAssumption == PinnedTuid \subseteq Sender
ASSUME SequenceWidthAssumption == MaxSequence \in Nat /\ MaxSequence >= 2
ASSUME BoundAssumption == MaxTransmissions \in Nat

VARIABLES
    tuid_hex,      \* program -> the TUID it runs under
    session_id,    \* program -> uint32, cannot wrap within 2^64 datagrams
    sequence_num,  \* program -> uint32
    tuids_drawn,   \* TUIDs some program has run under
    position,      \* program -> datagrams transmitted, over all its starts
    wire           \* datagrams transmitted

counters == <<tuid_hex, session_id, sequence_num, tuids_drawn, position>>
senderVars == <<tuid_hex, session_id, sequence_num, tuids_drawn, position, wire>>

\* 0 and 0xFFFFFFFF are never on the wire.
UsableSequence == 1 .. MaxSequence - 1

Transmission ==
    [sender_id : SenderId, session_id : Nat, seq_num : UsableSequence,
     position : Nat \ {0}]

SenderInit ==
    /\ tuid_hex \in [Sender -> Tuid]
    /\ \A s, t \in Sender : tuid_hex[s] = tuid_hex[t] => s = t
    /\ session_id = [s \in Sender |-> 1]
    /\ sequence_num = [s \in Sender |-> 1]
    /\ tuids_drawn = {tuid_hex[s] : s \in Sender}
    /\ position = [s \in Sender |-> 0]
    /\ wire = {}

-------------------------------------------------------------------------------
IncrementSequence(current_seq) ==
    IF current_seq = MaxSequence THEN 1 ELSE current_seq + 1

ShouldIncrementSession(seq_num) == seq_num = MaxSequence

\* Mutant of AdvanceSequence: the rollover forgets the session.
AdvanceSequenceOnly(s) ==
    LET next == IncrementSequence(sequence_num[s])
    IN  /\ sequence_num' = [sequence_num EXCEPT ![s] =
                              IF ShouldIncrementSession(next) THEN 1 ELSE next]
        /\ UNCHANGED session_id

\* Mutant of AdvanceSequence: the rollover restarts at 0.
AdvanceSequenceToZero(s) ==
    LET next == IncrementSequence(sequence_num[s])
        rollover == ShouldIncrementSession(next)
    IN  /\ sequence_num' = [sequence_num EXCEPT ![s] = IF rollover THEN 0 ELSE next]
        /\ session_id' = [session_id EXCEPT ![s] = IF rollover THEN @ + 1 ELSE @]

\* The counters after a datagram went out: the new sequence number is tested,
\* so MaxSequence itself is never transmitted.
AdvanceSequence(s) ==
    LET next == IncrementSequence(sequence_num[s])
        rollover == ShouldIncrementSession(next)
    IN  /\ sequence_num' = [sequence_num EXCEPT ![s] = IF rollover THEN 1 ELSE next]
        /\ session_id' = [session_id EXCEPT ![s] = IF rollover THEN @ + 1 ELSE @]

Datagram(s, id) ==
    [sender_id |-> id, session_id |-> session_id[s],
     seq_num |-> sequence_num[s], position |-> position[s] + 1]

\* A datagram of one of the program's endpoints is built and transmitted.
SendPacket(s) ==
    \E id \in SenderId :
        /\ id[1] = tuid_hex[s]
        /\ position[s] < MaxTransmissions
        /\ wire' = wire \union {Datagram(s, id)}
        /\ position' = [position EXCEPT ![s] = @ + 1]
        /\ AdvanceSequence(s)
        /\ UNCHANGED <<tuid_hex, tuids_drawn>>

\* The program is started again: the constructor's counters, FormCreate's TUID.
Restart(s) ==
    /\ session_id' = [session_id EXCEPT ![s] = 1]
    /\ sequence_num' = [sequence_num EXCEPT ![s] = 1]
    /\ IF s \in PinnedTuid
       THEN UNCHANGED <<tuid_hex, tuids_drawn>>
       ELSE \E t \in Tuid \ tuids_drawn :
                /\ tuid_hex' = [tuid_hex EXCEPT ![s] = t]
                /\ tuids_drawn' = tuids_drawn \union {t}
    /\ UNCHANGED <<position, wire>>

SenderNext == \E s \in Sender : SendPacket(s) \/ Restart(s)

SenderSpec == SenderInit /\ [][SenderNext]_senderVars

-------------------------------------------------------------------------------
(***************************************************************************)
(* Properties                                                               *)
(***************************************************************************)

\* Types of the counters and of what was transmitted: no program ever stamps 0
\* or MaxSequence (IncrementSequence, ShouldIncrementSession).
SenderTypeOK ==
    /\ tuid_hex \in [Sender -> Tuid]
    /\ session_id \in [Sender -> Nat]
    /\ sequence_num \in [Sender -> UsableSequence]
    /\ tuids_drawn \subseteq Tuid
    /\ position \in [Sender -> Nat]
    /\ wire \subseteq Transmission

Before(p, q) ==
    \/ p.session_id < q.session_id
    \/ p.session_id = q.session_id /\ p.seq_num < q.seq_num

SameDevice(p, q) == p.sender_id[1] = q.sender_id[1]

\* The datagrams of a device carry pairs that grow in the order they were
\* transmitted, whatever mix of endpoints sent them and across the rollover of
\* the sequence number: no pair is used twice and none goes back
\* (IncrementSequence, ShouldIncrementSession and their callers).
PairsFollowTransmission ==
    \A p, q \in wire :
        SameDevice(p, q) /\ p.position < q.position => Before(p, q)

===============================================================================

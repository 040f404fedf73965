------------------------------ MODULE ReplayGuard ------------------------------
(***************************************************************************)
(* What the freshness tracker promises its caller, without any table: a     *)
(* sender heard less than ReclaimAge ago is held to its last (session,      *)
(* sequence) pair, and its device to the last session.  Nothing is promised *)
(* about a sender that has been silent longer, or across a restart.         *)
(***************************************************************************)
EXTENDS Integers

CONSTANTS Tuid, SenderId, ReclaimAge, TickMod, MaxSession, MaxSequence

VARIABLES heard_sender, heard_tuid

vars == <<heard_sender, heard_tuid>>

Datagram == [sender_id : SenderId, session_id : 0 .. MaxSession,
             seq_num : 0 .. MaxSequence]

UnknownSender == [silence |-> TickMod, session_id |-> 0, seq_num |-> 0]
UnknownDevice == [silence |-> TickMod, session_id |-> 0]

Forgotten ==
    /\ heard_sender = [s \in SenderId |-> UnknownSender]
    /\ heard_tuid = [t \in Tuid |-> UnknownDevice]

Remembered(heard) == heard.silence < ReclaimAge

\* The lexicographic order on (session, sequence).
Newer(p, heard) ==
    \/ heard.session_id < p.session_id
    \/ heard.session_id = p.session_id /\ heard.seq_num < p.seq_num

MayAdmit(p) ==
    LET sender == heard_sender[p.sender_id]
        device == heard_tuid[p.sender_id[1]]
    IN  /\ Remembered(sender) => Newer(p, sender)
        /\ Remembered(device) => device.session_id <= p.session_id

Admit(p) ==
    /\ MayAdmit(p)
    /\ heard_sender' = [heard_sender EXCEPT ![p.sender_id] =
                          [silence |-> 0, session_id |-> p.session_id,
                           seq_num |-> p.seq_num]]
    /\ heard_tuid' = [heard_tuid EXCEPT ![p.sender_id[1]] =
                          [silence |-> 0, session_id |-> p.session_id]]

Restart == Forgotten'

\* A whole period of the tick without a datagram counts as never heard.
GrowSilent ==
    LET longer(h, never) == IF h.silence < TickMod - 1
                            THEN [h EXCEPT !.silence = @ + 1] ELSE never
    IN  /\ heard_sender' = [s \in SenderId |->
                              longer(heard_sender[s], UnknownSender)]
        /\ heard_tuid' = [t \in Tuid |-> longer(heard_tuid[t], UnknownDevice)]

Next == (\E p \in Datagram : Admit(p)) \/ Restart \/ GrowSilent

Spec == Forgotten /\ [][Next]_vars

===============================================================================

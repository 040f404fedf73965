--------------------------- MODULE FreshnessTracker ---------------------------
(***************************************************************************)
(* The receiver's freshness tracker (sig-net-node-udp-listen.hpp): two      *)
(* fixed tables of slots, one keyed by TUID that remembers the newest       *)
(* session of a device, one keyed by Sender-ID (TUID plus endpoint) that    *)
(* remembers the newest (session, sequence) pair of an endpoint.  A call of *)
(* ValidateAndCommitFreshness decides whether a datagram is new, and takes  *)
(* or recycles a slot for a sender the tables do not know.                  *)
(*                                                                          *)
(* Time is the uint32 millisecond tick the caller passes: now_ms wraps at   *)
(* TickMod (2^32 in the code).  The network is the most general one: any    *)
(* datagram may arrive at any moment, so late, duplicated, reordered and    *)
(* lost datagrams are all here.                                             *)
(*                                                                          *)
(* heard_sender and heard_tuid are history variables: what the caller was   *)
(* told is fresh, and how long ago.  No action reads them.                  *)
(***************************************************************************)
EXTENDS SenderIdentity

CONSTANTS
    Zeroed,       \* the identifier bytes of a slot that was never used
    SlotCount,    \* slots of each table (32 in the code)
    ReclaimAge,   \* silence after which a slot may be recycled (3600000 ms)
    TickMod,      \* the tick wraps here (2^32)
    MaxSession    \* largest session_id (2^32 - 1)

ASSUME ZeroedAssumption == Zeroed \notin Tuid /\ Zeroed \notin SenderId
ASSUME SlotCountAssumption == SlotCount \in Nat \ {0}
ASSUME TimeAssumption ==
    /\ TickMod \in Nat /\ ReclaimAge \in Nat
    /\ 0 < ReclaimAge /\ ReclaimAge < TickMod
ASSUME WidthAssumption == MaxSession \in Nat /\ MaxSequence \in Nat

Slots == 1 .. SlotCount
NoSlot == 0
Tick == 0 .. TickMod - 1
Session == 0 .. MaxSession
Sequence == 0 .. MaxSequence

\* The options of a datagram that the tracker reads.
Packet == [sender_id : SenderId, session_id : Session, seq_num : Sequence]

SessionTrackEntry ==
    [used : BOOLEAN, sender_tuid : Tuid \union {Zeroed},
     session_id : Session, last_seen_ms : Tick]

SequenceTrackEntry ==
    [used : BOOLEAN, sender_id : SenderId \union {Zeroed},
     session_id : Session, sequence_num : Sequence, last_seen_ms : Tick]

VARIABLES
    now_ms,
    session_tracks,
    sequence_tracks,
    heard_sender,     \* Sender-ID -> last pair accepted and silence since
    heard_tuid        \* TUID -> last session accepted and silence since

tracker == <<session_tracks, sequence_tracks>>
trackerVars == <<now_ms, session_tracks, sequence_tracks, heard_sender, heard_tuid>>

\* TickMod stands for "never heard, or not for a whole period of the tick".
Silence == 0 .. TickMod

EmptySessionTracks ==
    [i \in Slots |-> [used |-> FALSE, sender_tuid |-> Zeroed,
                      session_id |-> 0, last_seen_ms |-> 0]]

EmptySequenceTracks ==
    [i \in Slots |-> [used |-> FALSE, sender_id |-> Zeroed, session_id |-> 0,
                      sequence_num |-> 0, last_seen_ms |-> 0]]

SenderNeverHeard == [silence |-> TickMod, session_id |-> 0, seq_num |-> 0]
TuidNeverHeard == [silence |-> TickMod, session_id |-> 0]

TrackerInit ==
    /\ now_ms \in Tick
    /\ session_tracks = EmptySessionTracks
    /\ sequence_tracks = EmptySequenceTracks
    /\ heard_sender = [s \in SenderId |-> SenderNeverHeard]
    /\ heard_tuid = [t \in Tuid |-> TuidNeverHeard]

-------------------------------------------------------------------------------
\* Table scans

First(S) == CHOOSE i \in S : \A j \in S : i <= j

FirstOrNoSlot(S) == IF S = {} THEN NoSlot ELSE First(S)

FindSessionTrack(tuid) ==
    FirstOrNoSlot({i \in Slots : session_tracks[i].used
                                 /\ session_tracks[i].sender_tuid = tuid})

FindSequenceTrack(id) ==
    FirstOrNoSlot({i \in Slots : sequence_tracks[i].used
                                 /\ sequence_tracks[i].sender_id = id})

\* The unsigned 32-bit difference now_ms - last_seen_ms.
Age(last_seen_ms) ==
    IF last_seen_ms <= now_ms THEN now_ms - last_seen_ms
                              ELSE now_ms + TickMod - last_seen_ms

Unused(tracks) == {i \in Slots : ~tracks[i].used}

\* Mutant of Expired: a slot must be idle for longer than ReclaimAge.
ExpiredLate(tracks) ==
    {i \in Slots : /\ Age(tracks[i].last_seen_ms) > ReclaimAge
                   /\ \A j \in Slots : Age(tracks[j].last_seen_ms)
                                         <= Age(tracks[i].last_seen_ms)}

\* The slots no other is older than, once even those are old enough.
Expired(tracks) ==
    {i \in Slots : /\ Age(tracks[i].last_seen_ms) >= ReclaimAge
                   /\ \A j \in Slots : Age(tracks[j].last_seen_ms)
                                         <= Age(tracks[i].last_seen_ms)}

\* Mutant of AcquireTrackSlot: the oldest slot is taken whatever its age.
AcquireTrackSlotAnyAge(tracks) ==
    IF Unused(tracks) # {} THEN First(Unused(tracks))
    ELSE First({i \in Slots : \A j \in Slots : Age(tracks[j].last_seen_ms)
                                                <= Age(tracks[i].last_seen_ms)})

\* AcquireSessionTrackSlot and AcquireSequenceTrackSlot are the same scan: the
\* first slot never used, else the oldest slot if it is idle for ReclaimAge.
AcquireTrackSlot(tracks) ==
    IF Unused(tracks) # {} THEN First(Unused(tracks))
                           ELSE FirstOrNoSlot(Expired(tracks))

-------------------------------------------------------------------------------
\* ValidateAndCommitFreshness

TuidOf(p) == p.sender_id[1]

\* Mutant of SessionSlot: a slot is acquired without looking for the TUID's own.
SessionSlotAlwaysAcquired(p) == AcquireTrackSlot(session_tracks)

SessionSlot(p) ==
    LET found == FindSessionTrack(TuidOf(p))
    IN  IF found # NoSlot THEN found ELSE AcquireTrackSlot(session_tracks)

\* Mutant of SequenceSlot: the same for the Sender-ID.
SequenceSlotAlwaysAcquired(p) == AcquireTrackSlot(sequence_tracks)

SequenceSlot(p) ==
    LET found == FindSequenceTrack(p.sender_id)
    IN  IF found # NoSlot THEN found ELSE AcquireTrackSlot(sequence_tracks)

SessionTooOld(p) ==
    LET found == FindSessionTrack(TuidOf(p))
    IN  found # NoSlot /\ p.session_id < session_tracks[found].session_id

\* Mutant of SequenceNotNewer: the sequence number alone is compared.
SequenceNotNewerAnySession(p) ==
    LET found == FindSequenceTrack(p.sender_id)
    IN  found # NoSlot /\ p.seq_num <= sequence_tracks[found].sequence_num

\* Mutant of SequenceNotNewer: the number seen last is let in again.
SequenceOlder(p) ==
    LET found == FindSequenceTrack(p.sender_id)
        track == sequence_tracks[found]
    IN  /\ found # NoSlot
        /\ \/ p.session_id < track.session_id
           \/ p.session_id = track.session_id /\ p.seq_num < track.sequence_num

SequenceNotNewer(p) ==
    LET found == FindSequenceTrack(p.sender_id)
        track == sequence_tracks[found]
    IN  /\ found # NoSlot
        /\ \/ p.session_id < track.session_id
           \/ p.session_id = track.session_id /\ p.seq_num <= track.sequence_num

\* The first half succeeds: the session is acceptable and has a slot.
SessionAdmitted(p) == ~SessionTooOld(p) /\ SessionSlot(p) # NoSlot

\* The value ValidateAndCommitFreshness returns.
IsFresh(p) ==
    SessionAdmitted(p) /\ ~SequenceNotNewer(p) /\ SequenceSlot(p) # NoSlot

\* A TUID without a slot gets one before the sequence is looked at, with
\* session 0 and whatever last_seen_ms the slot held.
SessionTracksOpenedFor(p) ==
    IF FindSessionTrack(TuidOf(p)) # NoSlot
    THEN session_tracks
    ELSE [session_tracks EXCEPT
            ![SessionSlot(p)] = [used |-> TRUE, sender_tuid |-> TuidOf(p),
                                 session_id |-> 0,
                                 last_seen_ms |-> @.last_seen_ms]]

AcceptFresh(p) ==
    /\ IsFresh(p)
    /\ session_tracks' =
         [session_tracks EXCEPT
            ![SessionSlot(p)] = [used |-> TRUE, sender_tuid |-> TuidOf(p),
                                 session_id |-> p.session_id,
                                 last_seen_ms |-> now_ms]]
    /\ sequence_tracks' =
         [sequence_tracks EXCEPT
            ![SequenceSlot(p)] = [used |-> TRUE, sender_id |-> p.sender_id,
                                  session_id |-> p.session_id,
                                  sequence_num |-> p.seq_num,
                                  last_seen_ms |-> now_ms]]
    /\ heard_sender' =
         [heard_sender EXCEPT
            ![p.sender_id] = [silence |-> 0, session_id |-> p.session_id,
                              seq_num |-> p.seq_num]]
    /\ heard_tuid' =
         [heard_tuid EXCEPT
            ![TuidOf(p)] = [silence |-> 0, session_id |-> p.session_id]]
    /\ UNCHANGED now_ms

\* Rejected by the session half: nothing is written.
RejectSession(p) ==
    /\ ~SessionAdmitted(p)
    /\ UNCHANGED trackerVars

\* Rejected by the sequence half: the session slot opened on the way stays.
RejectSequence(p) ==
    /\ SessionAdmitted(p)
    /\ ~IsFresh(p)
    /\ session_tracks' = SessionTracksOpenedFor(p)
    /\ UNCHANGED <<now_ms, sequence_tracks, heard_sender, heard_tuid>>

ValidateAndCommitFreshness(p) ==
    AcceptFresh(p) \/ RejectSession(p) \/ RejectSequence(p)

\* The receiving program starts again.
ResetFreshnessTracker ==
    /\ session_tracks' = EmptySessionTracks
    /\ sequence_tracks' = EmptySequenceTracks
    /\ heard_sender' = [s \in SenderId |-> SenderNeverHeard]
    /\ heard_tuid' = [t \in Tuid |-> TuidNeverHeard]
    /\ UNCHANGED now_ms

\* One more millisecond of silence; a whole period of it counts as never heard.
Longer(heard, never) ==
    IF heard.silence + 1 < TickMod
    THEN [heard EXCEPT !.silence = @ + 1] ELSE never

\* Mutant of TrackerTimePasses: the tick does not wrap.
TrackerTimePassesUnwrapped ==
    /\ now_ms' = now_ms + 1
    /\ UNCHANGED <<session_tracks, sequence_tracks, heard_sender, heard_tuid>>

TrackerTimePasses ==
    /\ now_ms' = IF now_ms = TickMod - 1 THEN 0 ELSE now_ms + 1
    /\ heard_sender' = [s \in SenderId |->
                          Longer(heard_sender[s], SenderNeverHeard)]
    /\ heard_tuid' = [t \in Tuid |-> Longer(heard_tuid[t], TuidNeverHeard)]
    /\ UNCHANGED tracker

TrackerNext ==
    \/ \E p \in Packet : ValidateAndCommitFreshness(p)
    \/ ResetFreshnessTracker
    \/ TrackerTimePasses

TrackerSpec == TrackerInit /\ [][TrackerNext]_trackerVars

-------------------------------------------------------------------------------
(***************************************************************************)
(* Properties                                                               *)
(***************************************************************************)

\* Types.  Both tables, the tick and the history hold values of their widths.
TrackerTypeOK ==
    /\ now_ms \in Tick
    /\ session_tracks \in [Slots -> SessionTrackEntry]
    /\ sequence_tracks \in [Slots -> SequenceTrackEntry]
    /\ heard_sender \in [SenderId -> [silence : Silence, session_id : Session,
                                      seq_num : Sequence]]
    /\ heard_tuid \in [Tuid -> [silence : Silence, session_id : Session]]

OneSlotPerTuid ==
    \A i, j \in Slots :
        /\ session_tracks[i].used /\ session_tracks[j].used
        /\ session_tracks[i].sender_tuid = session_tracks[j].sender_tuid
        => i = j

OneSlotPerSender ==
    \A i, j \in Slots :
        /\ sequence_tracks[i].used /\ sequence_tracks[j].used
        /\ sequence_tracks[i].sender_id = sequence_tracks[j].sender_id
        => i = j

\* No two slots of a table ever track the same sender, in whatever order slots
\* are opened, recycled and half-committed: the scans return the first match,
\* so a second slot would hold a floor that is never compared again
\* (FindSessionTrack, FindSequenceTrack).
UniqueTracks == OneSlotPerTuid /\ OneSlotPerSender

Recent(heard) == heard.silence < ReclaimAge

SenderTracked(id) ==
    \E i \in Slots :
        /\ sequence_tracks[i].used
        /\ sequence_tracks[i].sender_id = id
        /\ sequence_tracks[i].session_id = heard_sender[id].session_id
        /\ sequence_tracks[i].sequence_num = heard_sender[id].seq_num
        /\ Age(sequence_tracks[i].last_seen_ms) = heard_sender[id].silence

TuidTracked(tuid) ==
    \E i \in Slots :
        /\ session_tracks[i].used
        /\ session_tracks[i].sender_tuid = tuid
        /\ session_tracks[i].session_id = heard_tuid[tuid].session_id
        /\ Age(session_tracks[i].last_seen_ms) = heard_tuid[tuid].silence

\* Whoever was accepted less than ReclaimAge ago still has its slots, holding
\* exactly what was accepted last, with the right age across the wrap of the
\* tick.  Every other sender's arrival, rejection half way and recycling in
\* between leaves them alone (AcquireSessionTrackSlot,
\* AcquireSequenceTrackSlot, ValidateAndCommitFreshness).
RecentlyHeardTracked ==
    /\ \A id \in SenderId : Recent(heard_sender[id]) => SenderTracked(id)
    /\ \A t \in Tuid : Recent(heard_tuid[t]) => TuidTracked(t)

NewerThan(p, heard) ==
    \/ heard.session_id < p.session_id
    \/ heard.session_id = p.session_id /\ heard.seq_num < p.seq_num

\* A sender heard less than ReclaimAge ago is never refused a newer datagram:
\* not when both tables are full, and not because of what other devices sent.
\* Only its own device's session, moved on by another endpoint, can hold it
\* back (ValidateAndCommitFreshness).
KnownSenderServed ==
    \A p \in Packet :
        /\ Recent(heard_sender[p.sender_id])
        /\ NewerThan(p, heard_sender[p.sender_id])
        /\ heard_tuid[TuidOf(p)].session_id <= p.session_id
        => IsFresh(p)

\* Silent for ReclaimAge but not for a whole period of the tick.
GoneQuiet(heard) == ReclaimAge <= heard.silence /\ heard.silence < TickMod

\* When every tracked sender has gone quiet, a device nobody tracks is let in:
\* session slots opened for datagrams that were then refused cannot hold the
\* table against newcomers.
QuietTableHasRoom ==
    \A p \in Packet :
        /\ FindSessionTrack(TuidOf(p)) = NoSlot
        /\ FindSequenceTrack(p.sender_id) = NoSlot
        /\ \A i \in Slots : sequence_tracks[i].used
                            => GoneQuiet(heard_sender[sequence_tracks[i].sender_id])
        => IsFresh(p)

Guard == INSTANCE ReplayGuard WITH
    heard_sender <- heard_sender,
    heard_tuid <- heard_tuid

\* The tables implement the promise of ReplayGuard: every datagram reported
\* fresh is newer than the last one of its endpoint, and of no older session
\* than its device's, unless that sender has been silent for ReclaimAge.
KeepsPromise == Guard!Spec

===============================================================================

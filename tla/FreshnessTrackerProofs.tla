------------------------ MODULE FreshnessTrackerProofs ------------------------
(***************************************************************************)
(* Theorems about the freshness tracker, for any number of slots, devices,  *)
(* endpoints, any reclaim age and any width of the tick.                    *)
(***************************************************************************)
EXTENDS FreshnessTracker, WellFoundedInduction, TLAPS

USE SenderIdAssumption, ZeroedAssumption, SlotCountAssumption, TimeAssumption,
    WidthAssumption

-------------------------------------------------------------------------------
\* The table scans

\* A nonempty set of numbers has a least one.
LEMMA LeastExists ==
    ASSUME NEW S \in SUBSET Nat, S # {}
    PROVE  \E i \in S : \A j \in S : i <= j
<1>. DEFINE LessThan == {ss \in Nat \X Nat : ss[1] < ss[2]}
<1>1. IsWellFoundedOn(LessThan, Nat)
  BY NatLessThanWellFounded, Zenon DEF OpToRel
<1>2. PICK i \in S : \A j \in S : <<j, i>> \notin LessThan
  <2>. HIDE DEF LessThan
  <2>. QED
    BY <1>1, WFMin, Zenon
<1>3. ASSUME NEW j \in S
      PROVE  i <= j
  <2>1. <<j, i>> \in Nat \X Nat /\ i \in Nat /\ j \in Nat
    OBVIOUS
  <2>2. j < i => <<j, i>> \in LessThan
    BY <2>1
  <2>3. ~(j < i)
    BY <1>2, <2>2
  <2>. QED
    BY <2>1, <2>3
<1>. QED
  BY <1>3

\* A nonempty set of slot numbers has a least element, the one First returns.
LEMMA FirstIsLeast ==
    ASSUME NEW S \in SUBSET Slots, S # {}
    PROVE  First(S) \in S /\ \A j \in S : First(S) <= j
<1>1. S \in SUBSET Nat
  BY DEF Slots
<1>2. PICK i \in S : \A j \in S : i <= j
  BY <1>1, LeastExists
<1>. QED
  BY <1>2, Zenon DEF First

\* A scan returns one of the matching slots, or NoSlot when nothing matches.
LEMMA FirstOrNoSlotIs ==
    ASSUME NEW S \in SUBSET Slots
    PROVE  /\ FirstOrNoSlot(S) # NoSlot => FirstOrNoSlot(S) \in S
           /\ FirstOrNoSlot(S) = NoSlot => S = {}
<1>1. S # {} => First(S) \in S
  BY FirstIsLeast
<1>2. 0 \notin Slots
  BY DEF Slots
<1>. QED
  BY <1>1, <1>2 DEF FirstOrNoSlot, NoSlot

\* FindSessionTrack returns a slot that tracks the TUID, or there is none.
LEMMA FindSessionTrackIs ==
    ASSUME NEW t
    PROVE  LET f == FindSessionTrack(t) IN
           /\ f # NoSlot => /\ f \in Slots
                            /\ session_tracks[f].used
                            /\ session_tracks[f].sender_tuid = t
           /\ f = NoSlot => \A i \in Slots : session_tracks[i].used
                                => session_tracks[i].sender_tuid # t
<1>. DEFINE M == {i \in Slots : session_tracks[i].used
                                /\ session_tracks[i].sender_tuid = t}
<1>1. M \in SUBSET Slots
  OBVIOUS
<1>2. FindSessionTrack(t) = FirstOrNoSlot(M)
  BY DEF FindSessionTrack
<1>. QED
  BY <1>1, <1>2, FirstOrNoSlotIs

\* FindSequenceTrack returns a slot that tracks the Sender-ID, or there is none.
LEMMA FindSequenceTrackIs ==
    ASSUME NEW id
    PROVE  LET f == FindSequenceTrack(id) IN
           /\ f # NoSlot => /\ f \in Slots
                            /\ sequence_tracks[f].used
                            /\ sequence_tracks[f].sender_id = id
           /\ f = NoSlot => \A i \in Slots : sequence_tracks[i].used
                                => sequence_tracks[i].sender_id # id
<1>. DEFINE M == {i \in Slots : sequence_tracks[i].used
                                /\ sequence_tracks[i].sender_id = id}
<1>1. M \in SUBSET Slots
  OBVIOUS
<1>2. FindSequenceTrack(id) = FirstOrNoSlot(M)
  BY DEF FindSequenceTrack
<1>. QED
  BY <1>1, <1>2, FirstOrNoSlotIs

\* An acquired slot was never used, or has been idle for ReclaimAge.
LEMMA AcquireTrackSlotIs ==
    ASSUME NEW tracks, AcquireTrackSlot(tracks) # NoSlot
    PROVE  LET s == AcquireTrackSlot(tracks) IN
           /\ s \in Slots
           /\ ~tracks[s].used \/ Age(tracks[s].last_seen_ms) >= ReclaimAge
<1>1. CASE Unused(tracks) # {}
  <2>1. Unused(tracks) \in SUBSET Slots
    BY DEF Unused
  <2>2. First(Unused(tracks)) \in Unused(tracks)
    BY <1>1, <2>1, FirstIsLeast
  <2>. QED
    BY <1>1, <2>2 DEF AcquireTrackSlot, Unused
<1>2. CASE Unused(tracks) = {}
  <2>1. Expired(tracks) \in SUBSET Slots
    BY DEF Expired
  <2>2. FirstOrNoSlot(Expired(tracks)) \in Expired(tracks)
    BY <1>2, <2>1, FirstOrNoSlotIs DEF AcquireTrackSlot
  <2>. QED
    BY <1>2, <2>2 DEF AcquireTrackSlot, Expired
<1>. QED
  BY <1>1, <1>2

\* The slot a datagram's device is written to: no other slot tracks that device,
\* and a slot taken from another device was idle for ReclaimAge.
LEMMA SessionSlotIs ==
    ASSUME NEW p, SessionSlot(p) # NoSlot, OneSlotPerTuid
    PROVE  LET s == SessionSlot(p) IN
           /\ s \in Slots
           /\ \A j \in Slots : j # s /\ session_tracks[j].used
                  => session_tracks[j].sender_tuid # TuidOf(p)
           /\ session_tracks[s].used /\ session_tracks[s].sender_tuid # TuidOf(p)
                  => Age(session_tracks[s].last_seen_ms) >= ReclaimAge
<1>1. CASE FindSessionTrack(TuidOf(p)) # NoSlot
  BY <1>1, FindSessionTrackIs DEF SessionSlot, OneSlotPerTuid
<1>2. CASE FindSessionTrack(TuidOf(p)) = NoSlot
  <2>1. SessionSlot(p) = AcquireTrackSlot(session_tracks)
    BY <1>2 DEF SessionSlot
  <2>. QED
    BY <1>2, <2>1, FindSessionTrackIs, AcquireTrackSlotIs
<1>. QED
  BY <1>1, <1>2

\* The same for the slot a datagram's Sender-ID is written to.
LEMMA SequenceSlotIs ==
    ASSUME NEW p, SequenceSlot(p) # NoSlot, OneSlotPerSender
    PROVE  LET s == SequenceSlot(p) IN
           /\ s \in Slots
           /\ \A j \in Slots : j # s /\ sequence_tracks[j].used
                  => sequence_tracks[j].sender_id # p.sender_id
           /\ sequence_tracks[s].used /\ sequence_tracks[s].sender_id # p.sender_id
                  => Age(sequence_tracks[s].last_seen_ms) >= ReclaimAge
<1>1. CASE FindSequenceTrack(p.sender_id) # NoSlot
  BY <1>1, FindSequenceTrackIs DEF SequenceSlot, OneSlotPerSender
<1>2. CASE FindSequenceTrack(p.sender_id) = NoSlot
  <2>1. SequenceSlot(p) = AcquireTrackSlot(sequence_tracks)
    BY <1>2 DEF SequenceSlot
  <2>. QED
    BY <1>2, <2>1, FindSequenceTrackIs, AcquireTrackSlotIs
<1>. QED
  BY <1>1, <1>2

\* The identifiers in a datagram's options are a Sender-ID and its TUID.
LEMMA PacketIs ==
    ASSUME NEW p \in Packet
    PROVE  /\ p.sender_id \in SenderId /\ TuidOf(p) \in Tuid
           /\ p.session_id \in Session /\ p.seq_num \in Sequence
BY DEF Packet, TuidOf

-------------------------------------------------------------------------------
\* The inductive invariant

\* A device was heard at least as lately as each of its endpoints.
DeviceHeardLast ==
    \A id \in SenderId : heard_tuid[id[1]].silence <= heard_sender[id].silence

\* RecentlyHeardTracked needs UniqueTracks, so that a slot rewritten for one
\* sender is not another's, and the types, so that ages are differences of
\* ticks.  DeviceHeardLast carries what is known of an endpoint to its device.
TrackerIInv ==
    /\ TrackerTypeOK
    /\ UniqueTracks
    /\ RecentlyHeardTracked
    /\ DeviceHeardLast

\* The empty tables of a node that starts satisfy the invariant.
LEMMA TrackerInitIInv == TrackerInit => TrackerIInv
<1>. SUFFICES ASSUME TrackerInit PROVE TrackerIInv
  OBVIOUS
<1>1. TrackerTypeOK
  BY DEF TrackerInit, TrackerTypeOK, EmptySessionTracks, EmptySequenceTracks,
         SenderNeverHeard, TuidNeverHeard, SessionTrackEntry,
         SequenceTrackEntry, Session, Sequence, Tick, Silence
<1>2. UniqueTracks
  BY DEF TrackerInit, UniqueTracks, OneSlotPerTuid, OneSlotPerSender,
         EmptySessionTracks, EmptySequenceTracks
<1>3. RecentlyHeardTracked
  BY DEF TrackerInit, RecentlyHeardTracked, Recent, SenderNeverHeard, TuidNeverHeard
<1>4. DeviceHeardLast
  <2>1. \A id \in SenderId : id[1] \in Tuid
    OBVIOUS
  <2>. QED
    BY <2>1 DEF TrackerInit, DeviceHeardLast, SenderNeverHeard, TuidNeverHeard
<1>. QED
  BY <1>1, <1>2, <1>3, <1>4 DEF TrackerIInv

\* A receiver that starts again has empty tables and has heard nobody.
LEMMA ResetIInv == ResetFreshnessTracker /\ TrackerIInv => TrackerIInv'
<1>. SUFFICES ASSUME ResetFreshnessTracker, TrackerIInv PROVE TrackerIInv'
  OBVIOUS
<1>1. TrackerTypeOK'
  BY DEF TrackerIInv, ResetFreshnessTracker, TrackerTypeOK, EmptySessionTracks,
         EmptySequenceTracks, SenderNeverHeard, TuidNeverHeard,
         SessionTrackEntry, SequenceTrackEntry, Session, Sequence, Tick, Silence
<1>2. UniqueTracks'
  BY DEF ResetFreshnessTracker, UniqueTracks, OneSlotPerTuid,
         OneSlotPerSender, EmptySessionTracks, EmptySequenceTracks
<1>3. RecentlyHeardTracked'
  BY DEF ResetFreshnessTracker, RecentlyHeardTracked, Recent,
         SenderNeverHeard, TuidNeverHeard
<1>4. DeviceHeardLast'
  <2>1. \A id \in SenderId : id[1] \in Tuid
    OBVIOUS
  <2>. QED
    BY <2>1 DEF ResetFreshnessTracker, DeviceHeardLast, SenderNeverHeard,
                TuidNeverHeard
<1>. QED
  BY <1>1, <1>2, <1>3, <1>4 DEF TrackerIInv

\* A tick makes every slot one millisecond older, across the wrap of now_ms.
LEMMA TrackerTimePassesIInv == TrackerTimePasses /\ TrackerIInv => TrackerIInv'
<1>. SUFFICES ASSUME TrackerTimePasses, TrackerIInv PROVE TrackerIInv'
  OBVIOUS
<1>. USE DEF TrackerIInv
<1>1. TrackerTypeOK'
  <2>1. now_ms' \in Tick
    BY DEF TrackerTimePasses, TrackerTypeOK, Tick
  <2>2. heard_sender' \in [SenderId -> [silence : Silence, session_id : Session,
                                      seq_num : Sequence]]
    BY DEF TrackerTimePasses, TrackerTypeOK, Longer, SenderNeverHeard, Silence, Session, Sequence
  <2>3. heard_tuid' \in [Tuid -> [silence : Silence, session_id : Session]]
    BY DEF TrackerTimePasses, TrackerTypeOK, Longer, TuidNeverHeard, Silence, Session
  <2>. QED
    BY <2>1, <2>2, <2>3 DEF TrackerTypeOK, TrackerTimePasses, tracker
<1>2. UniqueTracks'
  BY DEF TrackerTimePasses, tracker, UniqueTracks, OneSlotPerTuid, OneSlotPerSender
<1>3. ASSUME NEW seen \in Tick, Age(seen) + 1 < TickMod
      PROVE  Age(seen)' = Age(seen) + 1
  BY <1>3 DEF TrackerTimePasses, TrackerTypeOK, Tick, Age
<1>4. RecentlyHeardTracked'
  <2>1. ASSUME NEW id \in SenderId, Recent(heard_sender[id])'
        PROVE  SenderTracked(id)'
    <3>1. /\ Recent(heard_sender[id])
          /\ heard_sender'[id] = [heard_sender[id] EXCEPT !.silence = @ + 1]
          /\ heard_sender[id].silence + 1 < TickMod
      BY <2>1 DEF TrackerTimePasses, TrackerTypeOK, Longer, SenderNeverHeard, Recent, Silence
    <3>2. SenderTracked(id)
      BY <3>1 DEF RecentlyHeardTracked
    <3>. QED
      BY <3>1, <3>2, <1>3
      DEF SenderTracked, TrackerTimePasses, tracker, TrackerTypeOK, SequenceTrackEntry
  <2>2. ASSUME NEW t \in Tuid, Recent(heard_tuid[t])'
        PROVE  TuidTracked(t)'
    <3>1. /\ Recent(heard_tuid[t])
          /\ heard_tuid'[t] = [heard_tuid[t] EXCEPT !.silence = @ + 1]
          /\ heard_tuid[t].silence + 1 < TickMod
      BY <2>2 DEF TrackerTimePasses, TrackerTypeOK, Longer, TuidNeverHeard, Recent, Silence
    <3>2. TuidTracked(t)
      BY <3>1 DEF RecentlyHeardTracked
    <3>. QED
      BY <3>1, <3>2, <1>3
      DEF TuidTracked, TrackerTimePasses, tracker, TrackerTypeOK, SessionTrackEntry
  <2>. QED
    BY <2>1, <2>2 DEF RecentlyHeardTracked
<1>5. DeviceHeardLast'
  <2>1. \A id \in SenderId : id[1] \in Tuid
    OBVIOUS
  <2>. QED
    BY <2>1 DEF DeviceHeardLast, TrackerTimePasses, TrackerTypeOK, Longer, SenderNeverHeard,
                TuidNeverHeard, Silence
<1>. QED
  BY <1>1, <1>2, <1>4, <1>5

\* A call rejected by its sequence half may have opened a session slot: it took
\* an unused one or one idle for ReclaimAge.
LEMMA RejectSequenceIInv ==
    ASSUME NEW p \in Packet, RejectSequence(p), TrackerIInv
    PROVE  TrackerIInv'
<1>. USE DEF TrackerIInv
<1>. DEFINE s == SessionSlot(p)
<1>1. /\ s \in Slots /\ TuidOf(p) \in Tuid
      /\ \A j \in Slots : j # s /\ session_tracks[j].used
            => session_tracks[j].sender_tuid # TuidOf(p)
      /\ session_tracks[s].used /\ session_tracks[s].sender_tuid # TuidOf(p)
            => Age(session_tracks[s].last_seen_ms) >= ReclaimAge
  BY SessionSlotIs, PacketIs DEF RejectSequence, SessionAdmitted, UniqueTracks
<1>2. \/ session_tracks' = session_tracks
      \/ /\ \A j \in Slots : session_tracks[j].used
               => session_tracks[j].sender_tuid # TuidOf(p)
         /\ session_tracks' = [session_tracks EXCEPT ![s] =
               [used |-> TRUE, sender_tuid |-> TuidOf(p), session_id |-> 0,
                last_seen_ms |-> session_tracks[s].last_seen_ms]]
  <2>1. CASE FindSessionTrack(TuidOf(p)) # NoSlot
    BY <2>1 DEF RejectSequence, SessionTracksOpenedFor
  <2>2. CASE FindSessionTrack(TuidOf(p)) = NoSlot
    BY <2>2, FindSessionTrackIs DEF RejectSequence, SessionTracksOpenedFor
  <2>. QED
    BY <2>1, <2>2
<1>. HIDE DEF s
<1>3. UNCHANGED <<now_ms, sequence_tracks, heard_sender, heard_tuid>>
  BY DEF RejectSequence
<1>4. TrackerTypeOK'
  <2>1. session_tracks' \in [Slots -> SessionTrackEntry]
    <3>1. session_tracks \in [Slots -> SessionTrackEntry]
      BY DEF TrackerTypeOK
    <3>2. 0 \in Session
      BY DEF Session
    <3>3. [used |-> TRUE, sender_tuid |-> TuidOf(p), session_id |-> 0,
           last_seen_ms |-> session_tracks[s].last_seen_ms] \in SessionTrackEntry
      BY <1>1, <3>1, <3>2 DEF SessionTrackEntry
    <3>. QED
      BY <1>1, <1>2, <3>1, <3>3
  <2>. QED
    BY <1>3, <2>1 DEF TrackerTypeOK
<1>5. UniqueTracks'
  <2>1. OneSlotPerTuid'
    BY <1>1, <1>2 DEF UniqueTracks, OneSlotPerTuid, TrackerTypeOK, SessionTrackEntry
  <2>. QED
    BY <2>1, <1>3 DEF UniqueTracks, OneSlotPerSender
<1>6. RecentlyHeardTracked'
  <2>1. ASSUME NEW id \in SenderId, Recent(heard_sender[id])'
        PROVE  SenderTracked(id)'
    BY <1>3, <2>1 DEF RecentlyHeardTracked, Recent, SenderTracked, Age
  <2>2. ASSUME NEW t \in Tuid, Recent(heard_tuid[t])'
        PROVE  TuidTracked(t)'
    <3>1. Recent(heard_tuid[t])
      BY <1>3, <2>2 DEF Recent
    <3>2. PICK i \in Slots :
             /\ session_tracks[i].used
             /\ session_tracks[i].sender_tuid = t
             /\ session_tracks[i].session_id = heard_tuid[t].session_id
             /\ Age(session_tracks[i].last_seen_ms) = heard_tuid[t].silence
      BY <3>1 DEF RecentlyHeardTracked, TuidTracked
    <3>3. heard_tuid[t].silence < ReclaimAge /\ heard_tuid[t].silence \in Nat
      BY <3>1 DEF Recent, TrackerTypeOK, Silence
    <3>4. session_tracks'[i] = session_tracks[i]
      BY <1>1, <1>2, <3>2, <3>3 DEF TrackerTypeOK
    <3>. QED
      BY <1>3, <3>2, <3>4 DEF TuidTracked, Age
  <2>. QED
    BY <2>1, <2>2 DEF RecentlyHeardTracked
<1>7. DeviceHeardLast'
  BY <1>3 DEF DeviceHeardLast
<1>. QED
  BY <1>4, <1>5, <1>6, <1>7

\* An accepted datagram rewrites one slot of each table for its own sender.
LEMMA AcceptFreshIInv ==
    ASSUME NEW p \in Packet, AcceptFresh(p), TrackerIInv
    PROVE  TrackerIInv'
<1>. USE DEF TrackerIInv
<1>. DEFINE s == SessionSlot(p)
            q == SequenceSlot(p)
            sessionEntry == [used |-> TRUE, sender_tuid |-> TuidOf(p),
                             session_id |-> p.session_id, last_seen_ms |-> now_ms]
            sequenceEntry == [used |-> TRUE, sender_id |-> p.sender_id,
                              session_id |-> p.session_id,
                              sequence_num |-> p.seq_num, last_seen_ms |-> now_ms]
            heardSender == [silence |-> 0, session_id |-> p.session_id,
                            seq_num |-> p.seq_num]
            heardTuid == [silence |-> 0, session_id |-> p.session_id]
<1>1. /\ s \in Slots /\ TuidOf(p) \in Tuid
      /\ \A j \in Slots : j # s /\ session_tracks[j].used
            => session_tracks[j].sender_tuid # TuidOf(p)
      /\ session_tracks[s].used /\ session_tracks[s].sender_tuid # TuidOf(p)
            => Age(session_tracks[s].last_seen_ms) >= ReclaimAge
  BY SessionSlotIs, PacketIs DEF AcceptFresh, IsFresh, SessionAdmitted, UniqueTracks
<1>2. /\ q \in Slots /\ p.sender_id \in SenderId
      /\ \A j \in Slots : j # q /\ sequence_tracks[j].used
            => sequence_tracks[j].sender_id # p.sender_id
      /\ sequence_tracks[q].used /\ sequence_tracks[q].sender_id # p.sender_id
            => Age(sequence_tracks[q].last_seen_ms) >= ReclaimAge
  BY SequenceSlotIs, PacketIs DEF AcceptFresh, IsFresh, UniqueTracks
<1>3. /\ session_tracks' = [session_tracks EXCEPT ![s] = sessionEntry]
      /\ sequence_tracks' = [sequence_tracks EXCEPT ![q] = sequenceEntry]
      /\ heard_sender' = [heard_sender EXCEPT ![p.sender_id] = heardSender]
      /\ heard_tuid' = [heard_tuid EXCEPT ![TuidOf(p)] = heardTuid]
      /\ now_ms' = now_ms
  BY DEF AcceptFresh
<1>4. /\ sessionEntry \in SessionTrackEntry
      /\ sequenceEntry \in SequenceTrackEntry
      /\ heardSender \in [silence : Silence, session_id : Session, seq_num : Sequence]
      /\ heardTuid \in [silence : Silence, session_id : Session]
  BY PacketIs DEF TrackerTypeOK, SessionTrackEntry, SequenceTrackEntry, Silence
<1>5. Age(now_ms) = 0
  BY DEF Age, TrackerTypeOK, Tick
<1>. HIDE DEF s, q
<1>6. TrackerTypeOK'
  <2>. HIDE DEF sessionEntry, sequenceEntry, heardSender, heardTuid
  <2>. QED
    BY <1>1, <1>2, <1>3, <1>4 DEF TrackerTypeOK
<1>7. UniqueTracks'
  <2>1. OneSlotPerTuid'
    BY <1>1, <1>3 DEF UniqueTracks, OneSlotPerTuid, TrackerTypeOK
  <2>2. OneSlotPerSender'
    BY <1>2, <1>3 DEF UniqueTracks, OneSlotPerSender, TrackerTypeOK
  <2>. QED
    BY <2>1, <2>2 DEF UniqueTracks
<1>8. RecentlyHeardTracked'
  <2>1. ASSUME NEW id \in SenderId, Recent(heard_sender[id])'
        PROVE  SenderTracked(id)'
    <3>1. CASE id = p.sender_id
      <4>1. heard_sender'[id] = heardSender /\ sequence_tracks'[q] = sequenceEntry
        BY <1>2, <1>3, <3>1 DEF TrackerTypeOK
      <4>. QED
        BY <1>2, <1>3, <1>5, <3>1, <4>1 DEF SenderTracked, Age
    <3>2. CASE id # p.sender_id
      <4>1. heard_sender'[id] = heard_sender[id]
        BY <1>3, <3>2 DEF TrackerTypeOK
      <4>2. PICK i \in Slots :
               /\ sequence_tracks[i].used
               /\ sequence_tracks[i].sender_id = id
               /\ sequence_tracks[i].session_id = heard_sender[id].session_id
               /\ sequence_tracks[i].sequence_num = heard_sender[id].seq_num
               /\ Age(sequence_tracks[i].last_seen_ms) = heard_sender[id].silence
        BY <2>1, <4>1 DEF RecentlyHeardTracked, SenderTracked, Recent
      <4>3. heard_sender[id].silence < ReclaimAge /\ heard_sender[id].silence \in Nat
        BY <2>1, <4>1 DEF Recent, TrackerTypeOK, Silence
      <4>4. i # q
        BY <1>2, <3>2, <4>2, <4>3
      <4>5. sequence_tracks'[i] = sequence_tracks[i]
        BY <1>3, <4>4 DEF TrackerTypeOK
      <4>. QED
        BY <1>3, <4>1, <4>2, <4>5 DEF SenderTracked, Age
    <3>. QED
      BY <3>1, <3>2
  <2>2. ASSUME NEW t \in Tuid, Recent(heard_tuid[t])'
        PROVE  TuidTracked(t)'
    <3>1. CASE t = TuidOf(p)
      <4>1. heard_tuid'[t] = heardTuid /\ session_tracks'[s] = sessionEntry
        BY <1>1, <1>3, <3>1 DEF TrackerTypeOK
      <4>. QED
        BY <1>1, <1>3, <1>5, <3>1, <4>1 DEF TuidTracked, Age
    <3>2. CASE t # TuidOf(p)
      <4>1. heard_tuid'[t] = heard_tuid[t]
        BY <1>3, <3>2 DEF TrackerTypeOK
      <4>2. PICK i \in Slots :
               /\ session_tracks[i].used
               /\ session_tracks[i].sender_tuid = t
               /\ session_tracks[i].session_id = heard_tuid[t].session_id
               /\ Age(session_tracks[i].last_seen_ms) = heard_tuid[t].silence
        BY <2>2, <4>1 DEF RecentlyHeardTracked, TuidTracked, Recent
      <4>3. heard_tuid[t].silence < ReclaimAge /\ heard_tuid[t].silence \in Nat
        BY <2>2, <4>1 DEF Recent, TrackerTypeOK, Silence
      <4>4. i # s
        BY <1>1, <3>2, <4>2, <4>3
      <4>5. session_tracks'[i] = session_tracks[i]
        BY <1>3, <4>4 DEF TrackerTypeOK
      <4>. QED
        BY <1>3, <4>1, <4>2, <4>5 DEF TuidTracked, Age
    <3>. QED
      BY <3>1, <3>2
  <2>. QED
    BY <2>1, <2>2 DEF RecentlyHeardTracked
<1>9. DeviceHeardLast'
  <2>1. \A id \in SenderId : id[1] \in Tuid
    OBVIOUS
  <2>2. TuidOf(p) = p.sender_id[1]
    BY DEF TuidOf
  <2>. QED
    BY <1>1, <1>2, <1>3, <2>1, <2>2 DEF DeviceHeardLast, TrackerTypeOK, Silence
<1>. QED
  BY <1>6, <1>7, <1>8, <1>9

\* Every step, and every stutter, keeps the invariant.
LEMMA TrackerNextIInv == TrackerIInv /\ [TrackerNext]_trackerVars => TrackerIInv'
<1>. SUFFICES ASSUME TrackerIInv, [TrackerNext]_trackerVars PROVE TrackerIInv'
  OBVIOUS
<1>1. ASSUME NEW p \in Packet, ValidateAndCommitFreshness(p)
      PROVE  TrackerIInv'
  <2>1. CASE AcceptFresh(p)
    BY <2>1, AcceptFreshIInv
  <2>2. CASE RejectSequence(p)
    BY <2>2, RejectSequenceIInv
  <2>3. CASE RejectSession(p)
    BY <2>3 DEF RejectSession, trackerVars, TrackerIInv, TrackerTypeOK,
                UniqueTracks, OneSlotPerTuid,
                OneSlotPerSender, RecentlyHeardTracked, Recent, SenderTracked,
                TuidTracked, Age, DeviceHeardLast
  <2>. QED
    BY <1>1, <2>1, <2>2, <2>3 DEF ValidateAndCommitFreshness
<1>2. CASE ResetFreshnessTracker
  BY <1>2, ResetIInv
<1>3. CASE TrackerTimePasses
  BY <1>3, TrackerTimePassesIInv
<1>4. CASE UNCHANGED trackerVars
  BY <1>4 DEF trackerVars, TrackerIInv, TrackerTypeOK,
              UniqueTracks, OneSlotPerTuid,
              OneSlotPerSender, RecentlyHeardTracked, Recent, SenderTracked,
              TuidTracked, Age, DeviceHeardLast
<1>. QED
  BY <1>1, <1>2, <1>3, <1>4 DEF TrackerNext

\* The inductive invariant holds in every reachable state, and with it its
\* conjuncts: types, unique slots, and the retention of who was just heard.
THEOREM TrackerIInvHolds == TrackerSpec => []TrackerIInv
BY TrackerInitIInv, TrackerNextIInv, PTL DEF TrackerSpec

-------------------------------------------------------------------------------
\* The theorems

\* Type correctness of the tables (SessionTrackEntry, SequenceTrackEntry).
THEOREM TrackerTypeCorrect == TrackerSpec => []TrackerTypeOK
<1>1. TrackerIInv => TrackerTypeOK
  BY DEF TrackerIInv
<1>. QED
  BY <1>1, TrackerIInvHolds, PTL

\* However slots are opened, recycled and half-committed, no sender ever has two
\* (FindSessionTrack, FindSequenceTrack).
THEOREM TracksStayUnique == TrackerSpec => []UniqueTracks
<1>1. TrackerIInv => UniqueTracks
  BY DEF TrackerIInv
<1>. QED
  BY <1>1, TrackerIInvHolds, PTL

\* Whoever was accepted less than ReclaimAge ago keeps its slots and what they
\* hold, whatever the other senders do (AcquireSessionTrackSlot,
\* AcquireSequenceTrackSlot).
THEOREM RecentlyHeardStaysTracked == TrackerSpec => []RecentlyHeardTracked
<1>1. TrackerIInv => RecentlyHeardTracked
  BY DEF TrackerIInv
<1>. QED
  BY <1>1, TrackerIInvHolds, PTL

\* The slot found for a sender heard lately holds what it was heard with.
LEMMA FoundSequenceTrack ==
    ASSUME TrackerIInv, NEW id \in SenderId, Recent(heard_sender[id])
    PROVE  LET f == FindSequenceTrack(id) IN
           /\ f # NoSlot
           /\ sequence_tracks[f].session_id = heard_sender[id].session_id
           /\ sequence_tracks[f].sequence_num = heard_sender[id].seq_num
<1>1. SenderTracked(id)
  BY DEF TrackerIInv, RecentlyHeardTracked
<1>. QED
  BY <1>1, FindSequenceTrackIs
  DEF TrackerIInv, SenderTracked, UniqueTracks, OneSlotPerSender

\* The same for the slot of the sender's device.
LEMMA FoundSessionTrack ==
    ASSUME TrackerIInv, NEW t \in Tuid, Recent(heard_tuid[t])
    PROVE  LET f == FindSessionTrack(t) IN
           /\ f # NoSlot
           /\ session_tracks[f].session_id = heard_tuid[t].session_id
<1>1. TuidTracked(t)
  BY DEF TrackerIInv, RecentlyHeardTracked
<1>. QED
  BY <1>1, FindSessionTrackIs
  DEF TrackerIInv, TuidTracked, UniqueTracks, OneSlotPerTuid

\* What is fresh is newer than what a sender heard lately was heard with.
LEMMA FreshIsNewer ==
    ASSUME TrackerIInv, NEW p \in Packet, IsFresh(p), Recent(heard_sender[p.sender_id])
    PROVE  NewerThan(p, heard_sender[p.sender_id])
<1>1. p.sender_id \in SenderId
  BY PacketIs
<1>2. /\ heard_sender[p.sender_id].session_id \in Nat
      /\ heard_sender[p.sender_id].seq_num \in Nat
      /\ p.session_id \in Nat /\ p.seq_num \in Nat
  BY <1>1, PacketIs DEF TrackerIInv, TrackerTypeOK, Session, Sequence
<1>3. ~SequenceNotNewer(p)
  BY DEF IsFresh
<1>. QED
  BY <1>1, <1>2, <1>3, FoundSequenceTrack DEF SequenceNotNewer, NewerThan

\* And what is newer is fresh, if its device has not moved on.
LEMMA NewerIsFresh ==
    ASSUME TrackerIInv, NEW p \in Packet,
           Recent(heard_sender[p.sender_id]),
           NewerThan(p, heard_sender[p.sender_id]),
           heard_tuid[TuidOf(p)].session_id <= p.session_id
    PROVE  IsFresh(p)
<1>1. p.sender_id \in SenderId /\ TuidOf(p) \in Tuid
  BY PacketIs
<1>2. Recent(heard_tuid[TuidOf(p)])
  BY <1>1 DEF TrackerIInv, DeviceHeardLast, Recent, TuidOf, TrackerTypeOK, Silence
<1>3. /\ FindSessionTrack(TuidOf(p)) # NoSlot
      /\ session_tracks[FindSessionTrack(TuidOf(p))].session_id
           = heard_tuid[TuidOf(p)].session_id
  BY <1>1, <1>2, FoundSessionTrack
<1>4. /\ FindSequenceTrack(p.sender_id) # NoSlot
      /\ sequence_tracks[FindSequenceTrack(p.sender_id)].session_id
           = heard_sender[p.sender_id].session_id
      /\ sequence_tracks[FindSequenceTrack(p.sender_id)].sequence_num
           = heard_sender[p.sender_id].seq_num
  BY <1>1, FoundSequenceTrack
<1>5. /\ heard_sender[p.sender_id].session_id \in Nat
      /\ heard_sender[p.sender_id].seq_num \in Nat
      /\ heard_tuid[TuidOf(p)].session_id \in Nat
      /\ p.session_id \in Nat /\ p.seq_num \in Nat
  BY <1>1, PacketIs DEF TrackerIInv, TrackerTypeOK, Session, Sequence
<1>6. SessionAdmitted(p)
  BY <1>3, <1>5 DEF SessionAdmitted, SessionTooOld, SessionSlot
<1>7. ~SequenceNotNewer(p)
  BY <1>4, <1>5 DEF SequenceNotNewer, NewerThan
<1>8. SequenceSlot(p) # NoSlot
  BY <1>4 DEF SequenceSlot
<1>. QED
  BY <1>6, <1>7, <1>8 DEF IsFresh

\* A sender heard less than ReclaimAge ago is never refused a newer datagram for
\* want of a slot or because of another device (ValidateAndCommitFreshness).
THEOREM KnownSenderIsServed == TrackerSpec => []KnownSenderServed
<1>1. TrackerIInv => KnownSenderServed
  BY NewerIsFresh DEF KnownSenderServed
<1>. QED
  BY <1>1, TrackerIInvHolds, PTL

-------------------------------------------------------------------------------
\* A quiet table has room

\* The age of a tracked sender is its silence while that is less than a wrap,
\* however long ago it was heard.
SequenceAges ==
    \A j \in Slots : sequence_tracks[j].used =>
        /\ sequence_tracks[j].sender_id \in SenderId
        /\ heard_sender[sequence_tracks[j].sender_id].silence < TickMod
             => Age(sequence_tracks[j].last_seen_ms)
                  = heard_sender[sequence_tracks[j].sender_id].silence

\* The tick of what was accepted last is in both tables: the session slot has
\* kept it even where it was opened since for a datagram that was refused.
LastAcceptedStays ==
    (\E j \in Slots : sequence_tracks[j].used) =>
        \E i, j \in Slots :
            /\ sequence_tracks[j].used
            /\ session_tracks[i].last_seen_ms = sequence_tracks[j].last_seen_ms

\* No session slot is opened before a datagram was accepted.
SessionsFollowSequences ==
    (\E i \in Slots : session_tracks[i].used)
        => \E j \in Slots : sequence_tracks[j].used

QuietIInv ==
    /\ TrackerIInv
    /\ SequenceAges
    /\ LastAcceptedStays
    /\ SessionsFollowSequences

\* A datagram its sequence half refuses finds a sequence slot in use.
LEMMA RefusedForASlot ==
    ASSUME NEW p, RejectSequence(p)
    PROVE  \E j \in Slots : sequence_tracks[j].used
<1>1. SequenceNotNewer(p) \/ SequenceSlot(p) = NoSlot
  BY DEF RejectSequence, IsFresh
<1>2. CASE FindSequenceTrack(p.sender_id) # NoSlot
  BY <1>2, FindSequenceTrackIs
<1>3. CASE FindSequenceTrack(p.sender_id) = NoSlot
  <2>1. AcquireTrackSlot(sequence_tracks) = NoSlot
    BY <1>1, <1>3 DEF SequenceNotNewer, SequenceSlot
  <2>2. Unused(sequence_tracks) = {}
    <3>1. Unused(sequence_tracks) \in SUBSET Slots /\ NoSlot \notin Slots
      BY DEF Unused, Slots, NoSlot
    <3>. QED
      BY <2>1, <3>1, FirstIsLeast DEF AcquireTrackSlot
  <2>3. 1 \in Slots
    BY DEF Slots
  <2>. QED
    BY <2>2, <2>3 DEF Unused
<1>. QED
  BY <1>2, <1>3

\* A call that is refused writes no tick and no sequence slot.
LEMMA RejectQuietIInv ==
    ASSUME QuietIInv, NEW p \in Packet, RejectSession(p) \/ RejectSequence(p)
    PROVE  QuietIInv'
<1>1. TrackerIInv'
  BY RejectSequenceIInv, TrackerNextIInv
  DEF QuietIInv, TrackerNext, ValidateAndCommitFreshness
<1>2. UNCHANGED <<now_ms, sequence_tracks, heard_sender>>
  BY DEF RejectSession, RejectSequence, trackerVars
<1>3. SequenceAges'
  BY <1>2 DEF QuietIInv, SequenceAges, Age
<1>4. \A i \in Slots : session_tracks'[i].last_seen_ms = session_tracks[i].last_seen_ms
  <2>1. CASE session_tracks' = session_tracks
    BY <2>1
  <2>2. CASE session_tracks' # session_tracks
    BY <2>2 DEF RejectSession, RejectSequence, SessionTracksOpenedFor, trackerVars,
                QuietIInv, TrackerIInv, TrackerTypeOK
  <2>. QED
    BY <2>1, <2>2
<1>5. LastAcceptedStays'
  BY <1>2, <1>4 DEF QuietIInv, LastAcceptedStays
<1>6. SessionsFollowSequences'
  BY <1>2, RefusedForASlot DEF QuietIInv, SessionsFollowSequences, RejectSession,
                               trackerVars
<1>. QED
  BY <1>1, <1>3, <1>5, <1>6 DEF QuietIInv

\* An accepted datagram writes the present tick to both tables.
LEMMA AcceptQuietIInv ==
    ASSUME QuietIInv, NEW p \in Packet, AcceptFresh(p)
    PROVE  QuietIInv'
<1>. DEFINE s == SessionSlot(p)
            q == SequenceSlot(p)
<1>1. TrackerIInv'
  BY AcceptFreshIInv DEF QuietIInv
<1>2. /\ s \in Slots /\ q \in Slots
      /\ \A j \in Slots : j # q /\ sequence_tracks[j].used
            => sequence_tracks[j].sender_id # p.sender_id
  BY SessionSlotIs, SequenceSlotIs
  DEF AcceptFresh, IsFresh, SessionAdmitted, QuietIInv, TrackerIInv, UniqueTracks
<1>3. /\ p.sender_id \in SenderId /\ now_ms' = now_ms /\ now_ms \in Tick
  BY PacketIs DEF AcceptFresh, QuietIInv, TrackerIInv, TrackerTypeOK
<1>. HIDE DEF s, q
<1>4. /\ session_tracks'[s].used /\ session_tracks'[s].last_seen_ms = now_ms
      /\ sequence_tracks'[q].used /\ sequence_tracks'[q].last_seen_ms = now_ms
      /\ sequence_tracks'[q].sender_id = p.sender_id
      /\ \A j \in Slots : j # q => sequence_tracks'[j] = sequence_tracks[j]
  BY <1>2 DEF AcceptFresh, s, q, QuietIInv, TrackerIInv, TrackerTypeOK
<1>5. /\ heard_sender'[p.sender_id].silence = 0
      /\ \A id \in SenderId : id # p.sender_id => heard_sender'[id] = heard_sender[id]
  BY <1>3 DEF AcceptFresh, QuietIInv, TrackerIInv, TrackerTypeOK
<1>6. SequenceAges'
  <2>. SUFFICES ASSUME NEW j \in Slots, sequence_tracks'[j].used
                PROVE  /\ sequence_tracks'[j].sender_id \in SenderId
                       /\ heard_sender'[sequence_tracks'[j].sender_id].silence < TickMod
                            => Age(sequence_tracks[j].last_seen_ms)'
                                 = heard_sender'[sequence_tracks'[j].sender_id].silence
    BY DEF SequenceAges
  <2>1. CASE j = q
    BY <2>1, <1>3, <1>4, <1>5 DEF Age, Tick
  <2>2. CASE j # q
    <3>1. /\ sequence_tracks'[j] = sequence_tracks[j]
          /\ sequence_tracks[j].sender_id \in SenderId \ {p.sender_id}
      BY <2>2, <1>2, <1>4 DEF QuietIInv, SequenceAges
    <3>. QED
      BY <3>1, <1>3, <1>5 DEF QuietIInv, SequenceAges, Age
  <2>. QED
    BY <2>1, <2>2
<1>7. LastAcceptedStays'
  BY <1>2, <1>4 DEF LastAcceptedStays
<1>8. SessionsFollowSequences'
  BY <1>2, <1>4 DEF SessionsFollowSequences
<1>. QED
  BY <1>1, <1>6, <1>7, <1>8 DEF QuietIInv

\* A tick ages every slot and its sender alike, or makes the sender unheard.
LEMMA TimeQuietIInv ==
    ASSUME QuietIInv, TrackerTimePasses
    PROVE  QuietIInv'
<1>1. TrackerIInv'
  BY TrackerTimePassesIInv DEF QuietIInv
<1>2. UNCHANGED <<session_tracks, sequence_tracks>>
  BY DEF TrackerTimePasses, tracker
<1>3. ASSUME NEW seen \in Tick, Age(seen) + 1 < TickMod
      PROVE  Age(seen)' = Age(seen) + 1
  BY <1>3 DEF TrackerTimePasses, QuietIInv, TrackerIInv, TrackerTypeOK, Tick, Age
<1>4. ASSUME NEW id \in SenderId, heard_sender'[id].silence < TickMod
      PROVE  /\ heard_sender'[id].silence = heard_sender[id].silence + 1
             /\ heard_sender[id].silence + 1 < TickMod
             /\ heard_sender[id].silence \in Nat
  BY <1>4 DEF TrackerTimePasses, Longer, SenderNeverHeard, QuietIInv, TrackerIInv,
              TrackerTypeOK, Silence
<1>5. SequenceAges'
  <2>. SUFFICES ASSUME NEW j \in Slots, sequence_tracks[j].used
                PROVE  /\ sequence_tracks[j].sender_id \in SenderId
                       /\ heard_sender'[sequence_tracks[j].sender_id].silence < TickMod
                            => Age(sequence_tracks[j].last_seen_ms)'
                                 = heard_sender'[sequence_tracks[j].sender_id].silence
    BY <1>2 DEF SequenceAges
  <2>. DEFINE id == sequence_tracks[j].sender_id
  <2>1. PICK seen \in Tick : seen = sequence_tracks[j].last_seen_ms
    BY DEF QuietIInv, TrackerIInv, TrackerTypeOK, SequenceTrackEntry
  <2>2. /\ id \in SenderId
        /\ heard_sender[id].silence < TickMod => Age(seen) = heard_sender[id].silence
    BY <2>1 DEF QuietIInv, SequenceAges
  <2>3. ASSUME heard_sender'[id].silence < TickMod
        PROVE  Age(seen)' = heard_sender'[id].silence
    <3>1. Age(seen) = heard_sender[id].silence /\ Age(seen) + 1 < TickMod
      BY <1>4, <2>2, <2>3
    <3>. QED
      BY <1>3, <1>4, <2>2, <2>3, <3>1
  <2>4. Age(sequence_tracks[j].last_seen_ms)' = Age(seen)'
    BY <1>2, <2>1 DEF Age
  <2>. QED
    BY <2>2, <2>3, <2>4
<1>6. LastAcceptedStays' /\ SessionsFollowSequences'
  BY <1>2 DEF QuietIInv, LastAcceptedStays, SessionsFollowSequences
<1>. QED
  BY <1>1, <1>5, <1>6 DEF QuietIInv

\* The invariant of quiet tables, step by step.
THEOREM QuietIInvHolds == TrackerSpec => []QuietIInv
<1>1. TrackerInit => QuietIInv
  <2>. SUFFICES ASSUME TrackerInit PROVE QuietIInv
    OBVIOUS
  <2>1. \A i \in Slots : ~session_tracks[i].used /\ ~sequence_tracks[i].used
    BY DEF TrackerInit, EmptySessionTracks, EmptySequenceTracks
  <2>. QED
    BY <2>1, TrackerInitIInv
    DEF QuietIInv, SequenceAges, LastAcceptedStays, SessionsFollowSequences
<1>2. QuietIInv /\ [TrackerNext]_trackerVars => QuietIInv'
  <2>. SUFFICES ASSUME QuietIInv, [TrackerNext]_trackerVars PROVE QuietIInv'
    OBVIOUS
  <2>1. ASSUME NEW p \in Packet, ValidateAndCommitFreshness(p)
        PROVE  QuietIInv'
    BY <2>1, AcceptQuietIInv, RejectQuietIInv DEF ValidateAndCommitFreshness
  <2>2. CASE ResetFreshnessTracker
    <3>1. \A i \in Slots : ~session_tracks'[i].used /\ ~sequence_tracks'[i].used
      BY <2>2 DEF ResetFreshnessTracker, EmptySessionTracks, EmptySequenceTracks
    <3>2. TrackerIInv'
      BY <2>2, ResetIInv DEF QuietIInv
    <3>. QED
      BY <3>1, <3>2 DEF QuietIInv, SequenceAges, LastAcceptedStays,
                        SessionsFollowSequences
  <2>3. CASE TrackerTimePasses
    BY <2>3, TimeQuietIInv
  <2>4. CASE UNCHANGED trackerVars
    <3>1. TrackerIInv'
      BY <2>4, TrackerNextIInv DEF QuietIInv
    <3>. QED
      BY <2>4, <3>1 DEF trackerVars, QuietIInv, SequenceAges, LastAcceptedStays,
                        SessionsFollowSequences, Age
  <2>. QED
    BY <2>1, <2>2, <2>3, <2>4 DEF TrackerNext
<1>. QED
  BY <1>1, <1>2, PTL DEF TrackerSpec

\* One slot that has been idle for ReclaimAge is enough for a table to have
\* room: there is an oldest slot, and it is no younger.
LEMMA OneExpiredIsEnough ==
    ASSUME NEW tracks, \A j \in Slots : Age(tracks[j].last_seen_ms) \in Tick,
           NEW k \in Slots, Age(tracks[k].last_seen_ms) >= ReclaimAge
    PROVE  AcquireTrackSlot(tracks) # NoSlot
<1>. DEFINE age(j) == Age(tracks[j].last_seen_ms)
            S == {TickMod - age(j) : j \in Slots}
<1>1. \A j \in Slots : age(j) \in Tick
  OBVIOUS
<1>2. S \in SUBSET Nat
  BY <1>1 DEF Tick
<1>3. S # {}
  OBVIOUS
<1>4. PICK n \in S : \A m \in S : n <= m
  <2>. HIDE DEF S
  <2>. QED
    BY <1>2, <1>3, LeastExists
<1>5. PICK i \in Slots : n = TickMod - age(i)
  OBVIOUS
<1>6. \A j \in Slots : age(j) <= age(i)
  <2>. SUFFICES ASSUME NEW j \in Slots PROVE age(j) <= age(i)
    OBVIOUS
  <2>1. TickMod - age(i) <= TickMod - age(j)
    BY <1>4, <1>5
  <2>. HIDE DEF age
  <2>. QED
    BY <1>1, <2>1 DEF Tick
<1>7. age(i) >= ReclaimAge
  <2>1. age(k) <= age(i) /\ age(k) >= ReclaimAge /\ age(k) \in Tick /\ age(i) \in Tick
    BY <1>1, <1>6
  <2>. HIDE DEF age
  <2>. QED
    BY <2>1 DEF Tick
<1>8. i \in Expired(tracks)
  BY <1>6, <1>7 DEF Expired
<1>9. Expired(tracks) \in SUBSET Slots /\ Unused(tracks) \in SUBSET Slots
  BY DEF Expired, Unused
<1>10. NoSlot \notin Slots
  BY DEF NoSlot, Slots
<1>. QED
  BY <1>8, <1>9, <1>10, FirstIsLeast DEF AcquireTrackSlot, FirstOrNoSlot

\* When all tracked senders have gone quiet, both tables have room.
LEMMA QuietMakesRoom ==
    ASSUME QuietIInv,
           \A i \in Slots : sequence_tracks[i].used
                            => GoneQuiet(heard_sender[sequence_tracks[i].sender_id])
    PROVE  /\ AcquireTrackSlot(session_tracks) # NoSlot
           /\ AcquireTrackSlot(sequence_tracks) # NoSlot
<1>1. \A seen \in Tick : Age(seen) \in Tick
  BY DEF Age, Tick, QuietIInv, TrackerIInv, TrackerTypeOK
<1>2. \A j \in Slots : /\ Age(session_tracks[j].last_seen_ms) \in Tick
                       /\ Age(sequence_tracks[j].last_seen_ms) \in Tick
  BY <1>1 DEF QuietIInv, TrackerIInv, TrackerTypeOK, SessionTrackEntry,
              SequenceTrackEntry
<1>3. \A j \in Slots : sequence_tracks[j].used
                         => Age(sequence_tracks[j].last_seen_ms) >= ReclaimAge
  <2>. SUFFICES ASSUME NEW j \in Slots, sequence_tracks[j].used
                PROVE  Age(sequence_tracks[j].last_seen_ms) >= ReclaimAge
    OBVIOUS
  <2>. DEFINE id == sequence_tracks[j].sender_id
  <2>1. /\ id \in SenderId /\ heard_sender[id].silence \in Nat
        /\ ReclaimAge <= heard_sender[id].silence
        /\ heard_sender[id].silence < TickMod
    BY DEF GoneQuiet, QuietIInv, SequenceAges, TrackerIInv, TrackerTypeOK, Silence
  <2>2. Age(sequence_tracks[j].last_seen_ms) = heard_sender[id].silence
    BY <2>1 DEF QuietIInv, SequenceAges
  <2>. QED
    BY <2>1, <2>2
<1>4. \A tracks : Unused(tracks) # {} => AcquireTrackSlot(tracks) # NoSlot
  <2>1. \A tracks : Unused(tracks) \in SUBSET Slots
    BY DEF Unused
  <2>. QED
    BY <2>1, FirstIsLeast DEF AcquireTrackSlot, NoSlot, Slots
<1>5. 1 \in Slots
  BY DEF Slots
<1>6. AcquireTrackSlot(sequence_tracks) # NoSlot
  <2>1. CASE Unused(sequence_tracks) # {}
    BY <1>4, <2>1
  <2>2. CASE Unused(sequence_tracks) = {}
    <3>1. sequence_tracks[1].used
      BY <1>5, <2>2 DEF Unused
    <3>. QED
      BY <1>2, <1>3, <1>5, <3>1, OneExpiredIsEnough
  <2>. QED
    BY <2>1, <2>2
<1>7. AcquireTrackSlot(session_tracks) # NoSlot
  <2>1. CASE Unused(session_tracks) # {}
    BY <1>4, <2>1
  <2>2. CASE Unused(session_tracks) = {}
    <3>1. session_tracks[1].used
      BY <1>5, <2>2 DEF Unused
    <3>2. PICK i \in Slots, j \in Slots :
            /\ sequence_tracks[j].used
            /\ session_tracks[i].last_seen_ms = sequence_tracks[j].last_seen_ms
      BY <1>5, <3>1 DEF QuietIInv, SessionsFollowSequences, LastAcceptedStays
    <3>3. Age(session_tracks[i].last_seen_ms) >= ReclaimAge
      BY <1>3, <3>2
    <3>. QED
      BY <1>2, <3>3, OneExpiredIsEnough
  <2>. QED
    BY <2>1, <2>2
<1>. QED
  BY <1>6, <1>7

\* When every tracked sender has gone quiet, a device that is not tracked is let
\* in, also where refused datagrams hold session slots (AcquireTrackSlot).
THEOREM QuietTableLetsIn == TrackerSpec => []QuietTableHasRoom
<1>1. QuietIInv => QuietTableHasRoom
  BY QuietMakesRoom
  DEF QuietTableHasRoom, IsFresh, SessionAdmitted, SessionTooOld, SessionSlot,
      SequenceNotNewer, SequenceSlot
<1>. QED
  BY <1>1, QuietIInvHolds, PTL

-------------------------------------------------------------------------------
\* The abstract promise

\* Every step that reports a datagram fresh is one ReplayGuard allows.
LEMMA AcceptImplementsAdmit ==
    ASSUME TrackerIInv, NEW p \in Packet, AcceptFresh(p)
    PROVE  Guard!Admit(p)
<1>1. p.sender_id \in SenderId /\ TuidOf(p) \in Tuid /\ TuidOf(p) = p.sender_id[1]
  BY PacketIs DEF TuidOf
<1>2. /\ heard_sender[p.sender_id].session_id \in Nat
      /\ heard_sender[p.sender_id].seq_num \in Nat
      /\ heard_tuid[TuidOf(p)].session_id \in Nat
      /\ p.session_id \in Nat /\ p.seq_num \in Nat
  BY <1>1, PacketIs DEF TrackerIInv, TrackerTypeOK, Session, Sequence
<1>3. Recent(heard_sender[p.sender_id]) => Guard!Newer(p, heard_sender[p.sender_id])
  BY FreshIsNewer DEF AcceptFresh, NewerThan, Guard!Newer
<1>4. Recent(heard_tuid[TuidOf(p)]) => heard_tuid[TuidOf(p)].session_id <= p.session_id
  <2>. SUFFICES ASSUME Recent(heard_tuid[TuidOf(p)])
                PROVE  heard_tuid[TuidOf(p)].session_id <= p.session_id
    OBVIOUS
  <2>1. ~SessionTooOld(p)
    BY DEF AcceptFresh, IsFresh, SessionAdmitted
  <2>. QED
    BY <1>1, <1>2, <2>1, FoundSessionTrack DEF SessionTooOld
<1>5. Guard!MayAdmit(p)
  BY <1>1, <1>3, <1>4 DEF Guard!MayAdmit, Guard!Remembered, Recent
<1>. QED
  BY <1>1, <1>5 DEF AcceptFresh, Guard!Admit

\* The tables implement the abstract promise: fresh means newer, unless the
\* sender has been silent for ReclaimAge or the receiver started again
\* (ValidateAndCommitFreshness, ResetFreshnessTracker).
THEOREM TrackerKeepsPromise == TrackerSpec => KeepsPromise
<1>1. TrackerInit => Guard!Forgotten
  BY DEF TrackerInit, Guard!Forgotten, Guard!UnknownSender, Guard!UnknownDevice,
         SenderNeverHeard, TuidNeverHeard
<1>2. TrackerIInv /\ [TrackerNext]_trackerVars => [Guard!Next]_(Guard!vars)
  <2>. SUFFICES ASSUME TrackerIInv, [TrackerNext]_trackerVars
                PROVE  [Guard!Next]_(Guard!vars)
    OBVIOUS
  <2>1. ASSUME NEW p \in Packet, ValidateAndCommitFreshness(p)
        PROVE  [Guard!Next]_(Guard!vars)
    <3>1. CASE AcceptFresh(p)
      <4>1. p \in Guard!Datagram
        BY DEF Packet, Session, Sequence, Guard!Datagram
      <4>. QED
        BY <3>1, <4>1, AcceptImplementsAdmit DEF Guard!Next
    <3>2. CASE RejectSession(p) \/ RejectSequence(p)
      BY <3>2 DEF RejectSession, RejectSequence, trackerVars, Guard!vars
    <3>. QED
      BY <2>1, <3>1, <3>2 DEF ValidateAndCommitFreshness
  <2>2. CASE ResetFreshnessTracker
    BY <2>2 DEF ResetFreshnessTracker, SenderNeverHeard, TuidNeverHeard,
                Guard!Next, Guard!Restart, Guard!Forgotten,
                Guard!UnknownSender, Guard!UnknownDevice
  <2>3. CASE TrackerTimePasses
    <3>1. ASSUME NEW h \in [silence : Silence, session_id : Session, seq_num : Sequence]
          PROVE  h.silence + 1 < TickMod <=> h.silence < TickMod - 1
      BY DEF Silence
    <3>2. ASSUME NEW h \in [silence : Silence, session_id : Session]
          PROVE  h.silence + 1 < TickMod <=> h.silence < TickMod - 1
      BY DEF Silence
    <3>. QED
      BY <2>3, <3>1, <3>2 DEF TrackerTimePasses, Longer, SenderNeverHeard, TuidNeverHeard,
                  Guard!Next, Guard!GrowSilent, Guard!UnknownSender,
                  Guard!UnknownDevice, TrackerIInv, TrackerTypeOK
  <2>4. CASE UNCHANGED trackerVars
    BY <2>4 DEF trackerVars, Guard!vars
  <2>. QED
    BY <2>1, <2>2, <2>3, <2>4 DEF TrackerNext
<1>. QED
  BY <1>1, <1>2, TrackerIInvHolds, PTL DEF TrackerSpec, KeepsPromise, Guard!Spec

===============================================================================

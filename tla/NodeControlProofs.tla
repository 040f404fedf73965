--------------------------- MODULE NodeControlProofs ---------------------------
(***************************************************************************)
(* Theorems about NodeControl, for every set of values, every Packet and    *)
(* every budget: types, the label box, and the one way in which a change of *)
(* the operator is forgotten.                                               *)
(***************************************************************************)
EXTENDS NodeControl, SequenceTheorems, TLAPS

\* The form is refreshed at the end of the tick that changed a blob.
IdleMeansShown == phase = "idle" => ui_is_stale = NoFlags

\* The label box shows the label held, but for what the operator has typed and
\* what the tick under way will still show.
LabelBoxFollows ==
    ~typed /\ ~ui_is_stale[TID_RT_DEVICE_LABEL]
        => Trim[edit_label] = Trim[value[TID_RT_DEVICE_LABEL]]

IInv == TypeOK /\ IdleMeansShown /\ LabelBoxFollows

-------------------------------------------------------------------------------
\* The values a blob may hold.
LEMMA LabelsAreValues ==
    /\ TID_RT_DEVICE_LABEL \in Tid
    /\ ValuesOf(TID_RT_DEVICE_LABEL) = LabelValue
    /\ ValuesOf(TID_EP_UNIVERSE) = UniverseValue
    /\ \A t \in Tid : ValuesOf(t) \subseteq Value
  BY DEF Tid, ValuesOf, Value, TID_RT_DEVICE_LABEL, TID_RT_IDENTIFY, TID_EP_UNIVERSE

\* The first TLV is one, and the rest of them a sequence.
LEMMA TlvIs ==
    ASSUME TypeOK, rx.tlvs # <<>>
    PROVE  NextTlv \in Tlv /\ Consumed \in Locals /\ Consumed.set_tids = rx.set_tids
  <1>1. rx \in Locals
    BY DEF TypeOK
  <1>2. rx.tlvs \in Seq(Tlv)
    BY <1>1 DEF Locals
  <1>3. Head(rx.tlvs) \in Tlv /\ Tail(rx.tlvs) \in Seq(Tlv)
    BY <1>2
  <1> QED
    BY <1>1, <1>3 DEF NextTlv, Consumed, Locals

\* A transmission leaves what the manager knows a set of values.
LEMMA KnownAfter ==
    ASSUME TypeOK, NEW datagrams, Transmit(datagrams)
    PROVE  known' \in [Tid -> Value]
  BY LabelsAreValues DEF TypeOK, Transmit

-------------------------------------------------------------------------------
(***************************************************************************)
(* The steps of a tick                                                      *)
(***************************************************************************)
\* A packet taken from the socket is the only new thing.
LEMMA ReceiveIInv ==
    ASSUME IInv, NEW p \in Packet, ReceivePacket(p)
    PROVE  IInv'
  <1>1. p \in [endpoint : Nat, tlvs : Seq(Tlv)]
    BY PacketAssumption
  <1>2. Received(p) \in Locals /\ Received(p).set_tids = <<>>
    BY <1>1 DEF Received, Locals
  <1>3. packet_budget' \in 0 .. PacketBudget
    BY CountAssumption DEF ReceivePacket, IInv, TypeOK
  <1> QED
    BY <1>2, <1>3, CountAssumption
       DEF ReceivePacket, IInv, TypeOK, IdleMeansShown, LabelBoxFollows, blobs,
           polls, form

\* A poll writes what the reply will be asked for.
LEMMA PollIInv ==
    ASSUME IInv, ProcessPoll
    PROVE  IInv'
  <1>1. rx.tlvs # <<>> /\ NextTlv.kind = "poll" /\ phase = "parsing"
    BY DEF ProcessPoll, Parsing
  <1>2. /\ NextTlv \in Tlv /\ Consumed \in Locals
        /\ Consumed.set_tids = rx.set_tids
    BY <1>1, TlvIs DEF IInv
  <1>3. NextTlv.query_level \in Nat
    BY <1>1, <1>2 DEF Tlv
  <1>4. rx' \in Locals /\ rx'.set_tids = rx.set_tids
    <2>1. [Consumed EXCEPT !.poll_triggered = TRUE] \in Locals
      BY <1>2 DEF Locals
    <2>2. [Consumed EXCEPT !.poll_triggered = TRUE].set_tids = rx.set_tids
      BY <1>2 DEF Locals
    <2> QED
      BY <1>2, <2>1, <2>2 DEF ProcessPoll
  <1>5. /\ last_poll_query_level' \in QUERY_HEARTBEAT .. QUERY_EXTENDED
        /\ last_poll_reply_root' \in BOOLEAN /\ last_poll_reply_data' \in BOOLEAN
    <2>1. CASE PollMatches(NextTlv)
      <3>1. last_poll_query_level' = NextTlv.query_level
        BY <2>1 DEF ProcessPoll
      <3>2. /\ last_poll_reply_root' \in BOOLEAN
            /\ last_poll_reply_data' \in BOOLEAN
        BY <2>1, Zenon DEF ProcessPoll
      <3>3. NextTlv.query_level <= QUERY_EXTENDED
        BY <2>1 DEF PollMatches
      <3> QED
        BY <1>3, <3>1, <3>2, <3>3 DEF QUERY_HEARTBEAT, QUERY_EXTENDED
    <2>2. CASE ~PollMatches(NextTlv)
      BY <2>2 DEF ProcessPoll, polls, IInv, TypeOK
    <2> QED
      BY <2>1, <2>2
  <1> QED
    BY <1>1, <1>4, <1>5
       DEF ProcessPoll, IInv, TypeOK, IdleMeansShown, LabelBoxFollows, blobs, form

\* GET, a rejected SET and a TLV for another endpoint change neither blob nor
\* form.
LEMMA QuietTlvIInv ==
    ASSUME IInv, ProcessGet \/ RejectSet \/ IgnoreTlv
    PROVE  IInv'
  <1>1. rx.tlvs # <<>> /\ phase = "parsing"
    BY DEF ProcessGet, RejectSet, IgnoreTlv, Parsing
  <1>2. Consumed \in Locals /\ Consumed.set_tids = rx.set_tids
    BY <1>1, TlvIs DEF IInv
  <1>3. rx' \in Locals /\ rx'.set_tids = rx.set_tids
    <2>1. [Consumed EXCEPT !.set_transaction_invalid = TRUE] \in Locals
      BY <1>2 DEF Locals
    <2>2. [Consumed EXCEPT !.set_transaction_invalid = TRUE].set_tids = rx.set_tids
      BY <1>2 DEF Locals
    <2> QED
      BY <1>2, <2>1, <2>2 DEF ProcessGet, RejectSet, IgnoreTlv
  <1>4. known' \in [Tid -> Value]
    BY KnownAfter DEF ProcessGet, RejectSet, IgnoreTlv, IInv, TypeOK
  <1>5. /\ UNCHANGED <<blobs, polls, form, change_count, keys_valid, phase,
                       packet_budget, uncounted>>
    BY DEF ProcessGet, RejectSet, IgnoreTlv
  <1> QED
    BY <1>3, <1>4, <1>5
       DEF IInv, TypeOK, IdleMeansShown, LabelBoxFollows, blobs, polls, form

\* A SET marks the blob it writes, so the box follows by the end of the tick.
LEMMA SetIInv ==
    ASSUME IInv, ApplySet
    PROVE  IInv'
  <1> DEFINE t == NextTlv.tid
  <1>1. /\ rx.tlvs # <<>> /\ NextTlv.kind = "set" /\ phase = "parsing"
        /\ NextTlv.value # InvalidValue
    BY DEF ApplySet, Parsing, IsValidSetPayload
  <1>2. /\ NextTlv \in Tlv /\ Consumed \in Locals
        /\ Consumed.set_tids = rx.set_tids
    BY <1>1, TlvIs DEF IInv
  <1>3. t \in Tid /\ NextTlv.value \in ValuesOf(t)
    <2>1. NextTlv \in {s \in [kind : {"set"}, tid : Tid,
                              value : Value \union {InvalidValue}] :
                         s.value \in ValuesOf(s.tid) \union {InvalidValue}}
      BY <1>1, <1>2 DEF Tlv
    <2> QED
      BY <1>1, <2>1
  <1>4. NextTlv.value \in Value
    BY <1>3, LabelsAreValues
  <1>5. /\ value' = [value EXCEPT ![t] = NextTlv.value]
        /\ manager_is_stale' = [manager_is_stale EXCEPT ![t] = FALSE]
        /\ ui_is_stale' = [ui_is_stale EXCEPT ![t] = TRUE]
        /\ known' = [known EXCEPT ![t] = NextTlv.value]
        /\ UNCHANGED <<polls, form, change_count, keys_valid, phase,
                       packet_budget>>
    BY DEF ApplySet
  <1>6. rx' \in Locals /\ Len(rx'.set_tids) <= MAX_SET_TIDS_PER_PACKET
    <2>0. rx \in Locals /\ Len(rx.set_tids) <= MAX_SET_TIDS_PER_PACKET
      BY DEF IInv, TypeOK
    <2>1. rx.set_tids \in Seq(Tid)
      BY <2>0 DEF Locals
    <2> DEFINE more == IF Len(rx.set_tids) < MAX_SET_TIDS_PER_PACKET
                       THEN Append(rx.set_tids, t) ELSE rx.set_tids
               any == rx.set_any_persistent
                      \/ (value[t] # NextTlv.value /\ IsTidPersistent(t))
    <2>2. more \in Seq(Tid) /\ Len(more) <= MAX_SET_TIDS_PER_PACKET
      BY <1>3, <2>0, <2>1, CountAssumption
    <2>3. EndpointOf(t) \in Nat
      BY DEF EndpointOf, DataEndpoint, RootEndpoint
    <2>4. any \in BOOLEAN
      BY DEF IsTidPersistent
    <2>5. Consumed.set_any_persistent = rx.set_any_persistent
      BY <2>0 DEF Consumed, Locals
    <2>6. rx' = [Consumed EXCEPT !.set_tids = more,
                                 !.set_reply_endpoint = EndpointOf(t),
                                 !.set_any_persistent = any]
      BY <1>2, <2>5 DEF ApplySet
    <2> DEFINE result == [Consumed EXCEPT !.set_tids = more,
                                          !.set_reply_endpoint = EndpointOf(t),
                                          !.set_any_persistent = any]
    <2> HIDE DEF more, any, t
    <2>7. result \in Locals
      BY <1>2, <2>2, <2>3, <2>4 DEF Locals
    <2>8. result.set_tids = more
      BY <1>2 DEF Locals
    <2> QED
      BY <2>2, <2>6, <2>7, <2>8
  <1> HIDE DEF t
  <1>7. TypeOK'
    <2>1. /\ value' \in [Tid -> Value]
          /\ \A s \in Tid : value'[s] \in ValuesOf(s)
      BY <1>3, <1>4, <1>5 DEF IInv, TypeOK
    <2>2. /\ manager_is_stale' \in [Tid -> BOOLEAN]
          /\ ui_is_stale' \in [Tid -> BOOLEAN] /\ known' \in [Tid -> Value]
      BY <1>3, <1>4, <1>5 DEF IInv, TypeOK
    <2>3. uncounted' \in BOOLEAN
      BY Zenon DEF ApplySet
    <2> QED
      BY <1>5, <1>6, <2>1, <2>2, <2>3 DEF IInv, TypeOK, polls, form
  <1>8. LabelBoxFollows'
    <2>1. CASE t = TID_RT_DEVICE_LABEL
      BY <1>3, <1>5, <2>1 DEF LabelBoxFollows, IInv, TypeOK
    <2>2. CASE t # TID_RT_DEVICE_LABEL
      BY <1>5, <2>2, LabelsAreValues DEF LabelBoxFollows, IInv, TypeOK, form
    <2> QED
      BY <2>1, <2>2
  <1>9. IdleMeansShown'
    BY <1>1, <1>5 DEF IdleMeansShown
  <1> QED
    BY <1>7, <1>8, <1>9 DEF IInv

\* The end of a packet drops its rest and shows what it changed.
LEMMA EndOfPacketIInv ==
    ASSUME IInv, NEW ok, EndOfPacket(ok)
    PROVE  IInv'
  <1>1. NoPacket \in Locals /\ NoPacket.set_tids = <<>>
    BY DEF NoPacket, Received, Locals, RootEndpoint
  <1>2. known' \in [Tid -> Value]
    BY KnownAfter DEF EndOfPacket, IInv
  <1>3. change_count' \in 0 .. CountMod - 1
    BY CountAssumption DEF EndOfPacket, IInv, TypeOK
  <1>4. uncounted' \in BOOLEAN
    BY Zenon DEF EndOfPacket
  <1>5. manager_is_stale' \in [Tid -> BOOLEAN]
    BY DEF EndOfPacket, NoFlags, IInv, TypeOK
  <1>6. /\ phase' = "receiving" /\ rx' = NoPacket
        /\ UNCHANGED <<value, ui_is_stale, polls, form, keys_valid, packet_budget>>
    BY DEF EndOfPacket
  <1> QED
    BY <1>1, <1>2, <1>3, <1>4, <1>5, <1>6, CountAssumption
       DEF IInv, TypeOK, IdleMeansShown, LabelBoxFollows, polls, form

\* The end of a tick shows what was set.
LEMMA FinishTickIInv ==
    ASSUME IInv, NEW ok, FinishTick(ok)
    PROVE  IInv'
  <1>1. known' \in [Tid -> Value]
    BY KnownAfter DEF FinishTick, SendStaleTIDsToManager, IInv
  <1>2. manager_is_stale' \in [Tid -> BOOLEAN]
    BY DEF FinishTick, SendStaleTIDsToManager, NoFlags, IInv, TypeOK
  <1>3. /\ ui_is_stale' = NoFlags /\ phase' = "idle" /\ packet_budget' = 0
        /\ UNCHANGED <<value, polls, change_count, keys_valid, rx, uncounted>>
    BY DEF FinishTick, SyncUIFromStaleBlobs
  <1>4. value[TID_EP_UNIVERSE] \in UniverseValue
    BY LabelsAreValues DEF IInv, TypeOK, Tid
  <1>5. value[TID_RT_DEVICE_LABEL] \in LabelValue
    BY LabelsAreValues DEF IInv, TypeOK
  <1>6. /\ edit_label' \in LabelValue /\ typed' \in BOOLEAN
        /\ spin_universe' \in UniverseValue
    BY <1>4, <1>5 DEF FinishTick, SyncUIFromStaleBlobs, IInv, TypeOK
  <1>7. LabelBoxFollows'
    <2>1. CASE ui_is_stale[TID_RT_DEVICE_LABEL]
      BY <1>3, <2>1 DEF FinishTick, SyncUIFromStaleBlobs, LabelBoxFollows
    <2>2. CASE ~ui_is_stale[TID_RT_DEVICE_LABEL]
      BY <1>3, <2>2 DEF FinishTick, SyncUIFromStaleBlobs, LabelBoxFollows, IInv
    <2> QED
      BY <2>1, <2>2
  <1>8. NoFlags \in [Tid -> BOOLEAN]
    BY DEF NoFlags
  <1>9. TypeOK'
    BY <1>1, <1>2, <1>3, <1>6, <1>8, CountAssumption DEF IInv, TypeOK, polls
  <1> QED
    BY <1>3, <1>7, <1>9 DEF IInv, IdleMeansShown

-------------------------------------------------------------------------------
(***************************************************************************)
(* The operator                                                             *)
(***************************************************************************)

\* What is committed is what is shown, but for surrounding blanks.
LEMMA CommitIInv ==
    ASSUME IInv, CommitLabel
    PROVE  IInv'
  <1> DEFINE label == Trim[edit_label]
  <1>1. /\ value' = [value EXCEPT ![TID_RT_DEVICE_LABEL] = label]
        /\ typed' = FALSE
        /\ UNCHANGED <<ui_is_stale, polls, change_count, edit_label,
                       spin_universe, keys_valid, phase, packet_budget, rx, known>>
    BY DEF CommitLabel
  <1>2. label \in LabelValue /\ Trim[label] = label
    BY LabelAssumption DEF IInv, TypeOK
  <1>3. manager_is_stale' \in [Tid -> BOOLEAN]
    <2>1. manager_is_stale \in [Tid -> BOOLEAN]
      BY DEF IInv, TypeOK
    <2>2. \A changed \in BOOLEAN :
            [manager_is_stale EXCEPT ![TID_RT_DEVICE_LABEL] = @ \/ changed]
               \in [Tid -> BOOLEAN]
      BY <2>1
    <2> QED
      BY <2>2 DEF CommitLabel
  <1>4. label \in Value
    BY <1>2 DEF Value
  <1> HIDE DEF label
  <1>5. value' \in [Tid -> Value] /\ \A t \in Tid : value'[t] \in ValuesOf(t)
    BY <1>1, <1>2, <1>4, LabelsAreValues DEF IInv, TypeOK
  <1>6. uncounted' \in BOOLEAN
    BY Zenon DEF CommitLabel
  <1>7. LabelBoxFollows'
    <2>1. value'[TID_RT_DEVICE_LABEL] = label
      BY <1>1, LabelsAreValues DEF IInv, TypeOK
    <2> QED
      BY <1>1, <1>2, <2>1 DEF LabelBoxFollows, label
  <1> QED
    BY <1>1, <1>3, <1>5, <1>6, <1>7
       DEF IInv, TypeOK, IdleMeansShown, polls

\* What the operator types and reverts keeps blobs and box together.
LEMMA OperatorIInv ==
    ASSUME IInv, Operator
    PROVE  IInv'
  <1>1. CASE \E text \in UiLabel : TypeLabel(text)
    BY <1>1, LabelAssumption
       DEF TypeLabel, IInv, TypeOK, IdleMeansShown, LabelBoxFollows, blobs, polls
  <1>2. CASE CommitLabel
    BY <1>2, CommitIInv
  <1>3. CASE \E u \in UiUniverse : SpinUniverse(u)
    BY <1>3, UniverseAssumption
       DEF SpinUniverse, IInv, TypeOK, IdleMeansShown, LabelBoxFollows, blobs, polls
  <1>4. CASE (\E valid \in BOOLEAN : SelectK0(valid)) \/ Deprovision
    BY <1>4
       DEF SelectK0, Deprovision, IInv, TypeOK, IdleMeansShown, LabelBoxFollows,
           blobs, polls, form
  <1> QED
    BY <1>1, <1>2, <1>3, <1>4 DEF Operator

-------------------------------------------------------------------------------
\* At the start nothing is pending and the box shows the blob.
LEMMA InitIInv ==
    ASSUME Init
    PROVE  IInv
  <1>1. NoPacket \in Locals /\ NoPacket.set_tids = <<>>
    BY DEF NoPacket, Received, Locals, RootEndpoint
  <1>2. NoFlags \in [Tid -> BOOLEAN]
    BY DEF NoFlags
  <1>3. /\ value[TID_RT_DEVICE_LABEL] \in LabelValue
        /\ value[TID_EP_UNIVERSE] \in UniverseValue
    BY LabelsAreValues DEF Init, Tid
  <1>4. TypeOK
    <2>1. /\ rx \in Locals /\ Len(rx.set_tids) <= MAX_SET_TIDS_PER_PACKET
      BY <1>1, CountAssumption DEF Init
    <2>2. /\ change_count \in 0 .. CountMod - 1 /\ packet_budget \in 0 .. PacketBudget
          /\ last_poll_query_level \in QUERY_HEARTBEAT .. QUERY_EXTENDED
      BY CountAssumption DEF Init, QUERY_HEARTBEAT, QUERY_EXTENDED
    <2>3. /\ last_poll_reply_root \in BOOLEAN /\ last_poll_reply_data \in BOOLEAN
          /\ keys_valid \in BOOLEAN /\ typed \in BOOLEAN
          /\ manager_is_stale \in [Tid -> BOOLEAN]
          /\ ui_is_stale \in [Tid -> BOOLEAN]
      BY <1>2 DEF Init
    <2>4. /\ value \in [Tid -> Value] /\ \A t \in Tid : value[t] \in ValuesOf(t)
          /\ known \in [Tid -> Value] /\ uncounted \in BOOLEAN
          /\ edit_label \in LabelValue /\ spin_universe \in UniverseValue
          /\ phase \in {"idle", "receiving", "parsing"}
      BY <1>3 DEF Init
    <2> QED
      BY <2>1, <2>2, <2>3, <2>4 DEF TypeOK
  <1> QED
    BY <1>4 DEF Init, IInv, IdleMeansShown, LabelBoxFollows

\* The inductive invariant: types, a form refreshed between ticks, and a label
\* box that follows the blob (all of NodeControl).
THEOREM IInvHolds == Spec => []IInv
  <1>1. Init => IInv
    BY InitIInv
  <1>2. IInv /\ [Next]_vars => IInv'
    <2> SUFFICES ASSUME IInv, [Next]_vars PROVE IInv'
      OBVIOUS
    <2>1. CASE StartTick
      BY <2>1, CountAssumption
         DEF StartTick, IInv, TypeOK, IdleMeansShown, LabelBoxFollows, blobs,
             polls, form
    <2>2. CASE ProcessTlv
      BY <2>2, PollIInv, QuietTlvIInv, SetIInv DEF ProcessTlv
    <2>3. CASE \E ok \in SUBSET {"root", "data", "set"} : EndOfPacket(ok)
      BY <2>3, EndOfPacketIInv
    <2>4. CASE \E ok \in SUBSET Endpoint : FinishTick(ok)
      BY <2>4, FinishTickIInv
    <2>5. CASE \E p \in Packet : ReceivePacket(p)
      BY <2>5, ReceiveIInv
    <2>6. CASE Operator
      BY <2>6, OperatorIInv
    <2>7. CASE UNCHANGED vars
      BY <2>7 DEF vars, IInv, TypeOK, IdleMeansShown, LabelBoxFollows
    <2> QED
      BY <2>1, <2>2, <2>3, <2>4, <2>5, <2>6, <2>7 DEF Next, Thread
  <1> QED
    BY <1>1, <1>2, PTL DEF Spec

\* Every step keeps the types, and no packet notes more parameters than the
\* array has room for (ProcessIncomingPacket).
THEOREM TypeCorrect == Spec => []TypeOK
  <1>1. IInv => TypeOK
    BY DEF IInv
  <1> QED
    BY <1>1, IInvHolds, PTL

\* What the label box holds between ticks, when nothing was typed, is the label
\* held; so what leaving it commits is that label, without blanks.
LEMMA LabelStep ==
    ASSUME IInv, [Next]_vars, phase = "idle", ~typed
    PROVE  Trim[value'[TID_RT_DEVICE_LABEL]] = Trim[value[TID_RT_DEVICE_LABEL]]
  <1>1. Trim[edit_label] = Trim[value[TID_RT_DEVICE_LABEL]]
    BY LabelsAreValues DEF IInv, IdleMeansShown, LabelBoxFollows, NoFlags
  <1>2. CASE CommitLabel
    <2>1. value'[TID_RT_DEVICE_LABEL] = Trim[edit_label]
      BY <1>2, LabelsAreValues DEF CommitLabel, IInv, TypeOK
    <2>2. Trim[Trim[edit_label]] = Trim[edit_label]
      BY LabelAssumption DEF IInv, TypeOK
    <2> QED
      BY <1>1, <2>1, <2>2
  <1>3. CASE ~CommitLabel
    <2>1. UNCHANGED value
      BY <1>3 DEF Next, Thread, Operator, StartTick, ProcessTlv, ProcessPoll,
                  ProcessGet, RejectSet, ApplySet, IgnoreTlv, Parsing, EndOfPacket,
                  FinishTick, ReceivePacket, TypeLabel, SpinUniverse, SelectK0,
                  Deprovision, vars, blobs
    <2> QED
      BY <2>1
  <1> QED
    BY <1>2, <1>3

\* Leaving the label box without typing never undoes a label a manager has SET,
\* for any packets, labels and way of trimming them (ApplySet's ui_is_stale,
\* SyncUIFromStaleBlobs, EditRootDeviceLabelExit).
THEOREM UntypedLabelStays == Spec => LabelChangesAreTyped
  <1>1. IInv /\ [Next]_vars
          => [phase = "idle" /\ ~typed
                => Trim[value'[TID_RT_DEVICE_LABEL]]
                     = Trim[value[TID_RT_DEVICE_LABEL]]]_vars
    BY LabelStep
  <1> QED
    BY <1>1, IInvHolds, PTL DEF Spec, LabelChangesAreTyped

-------------------------------------------------------------------------------
\* Whether x is among the members of a sequence.
Carries(s, x) == \E i \in DOMAIN s : s[i] = x

\* A datagram that is sent on a condition is in what goes out.
LEMMA WhenIs ==
    ASSUME NEW S, NEW c, NEW a \in S
    PROVE  When(c, <<a>>) \in Seq(S) /\ (c => Carries(When(c, <<a>>), a))
  <1>1. CASE c
    <2>1. When(c, <<a>>) = <<a>>
      BY <1>1 DEF When
    <2>2. <<a>> \in Seq(S) /\ 1 \in DOMAIN <<a>> /\ <<a>>[1] = a
      OBVIOUS
    <2>3. Carries(<<a>>, a)
      BY <2>2, Zenon DEF Carries
    <2> QED
      BY <2>1, <2>2, <2>3
  <1>2. CASE ~c
    BY <1>2 DEF When
  <1> QED
    BY <1>1, <1>2

\* What either of two sequences carries, their concatenation does.
LEMMA InConcatenation ==
    ASSUME NEW S, NEW first \in Seq(S), NEW second \in Seq(S), NEW x,
           Carries(first, x) \/ Carries(second, x)
    PROVE  Carries(first \o second, x)
  <1> DEFINE both == first \o second
  <1>1. /\ Len(both) = Len(first) + Len(second)
        /\ DOMAIN both = 1 .. Len(both)
    BY ConcatProperties
  <1>2. \A i \in 1 .. Len(first) + Len(second) :
            both[i] = IF i <= Len(first) THEN first[i] ELSE second[i - Len(first)]
    BY ConcatProperties
  <1>3. Len(first) \in Nat /\ Len(second) \in Nat
    OBVIOUS
  <1> HIDE DEF both
  <1>4. ASSUME Carries(first, x) PROVE Carries(both, x)
    <2>1. PICK i \in 1 .. Len(first) : first[i] = x
      BY <1>4 DEF Carries
    <2>2. i \in DOMAIN both /\ both[i] = x
      BY <1>1, <1>2, <1>3, <2>1
    <2> QED
      BY <2>2 DEF Carries
  <1>5. ASSUME Carries(second, x) PROVE Carries(both, x)
    <2>1. PICK i \in 1 .. Len(second) : second[i] = x
      BY <1>5 DEF Carries
    <2>2. Len(first) + i \in DOMAIN both /\ both[Len(first) + i] = x
      BY <1>1, <1>2, <1>3, <2>1
    <2> QED
      BY <2>2 DEF Carries
  <1> QED
    BY <1>4, <1>5 DEF both

\* A flag that a flush drops has had its value sent: every endpoint with stale
\* blobs got its datagram, or no flag is dropped (SendStaleTIDsToManager).
LEMMA FlushStep ==
    ASSUME IInv, [Next]_vars
    PROVE  \A t \in Tid :
             phase = "receiving" /\ manager_is_stale[t] /\ ~manager_is_stale'[t]
                 => known'[t] = value[t]
  <1> SUFFICES ASSUME NEW t \in Tid, phase = "receiving", manager_is_stale[t],
                      ~manager_is_stale'[t]
               PROVE  known'[t] = value[t]
    OBVIOUS
  <1>1. PICK ok \in SUBSET Endpoint : FinishTick(ok)
    BY DEF Next, Thread, Operator, StartTick, ProcessTlv, ProcessPoll,
                ProcessGet, RejectSet, ApplySet, IgnoreTlv, Parsing, EndOfPacket,
                ReceivePacket, TypeLabel, CommitLabel, SpinUniverse, SelectK0,
                Deprovision, vars, blobs
  <1> DEFINE stale(e) == keys_valid /\ StaleTids(e) # {}
             isSent(e) == stale(e) /\ e \in ok
             both == When(isSent(RootEndpoint), <<StaleResponse(RootEndpoint)>>)
                     \o When(isSent(DataEndpoint), <<StaleResponse(DataEndpoint)>>)
  <1>2. /\ \E e \in Endpoint : stale(e)
        /\ \A e \in Endpoint : stale(e) => isSent(e)
    BY <1>1 DEF FinishTick, SendStaleTIDsToManager
  <1>3. /\ EndpointOf(t) \in Endpoint
        /\ t \in StaleTids(EndpointOf(t))
    BY DEF EndpointOf, Endpoint, StaleTids
  <1>4. isSent(EndpointOf(t))
    BY <1>2, <1>3
  <1>5. Carries(both, StaleResponse(EndpointOf(t)))
    <2> DEFINE S == {StaleResponse(RootEndpoint), StaleResponse(DataEndpoint)}
               root == When(isSent(RootEndpoint), <<StaleResponse(RootEndpoint)>>)
               data == When(isSent(DataEndpoint), <<StaleResponse(DataEndpoint)>>)
    <2>1. EndpointOf(t) = RootEndpoint \/ EndpointOf(t) = DataEndpoint
      BY DEF EndpointOf
    <2> HIDE DEF isSent
    <2>2. /\ root \in Seq(S)
          /\ isSent(RootEndpoint) => Carries(root, StaleResponse(RootEndpoint))
      BY WhenIs
    <2>3. /\ data \in Seq(S)
          /\ isSent(DataEndpoint) => Carries(data, StaleResponse(DataEndpoint))
      BY WhenIs
    <2>4. both = root \o data
      OBVIOUS
    <2> HIDE DEF both, root, data, S
    <2> QED
      BY <1>4, <2>1, <2>2, <2>3, <2>4, InConcatenation
  <1>6. t \in StaleResponse(EndpointOf(t)).tids
    BY <1>3 DEF StaleResponse, Reply
  <1>7. Transmit(both)
    BY <1>1 DEF FinishTick, SendStaleTIDsToManager
  <1> HIDE DEF both
  <1> QED
    BY <1>5, <1>6, <1>7 DEF Transmit, Carries

-------------------------------------------------------------------------------
(***************************************************************************)
(* How a change is forgotten                                                *)
(***************************************************************************)

\* What goes out is known, the rest as before.
LEMMA TransmitIs ==
    ASSUME NEW datagrams, Transmit(datagrams), NEW t \in Tid
    PROVE  /\ known'[t] = value[t] \/ known'[t] = known[t]
           /\ \A d : Carries(datagrams, d) /\ t \in d.tids => known'[t] = value[t]
  BY DEF Transmit, Carries

\* A reply that drops the flags has told every value the poll asked for.
LEMMA AnswerTells ==
    ASSUME TypeOK, NEW ok, EndOfPacket(ok), rx.poll_triggered,
           ProactiveResponseSent(ok), NEW t \in Tid, ~BlindReply(t)
    PROVE  known'[t] = value[t]
  <1> DEFINE confirmed == rx.set_tids # <<>> /\ ~rx.set_transaction_invalid
             root == When(ReplyRoot /\ "root" \in ok, <<PollReply(RootEndpoint)>>)
             data == When(ReplyData /\ (ReplyRoot => "root" \in ok) /\ "data" \in ok,
                          <<PollReply(DataEndpoint)>>)
             set == When(confirmed /\ "set" \in ok, <<SetReply>>)
             S == {PollReply(RootEndpoint), PollReply(DataEndpoint), SetReply}
             e == EndpointOf(t)
  <1>1. Transmit((root \o data) \o set)
    BY DEF EndOfPacket, ProactiveResponse, When
  <1>2. root \in Seq(S) /\ data \in Seq(S) /\ set \in Seq(S)
    BY WhenIs
  <1>3. e \in AnsweredEndpoints /\ ~(last_poll_query_level < QUERY_CONFIG)
    BY DEF EndOfPacket, BlindReply
  <1>4. Carries(root, PollReply(e)) \/ Carries(data, PollReply(e))
    <2>1. CASE ReplyRoot /\ e = RootEndpoint
      <3>1. ReplyRoot /\ "root" \in ok
        BY <2>1 DEF ProactiveResponseSent
      <3> QED
        BY <2>1, <3>1, WhenIs
    <2>2. CASE ReplyData /\ e = DataEndpoint
      <3>1. ReplyData /\ (ReplyRoot => "root" \in ok) /\ "data" \in ok
        BY <2>2 DEF ProactiveResponseSent
      <3> QED
        BY <2>2, <3>1, WhenIs
    <2> QED
      BY <1>3, <2>1, <2>2 DEF AnsweredEndpoints
  <1>5. t \in PollReply(e).tids
    <2>1. t \in QueryTids(last_poll_query_level, e)
      BY <1>3 DEF QueryTids
    <2> QED
      BY <2>1 DEF PollReply, Reply
  <1> HIDE DEF root, data, set, S, e
  <1>6. Carries(root \o data, PollReply(e)) /\ root \o data \in Seq(S)
    BY <1>2, <1>4, InConcatenation
  <1>7. Carries((root \o data) \o set, PollReply(e))
    BY <1>2, <1>6, InConcatenation
  <1> QED
    BY <1>1, <1>5, <1>7, TransmitIs

\* A SET makes its value known, and leaves the others.
LEMMA SetForgetsNothing ==
    ASSUME IInv, ApplySet, NEW t \in Tid, ~Forgotten(t)
    PROVE  ~Forgotten(t)'
  <1>1. /\ value' = [value EXCEPT ![NextTlv.tid] = NextTlv.value]
        /\ manager_is_stale' = [manager_is_stale EXCEPT ![NextTlv.tid] = FALSE]
        /\ known' = [known EXCEPT ![NextTlv.tid] = NextTlv.value]
    BY DEF ApplySet
  <1>2. CASE t = NextTlv.tid
    BY <1>1, <1>2 DEF IInv, TypeOK, Forgotten
  <1>3. CASE t # NextTlv.tid
    BY <1>1, <1>3 DEF IInv, TypeOK, Forgotten
  <1> QED
    BY <1>2, <1>3

\* A label that is committed and differs is marked.
LEMMA CommitForgetsNothing ==
    ASSUME IInv, CommitLabel, NEW t \in Tid, ~Forgotten(t)
    PROVE  ~Forgotten(t)'
  <1> DEFINE label == Trim[edit_label]
             changed == label # value[TID_RT_DEVICE_LABEL]
  <1>1. /\ value' = [value EXCEPT ![TID_RT_DEVICE_LABEL] = label]
        /\ manager_is_stale' = [manager_is_stale EXCEPT
              ![TID_RT_DEVICE_LABEL] = manager_is_stale[TID_RT_DEVICE_LABEL] \/ changed]
        /\ known' = known
    BY DEF CommitLabel
  <1>2. TypeOK /\ TID_RT_DEVICE_LABEL \in Tid
    BY LabelsAreValues DEF IInv
  <1>3. CASE t # TID_RT_DEVICE_LABEL
    BY <1>1, <1>2, <1>3 DEF TypeOK, Forgotten
  <1>4. CASE t = TID_RT_DEVICE_LABEL
    <2>1. value'[t] = label
      BY <1>1, <1>2, <1>4 DEF TypeOK
    <2>2. manager_is_stale'[t] = (manager_is_stale[t] \/ changed)
      BY <1>1, <1>2, <1>4 DEF TypeOK
    <2>3. CASE changed
      BY <2>2, <2>3 DEF Forgotten
    <2>4. CASE ~changed
      BY <1>1, <1>4, <2>1, <2>2, <2>4 DEF Forgotten
    <2> QED
      BY <2>3, <2>4
  <1> QED
    BY <1>3, <1>4

\* Step by step: all that drops a flag sends its value or overwrites it, but for
\* a blind reply.
LEMMA ForgottenStep ==
    ASSUME IInv, [Next]_vars
    PROVE  \A t \in Tid : ~Forgotten(t) /\ Forgotten(t)' => BlindReply(t)
  <1> SUFFICES ASSUME NEW t \in Tid, ~Forgotten(t), ~BlindReply(t)
               PROVE  ~Forgotten(t)'
    OBVIOUS
  <1>1. TypeOK
    BY DEF IInv
  <1>2. CASE ProcessGet
    <2>1. value' = value /\ manager_is_stale' = manager_is_stale
      BY <1>2 DEF ProcessGet, blobs
    <2>2. known'[t] = value[t] \/ known'[t] = known[t]
      BY <1>2, TransmitIs DEF ProcessGet
    <2> QED
      BY <2>1, <2>2 DEF Forgotten
  <1>3. ASSUME NEW ok, EndOfPacket(ok)
        PROVE  ~Forgotten(t)'
    <2>1. value' = value
      BY <1>3 DEF EndOfPacket
    <2>2. known'[t] = value[t] \/ known'[t] = known[t]
      BY <1>3, TransmitIs DEF EndOfPacket
    <2>3. CASE rx.poll_triggered /\ ProactiveResponseSent(ok)
      <3>1. known'[t] = value[t]
        BY <1>1, <1>3, <2>3, AnswerTells
      <3> QED
        BY <2>1, <3>1 DEF Forgotten
    <2>4. CASE ~(rx.poll_triggered /\ ProactiveResponseSent(ok))
      <3>1. manager_is_stale' = manager_is_stale
        BY <1>3, <2>4 DEF EndOfPacket
      <3> QED
        BY <2>1, <2>2, <3>1 DEF Forgotten
    <2> QED
      BY <2>3, <2>4
  <1>4. ASSUME NEW ok \in SUBSET Endpoint, FinishTick(ok)
        PROVE  ~Forgotten(t)'
    <2>1. phase = "receiving" /\ value' = value
      BY <1>4 DEF FinishTick
    <2>2. known'[t] = value[t] \/ known'[t] = known[t]
      BY <1>4, TransmitIs DEF FinishTick, SendStaleTIDsToManager
    <2>3. manager_is_stale[t] /\ ~manager_is_stale'[t] => known'[t] = value[t]
      BY <2>1, FlushStep
    <2> QED
      BY <2>1, <2>2, <2>3 DEF Forgotten
  <1>5. CASE \/ StartTick \/ ProcessPoll \/ RejectSet \/ IgnoreTlv \/ UNCHANGED vars
             \/ \E p \in Packet : ReceivePacket(p)
             \/ \E text \in UiLabel : TypeLabel(text)
             \/ \E u \in UiUniverse : SpinUniverse(u)
             \/ \E valid \in BOOLEAN : SelectK0(valid)
             \/ Deprovision
    <2>1. UNCHANGED <<value, manager_is_stale, known>>
      BY <1>5 DEF StartTick, ProcessPoll, RejectSet, IgnoreTlv, ReceivePacket,
                  TypeLabel, SpinUniverse, SelectK0, Deprovision, vars, blobs
    <2> QED
      BY <2>1 DEF Forgotten
  <1>6. CASE ApplySet
    BY <1>6, SetForgetsNothing
  <1>7. CASE CommitLabel
    BY <1>7, CommitForgetsNothing
  <1> QED
    BY <1>2, <1>3, <1>4, <1>5, <1>6, <1>7 DEF Next, Thread, Operator, ProcessTlv

\* For any traffic: a change the manager does not know stays marked to be sent,
\* through failed sends, lost keys and crossing SETs, until it is sent or
\* replaced, and only a reply that does not carry it drops the mark
\* (SendProactiveResponse, SendStaleTIDsToManager, ClearAllManagerStaleFlags).
THEOREM OnlyBlindRepliesForget == Spec => ForgottenOnlyBlindly
  <1>1. IInv /\ [Next]_vars
          => [\A t \in Tid : ~Forgotten(t) /\ Forgotten(t)' => BlindReply(t)]_vars
    BY ForgottenStep
  <1> QED
    BY <1>1, IInvHolds, PTL DEF Spec, ForgottenOnlyBlindly
===============================================================================

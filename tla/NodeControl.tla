------------------------------ MODULE NodeControl ------------------------------
(***************************************************************************)
(* The control plane of the node program (sig-net-node-main-form.cpp with   *)
(* sig-net-node-data.cpp): parameter values held in blobs, the manager that *)
(* reads and sets them over the network, the operator who edits them on the *)
(* form, the two stale flags that carry a change to the other side, and     *)
(* CHANGE_COUNT.                                                            *)
(*                                                                          *)
(* Everything runs on one thread.  A 20 ms timer tick polls the socket for  *)
(* a bounded number of packets, refreshes the form from blobs the manager   *)
(* has set and sends the blobs the operator has changed; clicks and key     *)
(* presses come between ticks.  Packets here are those that passed          *)
(* authentication and freshness.  Every transmission may fail.              *)
(*                                                                          *)
(* Three parameters stand for all: a persistent root parameter with an edit *)
(* box, a root parameter that is not persistent, and a persistent data      *)
(* endpoint parameter with a spin control.                                  *)
(*                                                                          *)
(* known, uncounted and typed are history variables no action reads.        *)
(***************************************************************************)
EXTENDS Integers, Sequences

CONSTANTS
    LabelValue,      \* device labels
    NoLabel,         \* the empty one
    Trim,            \* label -> the label without surrounding blanks
    UniverseValue,
    IdentifyValue,
    InvalidValue,    \* a payload IsValidSetPayload refuses
    Packet,          \* inbound packets: [endpoint, tlvs]
    UiLabel,         \* labels the operator may type
    UiUniverse,      \* universes the operator may pick
    PacketBudget,    \* packets taken from the socket per tick (50 in the code)
    MAX_SET_TIDS_PER_PACKET,   \* 32 in the code
    CountMod         \* CHANGE_COUNT is a uint16: 65536

ASSUME LabelAssumption ==
    /\ NoLabel \in LabelValue /\ UiLabel \subseteq LabelValue
    /\ Trim \in [LabelValue -> LabelValue]
    /\ \A l \in LabelValue : Trim[Trim[l]] = Trim[l]
ASSUME UniverseAssumption == UiUniverse \subseteq UniverseValue
ASSUME CountAssumption ==
    /\ PacketBudget \in Nat \ {0}
    /\ MAX_SET_TIDS_PER_PACKET \in Nat \ {0}
    /\ CountMod \in Nat /\ CountMod > 1

TID_RT_DEVICE_LABEL == "TID_RT_DEVICE_LABEL"
TID_RT_IDENTIFY == "TID_RT_IDENTIFY"
TID_EP_UNIVERSE == "TID_EP_UNIVERSE"

Tid == {TID_RT_DEVICE_LABEL, TID_RT_IDENTIFY, TID_EP_UNIVERSE}
ValuesOf(t) == CASE t = TID_RT_DEVICE_LABEL -> LabelValue
                 [] t = TID_RT_IDENTIFY -> IdentifyValue
                 [] t = TID_EP_UNIVERSE -> UniverseValue
Value == LabelValue \union IdentifyValue \union UniverseValue

\* A TLV as ProcessIncomingPacket tells them apart: TID_POLL with the query
\* level, whether this node is in its TUID range and the endpoint it is for;
\* another TID with an empty payload; and one with a payload.
Tlv ==
    [kind : {"poll"}, query_level : Nat, target : Nat,
     in_range : BOOLEAN]
    \union [kind : {"get"}, tid : Tid]
    \union {s \in [kind : {"set"}, tid : Tid, value : Value \union {InvalidValue}] :
               s.value \in ValuesOf(s.tid) \union {InvalidValue}}

ASSUME PacketAssumption == Packet \subseteq [endpoint : Nat, tlvs : Seq(Tlv)]

RootEndpoint == 0
DataEndpoint == 1
BROADCAST_ENDPOINT == 65535
Endpoint == {RootEndpoint, DataEndpoint}

QUERY_HEARTBEAT == 0
QUERY_CONFIG == 1
QUERY_EXTENDED == 3

\* The profile table: where a parameter lives, and whether it is persistent.
EndpointOf(t) == IF t = TID_EP_UNIVERSE THEN DataEndpoint ELSE RootEndpoint
PersistentTid == {TID_RT_DEVICE_LABEL, TID_EP_UNIVERSE}

IsTidPersistent(t) == t \in PersistentTid

VARIABLES
    value,                 \* Tid -> value the blob holds
    manager_is_stale,      \* Tid -> the operator changed it
    ui_is_stale,           \* Tid -> the manager changed it
    change_count,
    last_poll_query_level,
    last_poll_reply_root,
    last_poll_reply_data,
    edit_label,            \* EditRootDeviceLabel->Text
    spin_universe,         \* SpinUniverse->Value
    keys_valid,
    phase,                 \* where the thread is in its tick
    packet_budget,         \* packets this tick may still take
    rx,                    \* locals of ProcessIncomingPacket
    known,                 \* Tid -> value that crossed the network last
    uncounted,             \* a persistent value changed since CHANGE_COUNT moved
    typed                  \* the label box was edited and not committed

blobs == <<value, manager_is_stale, ui_is_stale>>
polls == <<last_poll_query_level, last_poll_reply_root, last_poll_reply_data>>
form == <<edit_label, spin_universe, typed>>
vars == <<value, manager_is_stale, ui_is_stale, change_count,
          last_poll_query_level, last_poll_reply_root, last_poll_reply_data,
          edit_label, spin_universe, keys_valid, phase, packet_budget, rx,
          known, uncounted, typed>>

NoFlags == [t \in Tid |-> FALSE]

Locals ==
    [endpoint : Nat, tlvs : Seq(Tlv), set_tids : Seq(Tid),
     set_reply_endpoint : Nat, set_any_persistent : BOOLEAN,
     set_transaction_invalid : BOOLEAN, poll_triggered : BOOLEAN]

\* The locals before the first TLV of a packet is looked at.
Received(p) ==
    [endpoint |-> p.endpoint, tlvs |-> p.tlvs, set_tids |-> <<>>,
     set_reply_endpoint |-> p.endpoint, set_any_persistent |-> FALSE,
     set_transaction_invalid |-> FALSE, poll_triggered |-> FALSE]

NoPacket == Received([endpoint |-> RootEndpoint, tlvs |-> <<>>])

\* The form's values seed the blobs; the manager has read them once.
Init ==
    /\ value \in [Tid -> Value]
    /\ \A t \in Tid : value[t] \in ValuesOf(t)
    /\ Trim[value[TID_RT_DEVICE_LABEL]] = value[TID_RT_DEVICE_LABEL]
    /\ manager_is_stale = NoFlags
    /\ ui_is_stale = NoFlags
    /\ change_count = 0
    /\ last_poll_query_level = QUERY_HEARTBEAT
    /\ last_poll_reply_root = FALSE
    /\ last_poll_reply_data = TRUE
    /\ edit_label = value[TID_RT_DEVICE_LABEL]
    /\ spin_universe = value[TID_EP_UNIVERSE]
    /\ keys_valid = FALSE
    /\ phase = "idle"
    /\ packet_budget = 0
    /\ rx = NoPacket
    /\ known = value
    /\ uncounted = FALSE
    /\ typed = FALSE

-------------------------------------------------------------------------------
\* Datagrams the node transmits

\* The modelled parameters a poll reply carries at a query level.
QueryTids(level, endpoint) ==
    IF level < QUERY_CONFIG THEN {} ELSE {t \in Tid : EndpointOf(t) = endpoint}

Reply(kind, endpoint, tids) ==
    [kind |-> kind, endpoint |-> endpoint, tids |-> tids]

GetResponse(t) == Reply("get_response", EndpointOf(t), {t})

\* A reply that does not fit is built again one level lower.  That concerns the
\* data endpoint's alone: the longest values a SET may leave in the root
\* endpoint's blobs fit at configuration level, and only those are ever marked.
PollReply(endpoint) ==
    Reply("poll_reply", endpoint, QueryTids(last_poll_query_level, endpoint))

SetReply ==
    Reply("set_reply", rx.set_reply_endpoint,
          {rx.set_tids[i] : i \in DOMAIN rx.set_tids})

\* The datagrams go out, carrying the values the blobs hold.
Transmit(datagrams) ==
    known' = [t \in Tid |-> IF \E i \in DOMAIN datagrams : t \in datagrams[i].tids
                            THEN value[t] ELSE known[t]]

When(condition, datagrams) == IF condition THEN datagrams ELSE <<>>

-------------------------------------------------------------------------------
\* The receive timer

StartTick ==
    /\ phase = "idle"
    /\ phase' = "receiving"
    /\ packet_budget' = PacketBudget
    /\ UNCHANGED <<blobs, polls, form, change_count, keys_valid, rx, known, uncounted>>

\* A packet that has passed the checks of ProcessIncomingPacket.
ReceivePacket(p) ==
    /\ phase = "receiving"
    /\ packet_budget > 0
    /\ keys_valid
    /\ packet_budget' = packet_budget - 1
    /\ phase' = "parsing"
    /\ rx' = Received(p)
    /\ UNCHANGED <<blobs, polls, form, change_count, keys_valid, known, uncounted>>

NextTlv == Head(rx.tlvs)
Parsing(kind) ==
    /\ phase = "parsing"
    /\ rx.tlvs # <<>>
    /\ NextTlv.kind = kind
Addressed ==
    rx.endpoint = BROADCAST_ENDPOINT \/ rx.endpoint = EndpointOf(NextTlv.tid)
Consumed == [rx EXCEPT !.tlvs = Tail(@)]

\* Mutant of PollMatches: any query level is taken.
PollMatchesAnyLevel(tlv) ==
    tlv.in_range /\ tlv.target \in {BROADCAST_ENDPOINT, RootEndpoint, DataEndpoint}

\* TID_POLL: HandlePollTLV matches this node and one of its endpoints.
PollMatches(tlv) ==
    /\ tlv.query_level <= QUERY_EXTENDED
    /\ tlv.in_range
    /\ tlv.target \in {BROADCAST_ENDPOINT, RootEndpoint, DataEndpoint}

ProcessPoll ==
    /\ Parsing("poll")
    /\ IF PollMatches(NextTlv)
       THEN /\ last_poll_reply_root' = (NextTlv.target # DataEndpoint)
            /\ last_poll_reply_data' = (NextTlv.target # RootEndpoint)
            /\ last_poll_query_level' = NextTlv.query_level
            /\ rx' = [Consumed EXCEPT !.poll_triggered = TRUE]
       ELSE /\ rx' = Consumed
            /\ UNCHANGED polls
    /\ UNCHANGED <<blobs, form, change_count, keys_valid, phase, packet_budget,
                   known, uncounted>>

\* A zero-length TLV asks for a value: HandleGetRequest answers at once.
ProcessGet ==
    /\ Parsing("get")
    /\ Addressed
    /\ \E ok \in BOOLEAN :
          Transmit(When(ok, <<GetResponse(NextTlv.tid)>>))
    /\ rx' = Consumed
    /\ UNCHANGED <<blobs, polls, form, change_count, keys_valid, phase,
                   packet_budget, uncounted>>

IsValidSetPayload(tlv) == tlv.value # InvalidValue

\* SET_RESULT_REJECTED: nothing stored, the transaction marked invalid.
RejectSet ==
    /\ Parsing("set")
    /\ Addressed
    /\ ~IsValidSetPayload(NextTlv)
    /\ rx' = [Consumed EXCEPT !.set_transaction_invalid = TRUE]
    /\ UNCHANGED <<blobs, polls, form, change_count, keys_valid, phase,
                   packet_budget, known, uncounted>>

\* HandleSetRequest stores the value at once, and its caller takes note of it.
ApplySet ==
    /\ Parsing("set")
    /\ Addressed
    /\ IsValidSetPayload(NextTlv)
    /\ LET t == NextTlv.tid
           value_changed == value[t] # NextTlv.value
           counts == value_changed /\ IsTidPersistent(t)
       IN  /\ value' = [value EXCEPT ![t] = NextTlv.value]
           /\ manager_is_stale' = [manager_is_stale EXCEPT ![t] = FALSE]
           /\ ui_is_stale' = [ui_is_stale EXCEPT ![t] = TRUE]
           /\ known' = [known EXCEPT ![t] = NextTlv.value]
           /\ rx' = [Consumed EXCEPT
                       !.set_tids = IF Len(@) < MAX_SET_TIDS_PER_PACKET
                                    THEN Append(@, t) ELSE @,
                       !.set_reply_endpoint = EndpointOf(t),
                       !.set_any_persistent = @ \/ counts]
           /\ uncounted' = (uncounted \/ counts)
    /\ UNCHANGED <<polls, form, change_count, keys_valid, phase, packet_budget>>

\* GET or SET of a parameter the addressed endpoint does not have.
IgnoreTlv ==
    /\ phase = "parsing"
    /\ rx.tlvs # <<>>
    /\ NextTlv.kind \in {"get", "set"}
    /\ ~Addressed
    /\ rx' = Consumed
    /\ UNCHANGED <<blobs, polls, form, change_count, keys_valid, phase,
                   packet_budget, known, uncounted>>

\* SendProactiveResponse: the root endpoint's reply and then the data
\* endpoint's, which is not tried when the first one fails.
ReplyRoot == last_poll_reply_root
ReplyData == last_poll_reply_data \/ ~last_poll_reply_root

ProactiveResponse(ok) ==
    When(ReplyRoot /\ "root" \in ok, <<PollReply(RootEndpoint)>>)
    \o When(ReplyData /\ (ReplyRoot => "root" \in ok) /\ "data" \in ok,
            <<PollReply(DataEndpoint)>>)

ProactiveResponseSent(ok) ==
    (ReplyRoot => "root" \in ok) /\ (ReplyData => "data" \in ok)

\* After the last TLV: SendProactiveResponse for a poll, then CHANGE_COUNT and
\* SendSetReply for a SET transaction none of whose TLVs was rejected.  Which
\* of the transmissions succeed is in ok.
EndOfPacket(ok) ==
    /\ phase = "parsing"
    /\ rx.tlvs = <<>>
    /\ LET confirmed == rx.set_tids # <<>> /\ ~rx.set_transaction_invalid
           counts == confirmed /\ rx.set_any_persistent
       IN  /\ Transmit(When(rx.poll_triggered, ProactiveResponse(ok))
                       \o When(confirmed /\ "set" \in ok, <<SetReply>>))
           /\ change_count' = IF counts THEN (change_count + 1) % CountMod
                                        ELSE change_count
           /\ uncounted' = (uncounted /\ ~counts)
    /\ manager_is_stale' = IF rx.poll_triggered /\ ProactiveResponseSent(ok)
                           THEN NoFlags ELSE manager_is_stale
    /\ rx' = NoPacket
    /\ phase' = "receiving"
    /\ UNCHANGED <<value, ui_is_stale, polls, form, keys_valid, packet_budget>>

\* Mutant of StaleTids: the scan stops one blob short.
StaleTidsButLast(endpoint) ==
    {t \in Tid \ {TID_RT_DEVICE_LABEL} :
        manager_is_stale[t] /\ EndpointOf(t) = endpoint}

StaleTids(endpoint) ==
    {t \in Tid : manager_is_stale[t] /\ EndpointOf(t) = endpoint}

StaleResponse(endpoint) == Reply("stale", endpoint, StaleTids(endpoint))

\* Mutant of SyncUIFromStaleBlobs: the label's branch only drops the flag.
SyncUIFlagsOnly ==
    /\ spin_universe' = IF ui_is_stale[TID_EP_UNIVERSE]
                        THEN value[TID_EP_UNIVERSE] ELSE spin_universe
    /\ ui_is_stale' = NoFlags
    /\ UNCHANGED <<edit_label, typed>>

SyncUIFromStaleBlobs ==
    /\ IF ui_is_stale[TID_RT_DEVICE_LABEL]
       THEN edit_label' = value[TID_RT_DEVICE_LABEL] /\ typed' = FALSE
       ELSE UNCHANGED <<edit_label, typed>>
    /\ spin_universe' = IF ui_is_stale[TID_EP_UNIVERSE]
                        THEN value[TID_EP_UNIVERSE] ELSE spin_universe
    /\ ui_is_stale' = NoFlags

\* Mutant of SendStaleTIDsToManager: the flags go whatever became of the sends.
SendStaleAndForget(ok) ==
    LET isSent(e) == keys_valid /\ StaleTids(e) # {} /\ e \in ok
        Flush(e) == When(isSent(e), <<StaleResponse(e)>>)
    IN  /\ Transmit(Flush(RootEndpoint) \o Flush(DataEndpoint))
        /\ manager_is_stale' = IF keys_valid THEN NoFlags ELSE manager_is_stale

\* One datagram per endpoint with stale blobs; the flags go only when every
\* one of them went out.
SendStaleTIDsToManager(ok) ==
    LET stale(e) == keys_valid /\ StaleTids(e) # {}
        isSent(e) == stale(e) /\ e \in ok
        Flush(e) == When(isSent(e), <<StaleResponse(e)>>)
    IN  /\ Transmit(Flush(RootEndpoint) \o Flush(DataEndpoint))
        /\ manager_is_stale' =
             IF /\ \E e \in Endpoint : stale(e)
                /\ \A e \in Endpoint : stale(e) => isSent(e)
             THEN NoFlags ELSE manager_is_stale

\* The socket is empty or the budget used up: the rest of ReceiveTimerTick.
FinishTick(ok) ==
    /\ phase = "receiving"
    /\ SyncUIFromStaleBlobs
    /\ SendStaleTIDsToManager(ok)
    /\ phase' = "idle"
    /\ packet_budget' = 0
    /\ UNCHANGED <<value, polls, change_count, keys_valid, rx, uncounted>>

-------------------------------------------------------------------------------
\* The operator

TypeLabel(text) ==
    /\ phase = "idle"
    /\ edit_label' = text
    /\ typed' = TRUE
    /\ UNCHANGED <<blobs, polls, change_count, spin_universe, keys_valid, phase,
                   packet_budget, rx, known, uncounted>>

\* CommitRootDeviceLabelFromUI on leaving the box or Enter: an empty box is not
\* committed, an unchanged label not marked.  CHANGE_COUNT does not move: the
\* mark alone is to tell the manager.
CommitLabel ==
    LET label == Trim[edit_label]
        changed == label # value[TID_RT_DEVICE_LABEL]
    IN  /\ phase = "idle"
        /\ label # NoLabel
        /\ value' = [value EXCEPT ![TID_RT_DEVICE_LABEL] = label]
        /\ manager_is_stale' =
             [manager_is_stale EXCEPT ![TID_RT_DEVICE_LABEL] = @ \/ changed]
        /\ uncounted' = (uncounted \/ changed)
        /\ typed' = FALSE
        /\ UNCHANGED <<ui_is_stale, polls, change_count, edit_label,
                       spin_universe, keys_valid, phase, packet_budget, rx,
                       known>>

\* No event of the spin control is wired to CommitControlFromUI.
SpinUniverse(u) ==
    /\ phase = "idle"
    /\ spin_universe' = u
    /\ UNCHANGED <<blobs, polls, change_count, edit_label, typed, keys_valid,
                   phase, packet_budget, rx, known, uncounted>>

SelectK0(valid) ==
    /\ phase = "idle"
    /\ keys_valid' = valid
    /\ UNCHANGED <<blobs, polls, form, change_count, phase, packet_budget, rx,
                   known, uncounted>>

Deprovision ==
    /\ phase = "idle"
    /\ keys_valid' = FALSE
    /\ UNCHANGED <<blobs, polls, form, change_count, phase, packet_budget, rx,
                   known, uncounted>>

-------------------------------------------------------------------------------
ProcessTlv == ProcessPoll \/ ProcessGet \/ RejectSet \/ ApplySet \/ IgnoreTlv

Operator ==
    \/ \E text \in UiLabel : TypeLabel(text)
    \/ CommitLabel
    \/ \E u \in UiUniverse : SpinUniverse(u)
    \/ \E valid \in BOOLEAN : SelectK0(valid)
    \/ Deprovision

Thread ==
    \/ StartTick
    \/ ProcessTlv
    \/ \E ok \in SUBSET {"root", "data", "set"} : EndOfPacket(ok)
    \/ \E ok \in SUBSET Endpoint : FinishTick(ok)

Next ==
    \/ Thread
    \/ \E p \in Packet : ReceivePacket(p)
    \/ Operator

Spec == Init /\ [][Next]_vars

\* The timer keeps firing and a tick that began comes to its end: it takes at
\* most PacketBudget packets.  A transmission tried again and again gets out.
Fairness ==
    /\ WF_vars(Thread)
    /\ SF_vars(FinishTick(Endpoint))

FairSpec == Spec /\ Fairness

-------------------------------------------------------------------------------
(***************************************************************************)
(* Properties                                                               *)
(***************************************************************************)

\* Types.
TypeOK ==
    /\ value \in [Tid -> Value] /\ \A t \in Tid : value[t] \in ValuesOf(t)
    /\ manager_is_stale \in [Tid -> BOOLEAN]
    /\ ui_is_stale \in [Tid -> BOOLEAN]
    /\ change_count \in 0 .. CountMod - 1
    /\ last_poll_query_level \in QUERY_HEARTBEAT .. QUERY_EXTENDED
    /\ last_poll_reply_root \in BOOLEAN /\ last_poll_reply_data \in BOOLEAN
    /\ edit_label \in LabelValue /\ spin_universe \in UniverseValue
    /\ keys_valid \in BOOLEAN /\ typed \in BOOLEAN
    /\ phase \in {"idle", "receiving", "parsing"}
    /\ packet_budget \in 0 .. PacketBudget
    /\ rx \in Locals /\ Len(rx.set_tids) <= MAX_SET_TIDS_PER_PACKET
    /\ known \in [Tid -> Value]
    /\ uncounted \in BOOLEAN

\* Leaving the label box without having typed in it never undoes a label that a
\* manager has SET: it commits what it shows, and that is the label held but for
\* surrounding blanks, whatever packets and commits came before (ApplySet's
\* ui_is_stale, SyncUIFromStaleBlobs, EditRootDeviceLabelExit).
LabelChangesAreTyped ==
    [][phase = "idle" /\ ~typed
          => Trim[value'[TID_RT_DEVICE_LABEL]] = Trim[value[TID_RT_DEVICE_LABEL]]]_vars

\* A value that differs from what last crossed the network, and that nothing
\* will send by itself.
Forgotten(t) == known[t] # value[t] /\ ~manager_is_stale[t]

\* node-main-form.cpp:2337, "the UI changed a value that the Manager does not
\* yet know about": such a value is marked to be sent (SendProactiveResponse,
\* ClearAllManagerStaleFlags).
UnknownValueIsStale == \A t \in Tid : ~Forgotten(t)

\* The poll of the packet at hand is answered without a value: at heartbeat
\* level, or for the other endpoint only.
AnsweredEndpoints ==
    (IF ReplyRoot THEN {RootEndpoint} ELSE {})
        \union (IF ReplyData THEN {DataEndpoint} ELSE {})

BlindReply(t) ==
    /\ phase = "parsing" /\ rx.tlvs = <<>> /\ rx.poll_triggered
    /\ \/ last_poll_query_level < QUERY_CONFIG
       \/ EndpointOf(t) \notin AnsweredEndpoints

\* A value the operator changed is forgotten in one way only, by such a reply:
\* never by sends that fail, one endpoint's or both, by keys that come and go,
\* by SETs and GETs that cross the edit, or by a poll that asks for the value
\* (SendStaleTIDsToManager, SendProactiveResponse, HandleSetRequest,
\* StoreNodeBlobFromBytesIfChanged).
ForgottenOnlyBlindly ==
    [][\A t \in Tid : ~Forgotten(t) /\ Forgotten(t)' => BlindReply(t)]_vars

\* node-data.hpp:68, change_count is "Incremented when persistent config
\* changes": between packets no persistent value has changed since it last moved,
\* so that a manager which sees the same count need not read them again
\* (HandleSetRequest and the end of ProcessIncomingPacket).
CountStandsForValues == phase # "parsing" => ~uncounted

\* A label the operator commits gets to the manager, if the keys last and no
\* blind reply made the node forget it: it is sent or replaced, over and over
\* again (SendStaleTIDsToManager on a timer).
LabelReachesManager ==
    []<>(\/ ~keys_valid
         \/ Forgotten(TID_RT_DEVICE_LABEL)
         \/ known[TID_RT_DEVICE_LABEL] = value[TID_RT_DEVICE_LABEL])

===============================================================================

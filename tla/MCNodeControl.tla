---------------------------- MODULE MCNodeControl ----------------------------
\* Instances of NodeControl for TLC.  Inbound packets hold one or two TLVs; each
\* configuration chooses the packets and the operator's edits it is about.
EXTENDS NodeControl

CONSTANTS none, house, padded, u1, u2, off, on, invalid

Labels == {none, house, padded}
TrimLabel == [l \in Labels |-> IF l = padded THEN house ELSE l]
Universes == {u1, u2}

Set(t, v) == [kind |-> "set", tid |-> t, value |-> v]
Get(t) == [kind |-> "get", tid |-> t]
Poll(level, target) ==
    [kind |-> "poll", query_level |-> level, target |-> target, in_range |-> TRUE]
PollElsewhere == [kind |-> "poll", query_level |-> QUERY_CONFIG,
                  target |-> BROADCAST_ENDPOINT, in_range |-> FALSE]

To(endpoint, tlvs) == [endpoint |-> endpoint, tlvs |-> tlvs]

SetsOf(t) == {Set(t, v) : v \in ValuesOf(t)}
Bad(t) == Set(t, InvalidValue)

OneOf(tlvs) ==
    {To(e, <<tlv>>) : e \in {RootEndpoint, BROADCAST_ENDPOINT}, tlv \in tlvs}

\* Polls that ask for the values of either endpoint or both, polls that ask for
\* none, polls for another node or of an unknown level, valid and rejected SETs
\* and GETs, alone, at either endpoint or broadcast; and packets of two TLVs,
\* among them polls after a SET, and SETs of which one is refused.
ControlPacket ==
    OneOf({Poll(QUERY_CONFIG, target) :
              target \in {RootEndpoint, DataEndpoint, BROADCAST_ENDPOINT}}
          \union SetsOf(TID_RT_DEVICE_LABEL)
          \union {Bad(TID_RT_DEVICE_LABEL), Get(TID_RT_DEVICE_LABEL),
                  Set(TID_EP_UNIVERSE, u2), PollElsewhere,
                  Poll(QUERY_HEARTBEAT, BROADCAST_ENDPOINT),
                  Poll(QUERY_EXTENDED + 1, RootEndpoint)})
    \union {To(BROADCAST_ENDPOINT, <<a, b>>) :
              a \in {Set(TID_RT_DEVICE_LABEL, padded), Set(TID_RT_IDENTIFY, on),
                     Bad(TID_RT_IDENTIFY)},
              b \in {Set(TID_RT_DEVICE_LABEL, house), Set(TID_EP_UNIVERSE, u1),
                     Bad(TID_EP_UNIVERSE), Poll(QUERY_CONFIG, RootEndpoint),
                     Poll(QUERY_HEARTBEAT, BROADCAST_ENDPOINT)}}

\* A valid SET, then one that is refused.
VoidedPacket ==
    {To(RootEndpoint, <<Set(TID_RT_DEVICE_LABEL, house), Bad(TID_RT_IDENTIFY)>>)}

HeartbeatPacket == {To(DataEndpoint, <<Poll(QUERY_HEARTBEAT, BROADCAST_ENDPOINT)>>)}
===============================================================================

----------------------------- MODULE SignetPackets -----------------------------
(***************************************************************************)
(* The datagrams the SDK and its node send, as messages of PacketCodec:     *)
(* which options in which order with which lengths, and which TLVs.  Every  *)
(* builder of sig-net-send.cpp, sig-net-coap.cpp, sig-net-tlv.cpp and        *)
(* sig-net-node-data.cpp is an operator of the lengths that may vary.       *)
(***************************************************************************)
EXTENDS PacketCodec

SIGNET_URI_SCOPE_MAX_LENGTH == 32
TID_BLOB_MAX_BYTES == 512
CORE_TID_COUNT == 4
SUPPORTED_TID_COUNT == 24

\* snprintf "%u".
Digits(n) == CASE n < 10 -> 1 [] n \in 10 .. 99 -> 2 [] n \in 100 .. 999 -> 3
               [] n \in 1000 .. 9999 -> 4 [] n >= 10000 -> 5

Option(number, length) == [number |-> number, length |-> length]

UriPath(lengths) == [i \in 1 .. Len(lengths) |-> Option(URI_PATH, lengths[i])]

-------------------------------------------------------------------------------
(***************************************************************************)
(* Options: "sig-net", "v1", the scope, and what follows it                 *)
(***************************************************************************)

\* The lengths of a scope that is set.
SetURIScope == 1 .. SIGNET_URI_SCOPE_MAX_LENGTH

BuildURIPathOptions(scope, universe) == UriPath(<<7, 2, scope, 5, Digits(universe)>>)

BuildNodeURIPathOptions(scope, endpoint) ==
    UriPath(<<7, 2, scope, 4, 12, Digits(endpoint)>>)

BuildNodeLostURIPathOptions(scope) == UriPath(<<7, 2, scope, 9, 12, 1>>)

BuildPollURIPathOptions(scope) == UriPath(<<7, 2, scope, 4>>)

BuildCommonSigNetOptions ==
    <<Option(SECURITY_MODE, 1), Option(SENDER_ID, 8), Option(MFG_CODE, 2),
      Option(SESSION_ID, 4), Option(SEQ_NUM, 4)>>

\* What FinalizePacketWithHMACAndPayload sends: the payloads are those of one
\* reply with its retries, or the only one of a packet that is sent or not.
Packet(uri, payloads) ==
    [options |-> uri \o BuildCommonSigNetOptions \o <<Option(HMAC, HMAC_SHA256_LENGTH)>>,
     payloads |-> payloads]

-------------------------------------------------------------------------------
(***************************************************************************)
(* Payloads: the lengths of the TLVs' values, in order                      *)
(***************************************************************************)

POLL == 25
POLL_REPLY == 12
SET_REPLY == 3
SECURITY_EVENT == 11

\* A text of more than 64 characters is an error of the encoder.
FIRMWARE_VERSION(text) == IF text > 64 THEN Unencodable ELSE 4 + text

\* How long the values are that the blobs hold.  A SET checks that a label is
\* an encoding and at most 64 characters; these others it lets have any length.
Text == 1 .. 65
AnyLength == 1 .. TID_BLOB_MAX_BYTES
IsValidSetPayload ==
    [label : Text, model : Text, count : AnyLength, status : AnyLength,
     supported : AnyLength, firmware : AnyLength, role : AnyLength, event : AnyLength,
     flow : AnyLength, refresh : AnyLength, capability : AnyLength,
     protocol : AnyLength]

BuildDMXPacket(scope, universe, slots) ==
    Packet(BuildURIPathOptions(scope, universe), <<<<slots>>>>)

\* POLL_REPLY, PROTOCOL_VERSION, ROLE_CAPABILITY, ENDPOINT_COUNT, MULT_OVERRIDE,
\* as the SDK sends them.
BuildStartupAnnouncePayload == <<POLL_REPLY, 1, 4, 2, 1>>

BuildAnnouncePacket(scope) ==
    Packet(BuildNodeURIPathOptions(scope, 0), <<BuildStartupAnnouncePayload>>)

\* The node program announces itself with what its blobs hold, when it boots and,
\* to another URI, while it is lost.
SendAnnounce(scope, lost_mode, held) ==
    Packet(IF lost_mode THEN BuildNodeLostURIPathOptions(scope)
                        ELSE BuildNodeURIPathOptions(scope, 0),
           <<<<POLL_REPLY, held.protocol, held.role, held.count, 1>>>>)

BuildPollPacket(scope) == Packet(BuildPollURIPathOptions(scope), <<<<POLL>>>>)

\* One TLV for each event code that was counted.
BuildSecurityEventPacket(scope, codes) ==
    Packet(BuildNodeURIPathOptions(scope, 0),
           <<[i \in 1 .. codes |-> SECURITY_EVENT]>>)

\* The values an endpoint has to report, and the confirmation of a SET.
BuildStalePacket(scope, endpoint, values) ==
    Packet(BuildNodeURIPathOptions(scope, endpoint), <<values>>)

BuildSetReplyPacket(scope, endpoint, values) ==
    BuildStalePacket(scope, endpoint, Append(values, SET_REPLY))

BuildSupportedTidBytes == 2 * (CORE_TID_COUNT + SUPPORTED_TID_COUNT)

\* What a query level adds to the one below it, per endpoint.
QUERY_HEARTBEAT(endpoint, held) ==
    IF endpoint = 0 THEN <<POLL_REPLY, held.count, 1>> ELSE <<POLL_REPLY>>

QUERY_CONFIG(endpoint, held) ==
    IF endpoint = 0 THEN <<held.label, 1, held.status>>
    ELSE <<1, held.flow, 2, held.label, 4, 1, 1, held.status, 3, 2, held.refresh, 1,
           held.capability>>

\* The firmware's version is held as an identifier of two bytes and its text,
\* or else the default is sent, of ten characters.  The capability of the data
\* endpoint is there a second time.
QUERY_FULL(endpoint, held) ==
    IF endpoint = 0
    THEN <<held.supported, 1,
           FIRMWARE_VERSION(IF held.firmware >= 2 THEN held.firmware - 2 ELSE 10),
           held.role, held.model>>
    ELSE <<held.capability>>

QUERY_EXTENDED(endpoint, held) == IF endpoint = 0 THEN <<held.event>> ELSE <<>>

\* One payload for each query level, up to the one that was asked for.
BuildNodeQueryPayload(endpoint, query_level, held) ==
    LET adds == <<QUERY_HEARTBEAT(endpoint, held), QUERY_CONFIG(endpoint, held),
                  QUERY_FULL(endpoint, held), QUERY_EXTENDED(endpoint, held)>>
    IN  [k \in 1 .. query_level + 1 |-> FlattenSeq(SubSeq(adds, 1, k))]

SendPollReplyWithQueryLevel(scope, endpoint, query_level, held) ==
    Packet(BuildNodeURIPathOptions(scope, endpoint),
           BuildNodeQueryPayload(endpoint, query_level, held))

================================================================================

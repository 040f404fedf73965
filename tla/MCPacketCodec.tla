----------------------------- MODULE MCPacketCodec -----------------------------
\* The datagrams of the SDK with the shortest and the longest scope, URI and
\* payload, replies that just fit and just do not, and options of another
\* sender whose numbers and lengths are at every boundary of the coding.
EXTENDS SignetPackets

Scopes == {1, 5, 12, 13, 32} \cap SetURIScope

Sent ==
    {BuildDMXPacket(s, u, n) : s \in Scopes, u \in {1, 63999}, n \in {1, 512}}
    \cup {BuildAnnouncePacket(s) : s \in Scopes}
    \cup {BuildPollPacket(s) : s \in Scopes}
    \cup {BuildSecurityEventPacket(5, codes) : codes \in {1, 8}}
    \cup {BuildSetReplyPacket(5, e, [i \in 1 .. n |-> 65]) : e \in {0, 1}, n \in {1, 17, 18}}
    \cup {BuildStalePacket(5, 1, <<2, 65, 1>>), BuildStalePacket(5, 0, <<0>>)}

\* What the blobs hold at the start, and what SETs may leave in them: the
\* longest label, a firmware text that is too long, values of any length.
Initially ==
    [label |-> 13, model |-> 15, count |-> 2, status |-> 4,
     supported |-> BuildSupportedTidBytes, firmware |-> 12, role |-> 4, event |-> 1,
     flow |-> 2, refresh |-> 1, capability |-> 1,
     protocol |-> 1]

Held ==
    {Initially,
     [Initially EXCEPT !.label = 65, !.model = 65, !.firmware = 66],
     [Initially EXCEPT !.firmware = 67],
     [Initially EXCEPT !.firmware = 1, !.role = 512, !.refresh = 512],
     [Initially EXCEPT !.supported = 512, !.event = 512],
     [Initially EXCEPT !.status = 512, !.supported = 512],
     [Initially EXCEPT !.status = 512, !.supported = 512, !.event = 512],
     [Initially EXCEPT !.status = 512, !.flow = 512, !.capability = 512]}
    \cap IsValidSetPayload

\* Announces of the node: 1400 bytes, one more, and payloads no buffer holds.
Announced ==
    ({Initially} \cup
     {[Initially EXCEPT !.protocol = 512, !.role = 512, !.count = n] :
         n \in {203, 204, 208, 209, 231, 232, 236, 237, 512}})
    \cap IsValidSetPayload

Announces == {SendAnnounce(s, lost, h) : s \in {5, 32}, lost \in BOOLEAN, h \in Announced}

Replies == {SendPollReplyWithQueryLevel(s, e, q, h) :
               s \in {5, 32}, e \in {0, 1}, q \in 0 .. 3, h \in Held}

\* Around the limit: 1400 bytes, one more, and one more again; nothing to send;
\* URI strings of 94 to 97 characters.
AtLimit ==
    {Packet(BuildPollURIPathOptions(5), <<<<n>>>>) : n \in (1300 .. 1308) \cup {1395, 1396, 1397}}
    \cup {Packet(BuildPollURIPathOptions(5), <<<<700>>, <<700, n>>>>) : n \in 595 .. 605}
    \cup {Packet(BuildPollURIPathOptions(5), <<<<>>>>)}
    \cup {Packet(UriPath(<<7, 2, n>>), <<<<1>>>>) : n \in 82 .. 85}

Foreign ==
    {Packet(UriPath(<<7, 2, 5>>) \o <<Option(11 + d, n)>>, <<<<3>>>>) :
        d \in {1, 12, 13, 14, 268, 269, 270}, n \in {0, 12, 13, 268, 269}}
    \cup {[Packet(UriPath(<<7, 2, 5>>), <<<<3>>>>) EXCEPT !.options = Append(@, Option(n, 13))] :
             n \in {2237, 2249, 2505, 65535}}

SomeMessages == Sent \cup Announces \cup Replies \cup AtLimit \cup Foreign
SomeCuts == (0 .. 40) \cup {100, 101, 102, 103, 104, 105, 106, 107}
===============================================================================

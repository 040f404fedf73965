------------------------------ MODULE PacketCodec ------------------------------
(***************************************************************************)
(* A Sig-Net datagram, byte by byte: how it is built (sig-net-coap.cpp,     *)
(* sig-net-security.cpp, sig-net-tlv.cpp, sig-net-send.cpp), and how two     *)
(* readers that share no code take it apart: the node's ExtractPayload      *)
(* (sig-net-parse.cpp) and the finder with which the level transmitter      *)
(* damages a frame on purpose (FindCoapOptionAndPayload, InjectBadFrame).   *)
(*                                                                          *)
(* Positions, lengths and the bytes that code them are exact.  What an      *)
(* option or a TLV holds is Fill bytes: they look like the payload marker,  *)
(* so that a reader that is off by one is led astray.  The HMAC option      *)
(* holds Fill when it matches what was built.  A datagram may arrive cut.   *)
(*                                                                          *)
(* message is the input of a build: the options in order, Uri-Path ones     *)
(* first, and the TLVs of its payload at each level; a reply that does not  *)
(* fit is built again one level lower (SendPollReplyWithQueryLevel).        *)
(***************************************************************************)
EXTENDS Integers, Sequences, SequencesExt

CONSTANTS
    Message,         \* options and payloads: see IsMessage
    CutLength,       \* lengths at which a datagram may arrive cut
    MAX_UDP_PAYLOAD  \* 1400

URI_PATH == 11
SECURITY_MODE == 2076
SENDER_ID == 2108
MFG_CODE == 2140
SESSION_ID == 2172
SEQ_NUM == 2204
HMAC == 2236
HMAC_SHA256_LENGTH == 32
COAP_PAYLOAD_MARKER == 255
Fill == 255

SigNetLength ==
    [n \in {SECURITY_MODE, SENDER_ID, MFG_CODE, SESSION_ID, SEQ_NUM, HMAC} |->
        CASE n = SECURITY_MODE -> 1
          [] n = SENDER_ID -> 8
          [] n = MFG_CODE -> 2
          [] n \in {SESSION_ID, SEQ_NUM} -> 4
          [] n = HMAC -> HMAC_SHA256_LENGTH]

Uint16 == 0 .. 65535

UriStringSize == 96    \* the sender's URI string, with its end
UriSize == 128         \* the receiver's
HmacInputSize == 1400
Unencodable == -1      \* a TLV's value that its encoder refuses
HmacFields == 19       \* the options' values the HMAC covers

\* Uri-Path options come first, then others in ascending order, the six of
\* Sig-Net among them.
IsMessage(m) ==
    /\ m \in [options : Seq([number : Uint16, length : Uint16]),
              payloads : Seq(Seq(Uint16 \union {Unencodable}))]
    /\ m.payloads # <<>>
    /\ m.options # <<>> /\ m.options[1].number = URI_PATH
    /\ \A i, j \in DOMAIN m.options : i < j => m.options[i].number <= m.options[j].number
    /\ \A n \in DOMAIN SigNetLength : \E i \in DOMAIN m.options : m.options[i].number = n
    /\ \A i \in DOMAIN m.options : \A n \in DOMAIN SigNetLength :
          m.options[i].number = n => m.options[i].length = SigNetLength[n]

ASSUME MessageAssumption == \A m \in Message : IsMessage(m)

\* A datagram has room for its header, and the HMAC's input for its payload.
ASSUME SizeAssumption ==
    MAX_UDP_PAYLOAD \in 4 .. HmacInputSize /\ CutLength \subseteq Nat

VARIABLES
    message,
    phase,
    level,       \* which of the payloads this attempt sends
    payload,     \* the payload's own PacketBuffer
    buffer,      \* the packet's PacketBuffer
    written,     \* options encoded: number, length, offset of the value
    size,        \* bytes that arrived
    damaged,     \* InjectBadFrame went over the packet
    pos,         \* a reader's position
    uri_length,
    parsed,      \* options read, as in written
    blocks,      \* lengths of the TLVs encoded, then of the TLVs read
    found        \* what FindCoapOptionAndPayload has found

vars == <<message, phase, level, payload, buffer, written, size, damaged, pos,
          uri_length, parsed, blocks, found>>

built == <<message, level, payload, written>>

Bytes(n) == [i \in 1 .. n |-> Fill]

NothingFound(length) == [offset |-> 0, length |-> 0, payload |-> length]

Init ==
    /\ message \in Message
    /\ phase = "payload"
    /\ level = Len(message.payloads)
    /\ payload = <<>> /\ buffer = <<>> /\ written = <<>>
    /\ size = 0 /\ damaged = FALSE /\ pos = 0 /\ uri_length = 0
    /\ parsed = <<>> /\ blocks = <<>>
    /\ found = NothingFound(0)

Number(options) == IF options = <<>> THEN 0 ELSE Last(options).number

-------------------------------------------------------------------------------
(***************************************************************************)
(* Building                                                                 *)
(***************************************************************************)

\* Mutant of HasSpace: a full buffer is taken for one that overflows.
HasSpaceBelow(b, n) == Len(b) + n < MAX_UDP_PAYLOAD

\* Mutant of HasSpace: what is already in the buffer is not counted.
HasSpaceEmpty(b, n) == n <= MAX_UDP_PAYLOAD

HasSpace(b, n) == Len(b) + n <= MAX_UDP_PAYLOAD

ExtendedSize(v) == IF v <= 12 THEN 0 ELSE IF v < 269 THEN 1 ELSE 2

Nibble(v) == CASE ExtendedSize(v) = 0 -> v
               [] ExtendedSize(v) = 1 -> 13
               [] ExtendedSize(v) = 2 -> 14

\* Mutant of Extension: the 16-bit form starts where the 8-bit form does.
ExtensionOneBase(v) ==
    CASE ExtendedSize(v) = 0 -> <<>>
      [] ExtendedSize(v) = 1 -> <<v - 13>>
      [] ExtendedSize(v) = 2 -> <<(v - 13) \div 256, (v - 13) % 256>>

Extension(v) ==
    CASE ExtendedSize(v) = 0 -> <<>>
      [] ExtendedSize(v) = 1 -> <<v - 13>>
      [] ExtendedSize(v) = 2 -> <<(v - 269) \div 256, (v - 269) % 256>>

OptionBytes(previous, o) ==
    LET delta == o.number - previous
    IN  <<Nibble(delta) * 16 + Nibble(o.length)>> \o Extension(delta)
            \o Extension(o.length) \o Bytes(o.length)

TlvBytes(length) == <<9, 1, length \div 256, length % 256>> \o Bytes(length)

\* The sums of the first n numbers of a sequence, for all n.
Sums(s) ==
    LET sum[n \in 0 .. Len(s)] == IF n = 0 THEN 0 ELSE sum[n - 1] + s[n] IN sum

Total(s) == Sums(s)[Len(s)]

Blocks(k) == message.payloads[k]

\* "/" and the text, of each Uri-Path option.
Segments(options) ==
    [i \in 1 .. Len(options) |->
        IF options[i].number = URI_PATH THEN 1 + options[i].length ELSE 0]

UriLength == Total(Segments(message.options))

StartOver(k) ==
    /\ phase' = "payload" /\ level' = k
    /\ payload' = <<>> /\ buffer' = <<>> /\ written' = <<>> /\ blocks' = <<>>

reading == <<size, damaged, pos, uri_length, parsed, found>>

GiveUp ==
    /\ phase' = "failed"
    /\ UNCHANGED <<level, payload, buffer, written, blocks>>

\* SIGNET_ERROR_BUFFER_FULL of the payload, the HMAC or the end: the reply is
\* built again one query level lower.  Any other error ends it.
BufferFull ==
    /\ IF level > 1 THEN StartOver(level - 1) ELSE GiveUp
    /\ UNCHANGED message /\ UNCHANGED reading

EncodeTLV ==
    /\ phase = "payload"
    /\ Len(blocks) < Len(Blocks(level))
    /\ LET length == Blocks(level)[Len(blocks) + 1]
       IN  IF length = Unencodable
           THEN GiveUp /\ UNCHANGED message /\ UNCHANGED reading
           ELSE IF HasSpace(payload, 4 + length)
           THEN /\ payload' = payload \o TlvBytes(length)
                /\ blocks' = Append(blocks, length)
                /\ UNCHANGED <<message, phase, level, buffer, written>>
                /\ UNCHANGED reading
           ELSE BufferFull

\* The URI string is made first: one that does not fit ends the build.
BuildCoAPHeader ==
    /\ phase = "payload"
    /\ Len(blocks) = Len(Blocks(level))
    /\ phase' = IF UriLength < UriStringSize THEN "build" ELSE "failed"
    /\ buffer' = <<80, 2, 0, 1>>
    /\ UNCHANGED <<message, level, payload, written, blocks>>
    /\ UNCHANGED reading

\* The HMAC is computed over the URI, the options' values and the payload.
EncodeCoAPOption ==
    /\ phase = "build"
    /\ Len(written) < Len(message.options)
    /\ LET o == message.options[Len(written) + 1]
           bytes == OptionBytes(Number(written), o)
           fits == /\ HasSpace(buffer, Len(bytes))
                   /\ o.number = HMAC =>
                        UriLength + HmacFields + Len(payload) <= HmacInputSize
       IN  IF fits
           THEN /\ buffer' = buffer \o bytes
                /\ written' = Append(written,
                       [number |-> o.number, length |-> o.length,
                        offset |-> Len(buffer) + Len(bytes) - o.length])
                /\ UNCHANGED <<message, phase, level, payload, blocks>>
                /\ UNCHANGED reading
           ELSE IF o.number = HMAC
           THEN BufferFull
           ELSE GiveUp /\ UNCHANGED message /\ UNCHANGED reading

\* A packet without a payload has no marker.
FinalizePacket ==
    /\ phase = "build"
    /\ Len(written) = Len(message.options)
    /\ LET tail == IF payload = <<>> THEN <<>> ELSE <<COAP_PAYLOAD_MARKER>> \o payload
       IN  IF HasSpace(buffer, Len(tail))
           THEN /\ buffer' = buffer \o tail
                /\ phase' = "built"
                /\ UNCHANGED <<message, level, payload, written, blocks>>
                /\ UNCHANGED reading
           ELSE BufferFull

-------------------------------------------------------------------------------
(***************************************************************************)
(* The finder                                                               *)
(***************************************************************************)

ByteAt(p) == IF p < Len(buffer) THEN buffer[p + 1] ELSE 0

\* DecodeCoapNibble: the value, and where the next field starts.
DecodeCoapNibble(nibble, p) ==
    CASE nibble <= 12 -> [value |-> nibble, next |-> p]
      [] nibble = 13 -> [value |-> ByteAt(p) + 13, next |-> p + 1]
      [] nibble = 14 -> [value |-> ByteAt(p) * 256 + ByteAt(p + 1) + 269, next |-> p + 2]

StartFinder ==
    /\ phase = "built" /\ ~damaged
    /\ phase' = "find" /\ pos' = 4
    /\ found' = NothingFound(Len(buffer))
    /\ UNCHANGED <<built, buffer, size, damaged, uri_length, parsed, blocks>>

\* Mutant of FindOption: the offset is taken before the length's extension.
FindOptionEarly ==
    /\ phase = "find" /\ pos < Len(buffer) /\ ByteAt(pos) # COAP_PAYLOAD_MARKER
    /\ LET delta == DecodeCoapNibble(ByteAt(pos) \div 16, pos + 1)
           length == DecodeCoapNibble(ByteAt(pos) % 16, delta.next)
           number == Number(parsed) + delta.value
       IN  /\ pos' = length.next + length.value
           /\ parsed' = Append(parsed, [number |-> number, length |-> length.value,
                                        offset |-> delta.next])
           /\ found' = IF number = HMAC
                       THEN [found EXCEPT !.offset = delta.next, !.length = length.value]
                       ELSE found
    /\ UNCHANGED <<built, phase, buffer, size, damaged, uri_length, blocks>>

FindOption ==
    /\ phase = "find" /\ pos < Len(buffer) /\ ByteAt(pos) # COAP_PAYLOAD_MARKER
    /\ LET delta == DecodeCoapNibble(ByteAt(pos) \div 16, pos + 1)
           length == DecodeCoapNibble(ByteAt(pos) % 16, delta.next)
           number == Number(parsed) + delta.value
       IN  /\ pos' = length.next + length.value
           /\ parsed' = Append(parsed, [number |-> number, length |-> length.value,
                                        offset |-> length.next])
           /\ found' = IF number = HMAC
                       THEN [found EXCEPT !.offset = length.next, !.length = length.value]
                       ELSE found
    /\ UNCHANGED <<built, phase, buffer, size, damaged, uri_length, blocks>>

FindPayload ==
    /\ phase = "find" /\ (pos >= Len(buffer) \/ ByteAt(pos) = COAP_PAYLOAD_MARKER)
    /\ found' = IF pos < Len(buffer) THEN [found EXCEPT !.payload = pos + 1] ELSE found
    /\ phase' = "found"
    /\ UNCHANGED <<built, buffer, size, damaged, pos, uri_length, parsed, blocks>>

\* Every byte of the HMAC is complemented; text goes over the payload's start.
InjectBadFrame ==
    /\ phase = "found" /\ found.length = HMAC_SHA256_LENGTH
    /\ LET in_hmac(i) == i > found.offset /\ i <= found.offset + found.length
           in_text(i) == i > found.payload /\ i <= found.payload + 34
       IN  buffer' = [i \in 1 .. Len(buffer) |->
                         CASE in_hmac(i) -> 255 - buffer[i]
                           [] ~in_hmac(i) /\ in_text(i) -> 32
                           [] OTHER -> buffer[i]]
    /\ damaged' = TRUE /\ phase' = "built" /\ parsed' = <<>>
    /\ UNCHANGED <<built, size, pos, uri_length, blocks, found>>

-------------------------------------------------------------------------------
(***************************************************************************)
(* The node's parser                                                        *)
(***************************************************************************)

\* It arrives whole, or cut; blocks now counts what is read.
Arrive(n) ==
    /\ phase = "built"
    /\ size' = n
    /\ phase' = IF n < 4 THEN "rejected" ELSE "uri"
    /\ pos' = 4 /\ uri_length' = 1 /\ parsed' = <<>> /\ blocks' = <<>>
    /\ UNCHANGED <<built, buffer, damaged, found>>

Extended(nibble, p) ==
    CASE nibble <= 12 -> [value |-> nibble, next |-> p]
      [] nibble = 13 -> [value |-> 13 + ByteAt(p), next |-> p + 1]
      [] nibble = 14 -> [value |-> 269 + ByteAt(p) * 256 + ByteAt(p + 1), next |-> p + 2]

\* "marker" is SIGNET_ERROR_INVALID_PACKET, "short" SIGNET_ERROR_BUFFER_TOO_SMALL:
\* the end of the datagram is no end of its options.
ParseCoAPOption ==
    LET header == ByteAt(pos)
        delta == Extended(header \div 16, pos + 1)
        length == Extended(header % 16, delta.next)
    IN  CASE pos >= size -> [kind |-> "short"]
          [] pos < size /\ header = COAP_PAYLOAD_MARKER -> [kind |-> "marker"]
          [] pos < size /\ header # COAP_PAYLOAD_MARKER ->
               IF length.next + length.value > size
               THEN [kind |-> "short"]
               ELSE [kind |-> "option", next |-> length.next + length.value,
                     option |-> [number |-> Number(parsed) + delta.value,
                                 length |-> length.value, offset |-> length.next]]

Reject ==
    /\ phase' = "rejected"
    /\ UNCHANGED <<built, buffer, size, damaged, pos, uri_length, parsed, blocks, found>>

ReadOption(r) ==
    /\ parsed' = Append(parsed, r.option)
    /\ pos' = r.next

\* The first option past Uri-Path, or the marker, ends the URI.
ExtractURIString ==
    /\ phase = "uri"
    /\ LET r == ParseCoAPOption
           is_uri == r.kind = "option" /\ r.option.number = URI_PATH
           grown == uri_length + (IF parsed = <<>> THEN 0 ELSE 1) + r.option.length
       IN  CASE r.kind = "short" -> Reject
             [] is_uri ->
                  IF grown > UriSize
                  THEN Reject
                  ELSE /\ ReadOption(r)
                       /\ uri_length' = grown
                       /\ UNCHANGED <<built, phase, buffer, size, damaged, blocks, found>>
             [] r.kind # "short" /\ ~is_uri ->
                  IF uri_length >= UriSize
                  THEN Reject
                  ELSE /\ phase' = "options" /\ pos' = 4 /\ parsed' = <<>>
                       /\ UNCHANGED <<built, buffer, size, damaged, uri_length, blocks, found>>

\* The payload that came and the HMAC option match what was built.
VerifyPacketHMAC(payload_at) ==
    /\ SubSeq(buffer, payload_at + 1, size) = payload
    /\ \A i \in 1 .. Len(parsed) :
          parsed[i].number = HMAC =>
            \A b \in 1 .. parsed[i].length : buffer[parsed[i].offset + b] = Fill

\* It reads all options from the start.  At the marker, all six must have been
\* there, and the HMAC is verified over the rest of the datagram.
ParseSigNetOptions ==
    /\ phase = "options"
    /\ LET r == ParseCoAPOption
           complete == DOMAIN SigNetLength \subseteq {parsed[i].number : i \in 1 .. Len(parsed)}
       IN  CASE r.kind = "short" -> Reject
             [] r.kind = "option" ->
                  IF /\ r.option.number \in DOMAIN SigNetLength
                     /\ r.option.length # SigNetLength[r.option.number]
                  THEN Reject
                  ELSE /\ ReadOption(r)
                       /\ UNCHANGED <<built, phase, buffer, size, damaged, uri_length,
                                      blocks, found>>
             [] r.kind = "marker" ->
                  IF complete
                  THEN /\ phase' = IF VerifyPacketHMAC(pos + 1) THEN "tlvs" ELSE "hmac_failed"
                       /\ pos' = pos + 1
                       /\ UNCHANGED <<built, buffer, size, damaged, uri_length, parsed,
                                      blocks, found>>
                  ELSE Reject

\* ProcessIncomingPacket's loop over the payload ends with what is left below
\* the size of a TLV's header, or with a TLV that is longer than what is left.
ParseTLVBlock ==
    /\ phase = "tlvs"
    /\ LET length == ByteAt(pos + 2) * 256 + ByteAt(pos + 3)
       IN  IF size - pos >= 4 /\ pos + 4 + length <= size
           THEN /\ blocks' = Append(blocks, length)
                /\ pos' = pos + 4 + length
                /\ UNCHANGED <<built, phase, buffer, size, damaged, uri_length, parsed, found>>
           ELSE /\ phase' = "accepted"
                /\ UNCHANGED <<built, buffer, size, damaged, pos, uri_length, parsed,
                               blocks, found>>

-------------------------------------------------------------------------------
Next ==
    \/ EncodeTLV \/ BuildCoAPHeader \/ EncodeCoAPOption \/ FinalizePacket
    \/ StartFinder \/ FindOption \/ FindPayload \/ InjectBadFrame
    \/ \E n \in CutLength \cup {Len(buffer)} : n <= Len(buffer) /\ Arrive(n)
    \/ ExtractURIString \/ ParseSigNetOptions \/ ParseTLVBlock

Spec == Init /\ [][Next]_vars

-------------------------------------------------------------------------------
(***************************************************************************)
(* Properties                                                               *)
(***************************************************************************)

Building == {"payload", "build"}
Reading == {"uri", "options", "tlvs", "accepted", "rejected", "hmac_failed"}

\* Types; neither buffer is ever longer than a datagram may be.
CodecTypeOK ==
    /\ message \in Message
    /\ phase \in Building \cup Reading \cup {"failed", "built", "find", "found"}
    /\ level \in 1 .. Len(message.payloads)
    /\ Len(payload) <= MAX_UDP_PAYLOAD /\ Len(buffer) <= MAX_UDP_PAYLOAD
    /\ size \in 0 .. MAX_UDP_PAYLOAD /\ pos \in Nat /\ uri_length \in 0 .. UriSize
    /\ damaged \in BOOLEAN
    /\ found.offset + found.length <= MAX_UDP_PAYLOAD

\* What the datagram with the k-th payload takes, counted without building it.
OptionSizes(options) ==
    LET ext(v) == IF v < 13 THEN 0 ELSE IF v < 269 THEN 1 ELSE 2
        before(i) == IF i = 1 THEN 0 ELSE options[i - 1].number
    IN  [i \in 1 .. Len(options) |->
            1 + ext(options[i].number - before(i)) + ext(options[i].length)
              + options[i].length]

TlvSizes(lengths) == [i \in 1 .. Len(lengths) |-> 4 + lengths[i]]

DatagramSize(k) ==
    4 + Total(OptionSizes(message.options))
      + (IF Blocks(k) = <<>> THEN 0 ELSE 1 + Total(TlvSizes(Blocks(k))))

\* A datagram is built exactly as large as its parts, and at the highest level
\* that MAX_UDP_PAYLOAD has room for, up to the last byte; it is given up only
\* when not even the lowest level fits, its URI is too long, or a value it has
\* to report cannot be encoded: that one ends the whole reply.  In particular
\* the HMAC's own buffer never refuses what the packet has room for.
FitsOrFails ==
    /\ phase \in {"built", "find", "found"} \cup Reading =>
          /\ Len(buffer) = DatagramSize(level) /\ UriLength < UriStringSize
          /\ level = Len(message.payloads) \/ DatagramSize(level + 1) > MAX_UDP_PAYLOAD
    /\ phase = "failed" =>
          \/ UriLength >= UriStringSize
          \/ Contains(Blocks(level), Unencodable)
          \/ DatagramSize(1) > MAX_UDP_PAYLOAD

\* What the node reads is what was built: while it reads, a prefix of the
\* options in their places, inside the datagram; when it accepts, all of them,
\* the URI's length and the TLVs.  It accepts whole datagrams only, refuses a
\* whole one only when it has no payload (no marker ends its options), and a
\* frame that was damaged on purpose fails at its HMAC and nowhere else.
ParsedAsBuilt ==
    phase \in Reading =>
       /\ IsPrefix(parsed, written)
       /\ pos <= size \/ phase = "rejected"
       /\ phase = "accepted" =>
             /\ size = Len(buffer) /\ ~damaged
             /\ parsed = written /\ blocks = Blocks(level) /\ uri_length = UriLength
       /\ phase = "rejected" => size < Len(buffer) \/ payload = <<>>
       /\ phase = "hmac_failed" => size < Len(buffer) \/ damaged

\* The finder's places are the builder's: InjectBadFrame damages the HMAC, all
\* of it, and the payload, and nothing in between.
FinderAgrees ==
    phase = "found" =>
       /\ \E i \in 1 .. Len(written) :
             /\ written[i].number = HMAC
             /\ found.offset = written[i].offset /\ found.length = written[i].length
       /\ found.payload = Len(buffer) - Len(payload)

===============================================================================

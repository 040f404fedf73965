-------------------------- MODULE PacketCodecProofs ---------------------------
(***************************************************************************)
(* Theorems about PacketCodec, for all messages, levels, sizes and cuts.    *)
(*                                                                          *)
(* CInv says where everything is.  A build has a first part of the options  *)
(* in the buffer, each header at the end of the option before it and each   *)
(* value behind its header (OptionsLaid, ValuesLaid), and the buffer is as  *)
(* long as the sizes of these options sum up to (PacketBuilt); likewise the *)
(* TLVs in the payload (PayloadBuilt).  A reader has read a first part of   *)
(* the options and stands where the next one starts (StandsAtOption), or it *)
(* stands at the TLV whose place the sums of the sizes give (TlvsRead).     *)
(*                                                                          *)
(* So the proof has three parts: a header read where it was written gives   *)
(* back its number and length, and is never the payload's marker            *)
(* (DecodingInverts, HeaderReads); what is appended moves nothing that is   *)
(* there (Joined, WrittenKept); and the sums of the sizes grow, which       *)
(* decides who fits (OptionSumsAre, TlvSumsAre, HmacInputFits).             *)
(***************************************************************************)
EXTENDS PacketCodec, SequenceTheorems, WellFoundedInduction, TLAPS

-------------------------------------------------------------------------------
(***************************************************************************)
(* Sums                                                                     *)
(***************************************************************************)

\* Induction over the natural numbers, for a set.
LEMMA AllNaturals ==
    ASSUME NEW S \in SUBSET Nat, 0 \in S, \A n \in S : n + 1 \in S
    PROVE  \A n \in Nat : n \in S
<1>. SUFFICES ASSUME Nat \ S # {} PROVE FALSE
  OBVIOUS
<1>. DEFINE LessThan == {p \in Nat \X Nat : p[1] < p[2]}
<1>1. IsWellFoundedOn(LessThan, Nat)
  BY NatLessThanWellFounded, Zenon DEF OpToRel
<1>2. PICK n \in Nat \ S : \A m \in Nat \ S : <<m, n>> \notin LessThan
  <2>. HIDE DEF LessThan
  <2>1. Nat \ S \subseteq Nat
    OBVIOUS
  <2>. QED
    BY <1>1, <2>1, WFMin, Zenon
<1>3. n # 0 /\ n - 1 \in Nat
  BY <1>2
<1>4. <<n - 1, n>> \in LessThan
  <2>1. <<n - 1, n>> \in Nat \X Nat /\ n - 1 < n
    BY <1>3
  <2>. QED
    BY <2>1
<1>5. n - 1 \in S
  BY <1>2, <1>3, <1>4
<1>. QED
  BY <1>2, <1>3, <1>5

\* The sums of a sequence of numbers exist and are what their recursion says.
LEMMA SumsAre ==
    ASSUME NEW s \in Seq(Nat)
    PROVE  /\ Sums(s)[0] = 0
           /\ \A n \in 1 .. Len(s) : Sums(s)[n] = Sums(s)[n - 1] + s[n]
           /\ \A n \in 0 .. Len(s) : Sums(s)[n] \in Nat
<1>. DEFINE N == Len(s)
            IsSum(f, k) == /\ f[0] = 0
                           /\ \A n \in 1 .. k : f[n] = f[n - 1] + s[n]
            S == {k \in Nat : k <= N => \E f \in [0 .. k -> Nat] : IsSum(f, k)}
            Body(f) == [n \in 0 .. N |-> IF n = 0 THEN 0 ELSE f[n - 1] + s[n]]
<1>1. N \in Nat /\ \A n \in 1 .. N : s[n] \in Nat
  OBVIOUS
<1>2. 0 \in S
  <2>1. [n \in 0 .. 0 |-> 0] \in [0 .. 0 -> Nat]
    OBVIOUS
  <2>2. IsSum([n \in 0 .. 0 |-> 0], 0)
    OBVIOUS
  <2>. QED
    BY <2>1, <2>2
<1>3. ASSUME NEW k \in S
      PROVE  k + 1 \in S
  <2>. SUFFICES ASSUME k + 1 <= N
                PROVE  \E f \in [0 .. k + 1 -> Nat] : IsSum(f, k + 1)
    <3>1. k + 1 \in Nat
      OBVIOUS
    <3>. QED
      BY <3>1, Zenon
  <2>1. PICK f \in [0 .. k -> Nat] : IsSum(f, k)
    BY <1>1
  <2>. DEFINE g == [n \in 0 .. k + 1 |-> IF n = k + 1 THEN f[k] + s[k + 1] ELSE f[n]]
  <2>2. g \in [0 .. k + 1 -> Nat]
    BY <1>1
  <2>3. IsSum(g, k + 1)
    <3>1. g[0] = 0
      BY <2>1
    <3>2. ASSUME NEW n \in 1 .. k + 1
          PROVE  g[n] = g[n - 1] + s[n]
      BY <2>1
    <3>. QED
      BY <3>1, <3>2
  <2>. QED
    BY <2>2, <2>3
<1>4. N \in S
  <2>. HIDE DEF S
  <2>1. S \in SUBSET Nat
    BY DEF S
  <2>. QED
    BY <1>1, <1>2, <1>3, <2>1, AllNaturals
<1>5. PICK f \in [0 .. N -> Nat] : IsSum(f, N)
  BY <1>1, <1>4
<1>6. f = Body(f)
  <2>1. ASSUME NEW n \in 0 .. N
        PROVE  f[n] = Body(f)[n]
    BY <1>5
  <2>. QED
    BY <2>1
<1>. DEFINE g == Sums(s)
<1>7. g = CHOOSE h : h = Body(h)
  BY Zenon DEF Sums
<1>8. g = Body(g)
  <2>. HIDE DEF Body, g
  <2>. QED
    BY <1>6, <1>7, Zenon
<1>9. IsSum(g, N)
  <2>. HIDE DEF g
  <2>1. g[0] = 0
    BY <1>1, <1>8
  <2>2. ASSUME NEW n \in 1 .. N
        PROVE  g[n] = g[n - 1] + s[n]
    BY <1>1, <1>8
  <2>. QED
    BY <2>1, <2>2
<1>10. \A n \in 0 .. N : g[n] \in Nat
  <2>. HIDE DEF g
  <2>. DEFINE T == {n \in Nat : n <= N => g[n] \in Nat}
  <2>1. 0 \in T
    BY <1>9
  <2>2. ASSUME NEW n \in T
        PROVE  n + 1 \in T
    <3>. SUFFICES ASSUME n + 1 <= N PROVE g[n + 1] \in Nat
      OBVIOUS
    <3>1. g[n + 1] = g[n] + s[n + 1]
      BY <1>1, <1>9
    <3>. QED
      BY <1>1, <3>1
  <2>3. \A n \in Nat : n \in T
    <3>1. T \in SUBSET Nat
      OBVIOUS
    <3>. HIDE DEF T
    <3>. QED
      BY <2>1, <2>2, <3>1, AllNaturals
  <2>. QED
    BY <1>1, <2>3
<1>. QED
  BY <1>9, <1>10

\* Arithmetic for the next lemma.
LEMMA DifferencesAdd ==
    ASSUME NEW a \in Nat, NEW b \in Nat, NEW c \in Nat, NEW d \in Nat,
           NEW x \in Nat, NEW y \in Nat, NEW u, NEW v,
           a - c <= b - d, x <= y, u = a + x, v = b + y
    PROVE  u - c <= v - d
  OBVIOUS

\* Sums of smaller numbers grow less, from any place to any later one.
LEMMA SumsCompare ==
    ASSUME NEW s \in Seq(Nat), NEW t \in Seq(Nat), Len(s) = Len(t),
           \A n \in 1 .. Len(s) : s[n] <= t[n],
           NEW i \in 0 .. Len(s), NEW j \in i .. Len(s)
    PROVE  Sums(s)[j] - Sums(s)[i] <= Sums(t)[j] - Sums(t)[i]
<1>. DEFINE N == Len(s)
            f == Sums(s)
            g == Sums(t)
            S == {k \in Nat : \A p \in i .. N : p = i + k => f[p] - f[i] <= g[p] - g[i]}
<1>1. /\ N \in Nat
      /\ \A n \in 1 .. N : s[n] \in Nat /\ t[n] \in Nat
      /\ \A n \in 0 .. N : f[n] \in Nat /\ g[n] \in Nat
      /\ \A n \in 1 .. N : f[n] = f[n - 1] + s[n] /\ g[n] = g[n - 1] + t[n]
  BY SumsAre
<1>. HIDE DEF f, g
<1>2. 0 \in S
  BY <1>1
<1>3. ASSUME NEW k \in S
      PROVE  k + 1 \in S
  <2>1. k \in Nat /\ k + 1 \in Nat
    OBVIOUS
  <2>2. ASSUME NEW p \in i .. N, p = i + (k + 1)
        PROVE  f[p] - f[i] <= g[p] - g[i]
    <3>1. p \in 1 .. N /\ p - 1 \in i .. N /\ p - 1 = i + k
      BY <1>1, <2>1, <2>2
    <3>2. f[p - 1] - f[i] <= g[p - 1] - g[i]
      BY <3>1
    <3>3. f[p] = f[p - 1] + s[p] /\ g[p] = g[p - 1] + t[p] /\ s[p] <= t[p]
      BY <1>1, <3>1
    <3>4. /\ f[i] \in Nat /\ g[i] \in Nat /\ f[p - 1] \in Nat /\ g[p - 1] \in Nat
          /\ s[p] \in Nat /\ t[p] \in Nat /\ i \in Nat /\ p \in Nat
      BY <1>1, <3>1
    <3>. HIDE DEF S
    <3>. QED
      BY <3>2, <3>3, <3>4, DifferencesAdd, Zenon
  <2>. QED
    BY <2>1, <2>2
<1>4. \A k \in Nat : k \in S
  <2>1. S \in SUBSET Nat
    OBVIOUS
  <2>. HIDE DEF S
  <2>. QED
    BY <1>2, <1>3, <2>1, AllNaturals
<1>5. j - i \in Nat /\ i + (j - i) = j
  OBVIOUS
<1>6. f[j] - f[i] <= g[j] - g[i]
  BY <1>4, <1>5
<1>. QED
  BY <1>6 DEF f, g

\* Sums of zeros are 0.
LEMMA SumsOfZeros ==
    ASSUME NEW n \in Nat, NEW i \in 0 .. n
    PROVE  LET zeros == [x \in 1 .. n |-> 0] IN
           zeros \in Seq(Nat) /\ Len(zeros) = n /\ Sums(zeros)[i] = 0
<1>. DEFINE zeros == [x \in 1 .. n |-> 0]
            f == Sums(zeros)
            S == {k \in Nat : k <= n => f[k] = 0}
<1>1. zeros \in Seq(Nat) /\ Len(zeros) = n
  OBVIOUS
<1>2. f[0] = 0 /\ \A k \in 1 .. n : f[k] = f[k - 1] + zeros[k]
  <2>. HIDE DEF zeros
  <2>. QED
    BY <1>1, SumsAre
<1>. HIDE DEF f
<1>3. 0 \in S
  BY <1>2
<1>4. ASSUME NEW k \in S
      PROVE  k + 1 \in S
  <2>1. k + 1 <= n => f[k + 1] = f[k] + zeros[k + 1]
    BY <1>2
  <2>. QED
    BY <2>1
<1>5. \A k \in Nat : k \in S
  <2>1. S \in SUBSET Nat
    OBVIOUS
  <2>. HIDE DEF S
  <2>. QED
    BY <1>3, <1>4, <2>1, AllNaturals
<1>6. f[i] = 0
  BY <1>5
<1>. QED
  BY <1>1, <1>6 DEF f

\* Sums never shrink, and are the total once nothing but zeros follows.
LEMMA SumsGrow ==
    ASSUME NEW s \in Seq(Nat), NEW i \in 0 .. Len(s), NEW j \in i .. Len(s)
    PROVE  /\ Sums(s)[i] <= Sums(s)[j]
           /\ Sums(s)[i] <= Total(s) /\ Total(s) \in Nat
<1>. DEFINE zeros == [x \in 1 .. Len(s) |-> 0]
<1>0. Len(s) \in Nat
  OBVIOUS
<1>1. /\ zeros \in Seq(Nat) /\ Len(zeros) = Len(s)
      /\ \A k \in 0 .. Len(s) : Sums(zeros)[k] = 0
  BY <1>0, SumsOfZeros
<1>2. \A n \in 1 .. Len(s) : zeros[n] <= s[n]
  OBVIOUS
<1>. HIDE DEF zeros
<1>3. ASSUME NEW k \in i .. Len(s)
      PROVE  Sums(s)[i] <= Sums(s)[k]
  <2>1. Sums(zeros)[k] - Sums(zeros)[i] <= Sums(s)[k] - Sums(s)[i]
    BY <1>1, <1>2, SumsCompare
  <2>2. k \in 0 .. Len(s)
    OBVIOUS
  <2>3. Sums(s)[i] \in Nat /\ Sums(s)[k] \in Nat
    BY <2>2, SumsAre
  <2>4. Sums(zeros)[k] = 0 /\ Sums(zeros)[i] = 0
    BY <1>1, <2>2
  <2>. QED
    BY <2>1, <2>3, <2>4
<1>. QED
  BY <1>3, SumsAre DEF Total

-------------------------------------------------------------------------------
(***************************************************************************)
(* The invariant                                                            *)
(***************************************************************************)

Field == [number : Uint16, length : Uint16, offset : Nat]

\* Types of what CodecTypeOK leaves open.
FieldsOK ==
    /\ payload \in Seq(Int) /\ buffer \in Seq(Int) /\ blocks \in Seq(Int)
    /\ written \in Seq(Field) /\ parsed \in Seq(Field)
    /\ found \in [offset : Nat, length : Nat, payload : Nat]

\* Where option i of w starts, and the number before it.
StartIn(w, i) == IF i = 1 THEN 4 ELSE w[i - 1].offset + w[i - 1].length
BeforeIn(w, i) == IF i = 1 THEN 0 ELSE w[i - 1].number

\* b holds the extension of v from p on.
ExtensionIn(b, v, p) == \A j \in 1 .. ExtendedSize(v) : b[p + j] = Extension(v)[j]

\* b holds the header of option i of w where it starts, and its value follows.
HeaderIn(b, w, i) ==
    LET p == StartIn(w, i)
        delta == w[i].number - BeforeIn(w, i)
        extended == p + 1 + ExtendedSize(delta)
    IN  /\ delta \in Nat
        /\ b[p + 1] = Nibble(delta) * 16 + Nibble(w[i].length)
        /\ ExtensionIn(b, delta, p + 1)
        /\ ExtensionIn(b, w[i].length, extended)
        /\ w[i].offset = extended + ExtendedSize(w[i].length)

\* b holds TLV i of these lengths where the sizes of those before it put it.
TlvIn(b, lengths, i) ==
    LET p == Sums(TlvSizes(lengths))[i - 1]
    IN  lengths[i] \in Nat /\ b[p + 3] * 256 + b[p + 4] = lengths[i]

\* The first k TLVs of this level are the payload.
Encoded(k) ==
    /\ Len(payload) = Sums(TlvSizes(Blocks(level)))[k]
    /\ \A i \in 1 .. k : TlvIn(payload, Blocks(level), i)

End == StartIn(written, Len(written) + 1)

\* A first part of the options is in the buffer, each in its place.
OptionsLaid ==
    /\ Len(written) <= Len(message.options)
    /\ \A i \in 1 .. Len(written) :
          /\ written[i].number = message.options[i].number
          /\ written[i].length = message.options[i].length
          /\ HeaderIn(buffer, written, i)
          /\ written[i].offset + written[i].length <= Len(buffer)
    /\ \A i, j \in 1 .. Len(written) :
          i < j => written[i].offset + written[i].length <= StartIn(written, j)
    /\ \A i \in 1 .. Len(written) : written[i].offset + written[i].length <= End

\* What the values hold, before anything is damaged.
ValuesLaid ==
    ~damaged => \A i \in 1 .. Len(written) : \A b \in 1 .. written[i].length :
                   buffer[written[i].offset + b] = Fill

\* Nothing is read while a datagram is built, and before it is.
NothingRead ==
    phase \in Building \cup {"built"} => parsed = <<>>

PayloadBuilt ==
    /\ phase \in {"payload", "build"} => ~damaged
    /\ phase = "payload" =>
          /\ written = <<>> /\ Len(blocks) <= Len(Blocks(level))
          /\ \A i \in 1 .. Len(blocks) : blocks[i] = Blocks(level)[i]
          /\ Encoded(Len(blocks))
    /\ phase \notin {"payload", "failed"} =>
          Encoded(Len(Blocks(level))) /\ UriLength < UriStringSize

Complete == {"built", "find", "found"} \cup Reading

PacketBuilt ==
    /\ phase = "build" => Len(buffer) = End
    /\ phase = "build" => End = 4 + Sums(OptionSizes(message.options))[Len(written)]
    /\ phase \in Complete =>
          /\ Len(written) = Len(message.options)
          /\ End = 4 + Total(OptionSizes(message.options))
          /\ Len(buffer) = End + (IF payload = <<>> THEN 0 ELSE 1 + Len(payload))
          /\ payload # <<>> => buffer[End + 1] = COAP_PAYLOAD_MARKER
          /\ ~damaged => \A i \in 1 .. Len(payload) : buffer[End + 1 + i] = payload[i]

\* A damaged frame has an HMAC that cannot match.
HmacSpoilt ==
    damaged => \E i \in 1 .. Len(written) :
                  /\ written[i].number = HMAC /\ written[i].length > 0
                  /\ buffer[written[i].offset + 1] # Fill

\* A reader has read a first part of the options, and stands before the next.
ReadSoFar ==
    /\ Len(parsed) <= Len(written)
    /\ \A i \in 1 .. Len(parsed) : parsed[i] = written[i]

StandsAtOption == ReadSoFar /\ pos = StartIn(written, Len(parsed) + 1)

FinderFollows ==
    /\ phase \in {"find", "found"} => ~damaged
    /\ phase = "find" =>
          /\ StandsAtOption /\ found.payload = Len(buffer)
          /\ \/ \A i \in 1 .. Len(parsed) : parsed[i].number # HMAC
             \/ \E i \in 1 .. Len(parsed) :
                   /\ parsed[i].number = HMAC
                   /\ found.offset = parsed[i].offset /\ found.length = parsed[i].length

UriRead ==
    phase = "uri" =>
       /\ StandsAtOption /\ pos <= size /\ 4 <= size /\ blocks = <<>>
       /\ \A i \in 1 .. Len(parsed) : parsed[i].number = URI_PATH
       /\ uri_length = IF parsed = <<>> THEN 1
                       ELSE Sums(Segments(message.options))[Len(parsed)]

OptionsRead ==
    phase = "options" =>
       StandsAtOption /\ pos <= size /\ uri_length = UriLength /\ blocks = <<>>

TlvsRead ==
    phase \in {"tlvs", "accepted"} =>
       /\ size = Len(buffer) /\ ~damaged /\ uri_length = UriLength /\ payload # <<>>
       /\ ReadSoFar /\ Len(parsed) = Len(written)
       /\ Len(blocks) <= Len(Blocks(level))
       /\ \A i \in 1 .. Len(blocks) : blocks[i] = Blocks(level)[i]
       /\ pos = End + 1 + Sums(TlvSizes(Blocks(level)))[Len(blocks)]
       /\ phase = "accepted" => Len(blocks) = Len(Blocks(level))

Arrived ==
    /\ phase \in Reading => size <= Len(buffer) /\ ReadSoFar
    /\ phase = "rejected" => size < Len(buffer) \/ payload = <<>>
    /\ phase = "hmac_failed" => pos <= size /\ (size < Len(buffer) \/ damaged)

\* A lower level is tried only when the one above does not fit.
HighestLevel ==
    \/ level = Len(message.payloads)
    \/ DatagramSize(level + 1) > MAX_UDP_PAYLOAD

FailedForAReason ==
    phase = "failed" =>
       \/ UriLength >= UriStringSize
       \/ Contains(Blocks(level), Unencodable)
       \/ DatagramSize(1) > MAX_UDP_PAYLOAD

CInv ==
    /\ CodecTypeOK /\ FieldsOK
    /\ OptionsLaid /\ ValuesLaid /\ NothingRead /\ PayloadBuilt /\ PacketBuilt
    /\ HmacSpoilt /\ FinderFollows /\ FinderAgrees
    /\ UriRead /\ OptionsRead /\ TlvsRead /\ Arrived
    /\ HighestLevel /\ FailedForAReason

-------------------------------------------------------------------------------
(***************************************************************************)
(* The coding of an option's header                                         *)
(***************************************************************************)

\* A number takes a nibble and as many more bytes as its extension has.
LEMMA CodingIs ==
    ASSUME NEW v \in Nat
    PROVE  /\ ExtendedSize(v) \in 0 .. 2 /\ Nibble(v) \in 0 .. 14
           /\ Extension(v) \in Seq(Int) /\ Len(Extension(v)) = ExtendedSize(v)
<1>1. CASE v <= 12
  <2>1. ExtendedSize(v) = 0
    BY <1>1 DEF ExtendedSize
  <2>. QED
    BY <1>1, <2>1 DEF Nibble, Extension
<1>2. CASE v > 12 /\ v < 269
  <2>1. ExtendedSize(v) = 1
    BY <1>2 DEF ExtendedSize
  <2>. QED
    BY <1>2, <2>1 DEF Nibble, Extension
<1>3. CASE v >= 269
  <2>1. ExtendedSize(v) = 2
    BY <1>3 DEF ExtendedSize
  <2>. QED
    BY <1>3, <2>1 DEF Nibble, Extension
<1>. QED
  BY <1>1, <1>2, <1>3

\* Both readers get the number back, and go on behind its extension.
LEMMA DecodingInverts ==
    ASSUME NEW v \in Nat, NEW p \in Nat, Len(buffer) \in Nat,
           p + ExtendedSize(v) <= Len(buffer), ExtensionIn(buffer, v, p)
    PROVE  LET d == [value |-> v, next |-> p + ExtendedSize(v)]
           IN  Extended(Nibble(v), p) = d /\ DecodeCoapNibble(Nibble(v), p) = d
<1>1. CASE v <= 12
  <2>1. ExtendedSize(v) = 0
    BY <1>1 DEF ExtendedSize
  <2>2. Nibble(v) = v
    BY <2>1 DEF Nibble
  <2>. QED
    BY <1>1, <2>1, <2>2 DEF Extended, DecodeCoapNibble
<1>2. CASE v > 12 /\ v < 269
  <2>1. ExtendedSize(v) = 1
    BY <1>2 DEF ExtendedSize
  <2>2. Nibble(v) = 13
    BY <2>1 DEF Nibble
  <2>3. Extension(v)[1] = v - 13
    BY <2>1 DEF Extension
  <2>4. ByteAt(p) = v - 13
    BY <2>1, <2>3 DEF ExtensionIn, ByteAt
  <2>. QED
    BY <1>2, <2>1, <2>2, <2>4 DEF Extended, DecodeCoapNibble
<1>3. CASE v >= 269
  <2>1. ExtendedSize(v) = 2
    BY <1>3 DEF ExtendedSize
  <2>2. Nibble(v) = 14
    BY <2>1 DEF Nibble
  <2>3. Extension(v)[1] = (v - 269) \div 256 /\ Extension(v)[2] = (v - 269) % 256
    BY <2>1 DEF Extension
  <2>4. ByteAt(p) = (v - 269) \div 256 /\ ByteAt(p + 1) = (v - 269) % 256
    BY <2>1, <2>3 DEF ExtensionIn, ByteAt
  <2>5. ByteAt(p) * 256 + ByteAt(p + 1) + 269 = v
    BY <1>3, <2>4
  <2>6. 269 + ByteAt(p) * 256 + ByteAt(p + 1) = v
    BY <1>3, <2>4
  <2>. QED
    BY <2>1, <2>2, <2>5, <2>6 DEF Extended, DecodeCoapNibble
<1>. QED
  BY <1>1, <1>2, <1>3

\* A header's byte is taken apart again, and is never the payload's marker.
LEMMA HeaderByteIs ==
    ASSUME NEW a \in 0 .. 14, NEW b \in 0 .. 14
    PROVE  /\ (a * 16 + b) \div 16 = a /\ (a * 16 + b) % 16 = b
           /\ a * 16 + b # COAP_PAYLOAD_MARKER
  BY DEF COAP_PAYLOAD_MARKER

\* An option's fields are numbers.
LEMMA FieldIs ==
    ASSUME NEW f \in Field
    PROVE  f.number \in Nat /\ f.length \in Nat /\ f.offset \in Nat
<1>1. f.number \in Uint16 /\ f.length \in Uint16 /\ f.offset \in Nat
  BY DEF Field
<1>2. Uint16 \subseteq Nat
  BY DEF Uint16
<1>. QED
  BY <1>1, <1>2

\* The start of an option is a position.
LEMMA StartIs ==
    ASSUME NEW w \in Seq(Field), NEW i \in 1 .. Len(w) + 1
    PROVE  StartIn(w, i) \in Nat
<1>1. CASE i = 1
  BY <1>1 DEF StartIn
<1>2. CASE i # 1
  <2>1. i - 1 \in 1 .. Len(w)
    BY <1>2
  <2>2. w[i - 1] \in Field
    BY <2>1
  <2>3. w[i - 1].offset \in Nat /\ w[i - 1].length \in Nat
    BY <2>2, FieldIs
  <2>4. StartIn(w, i) = w[i - 1].offset + w[i - 1].length
    BY <1>2 DEF StartIn
  <2>. QED
    BY <2>3, <2>4
<1>. QED
  BY <1>1, <1>2

\* Both readers read an option's header where it is.
LEMMA HeaderReads ==
    ASSUME FieldsOK, NEW i \in 1 .. Len(written), HeaderIn(buffer, written, i),
           written[i].offset + written[i].length <= Len(buffer)
    PROVE  LET p == StartIn(written, i)
               header == ByteAt(p)
               delta == Extended(header \div 16, p + 1)
               length == Extended(header % 16, delta.next)
               found_delta == DecodeCoapNibble(header \div 16, p + 1)
               found_length == DecodeCoapNibble(header % 16, found_delta.next)
           IN  /\ p \in Nat /\ p < Len(buffer) /\ p < written[i].offset
               /\ header # COAP_PAYLOAD_MARKER
               /\ delta.value = written[i].number - BeforeIn(written, i)
               /\ length.value = written[i].length /\ length.next = written[i].offset
               /\ found_delta = delta /\ found_length = length
<1>. DEFINE p == StartIn(written, i)
            d == written[i].number - BeforeIn(written, i)
            l == written[i].length
            extended == p + 1 + ExtendedSize(d)
<1>1. p \in Nat /\ d \in Nat /\ l \in Nat /\ Len(buffer) \in Nat
  <2>1. p \in Nat
    BY StartIs DEF FieldsOK
  <2>2. d \in Nat
    BY DEF HeaderIn
  <2>3. written[i] \in Field /\ Len(buffer) \in Nat
    BY DEF FieldsOK
  <2>4. l \in Nat
    BY <2>3, FieldIs
  <2>. HIDE DEF p, d, l
  <2>. QED
    BY <2>1, <2>2, <2>3, <2>4
<1>2. /\ buffer[p + 1] = Nibble(d) * 16 + Nibble(l)
      /\ ExtensionIn(buffer, d, p + 1) /\ ExtensionIn(buffer, l, extended)
      /\ written[i].offset = extended + ExtendedSize(l)
  BY DEF HeaderIn
<1>. HIDE DEF p, d, l
<1>3. /\ ExtendedSize(d) \in 0 .. 2 /\ Nibble(d) \in 0 .. 14
      /\ ExtendedSize(l) \in 0 .. 2 /\ Nibble(l) \in 0 .. 14
  BY <1>1, CodingIs
<1>4. /\ written[i].offset = extended + ExtendedSize(l) /\ extended + ExtendedSize(l) <= Len(buffer)
      /\ p < written[i].offset /\ p < Len(buffer) /\ extended \in Nat
      /\ p + 1 \in Nat /\ p + 1 + ExtendedSize(d) <= Len(buffer)
  <2>1. written[i].offset + l <= Len(buffer) /\ extended \in Nat
    BY <1>1, <1>3 DEF l
  <2>. HIDE DEF extended
  <2>2. extended + ExtendedSize(l) <= Len(buffer)
    BY <1>1, <1>2, <1>3, <2>1
  <2>. QED
    BY <1>1, <1>2, <1>3, <2>1, <2>2 DEF extended
<1>5. ByteAt(p) = Nibble(d) * 16 + Nibble(l)
  BY <1>2, <1>4 DEF ByteAt
<1>6. /\ ByteAt(p) \div 16 = Nibble(d) /\ ByteAt(p) % 16 = Nibble(l)
      /\ ByteAt(p) # COAP_PAYLOAD_MARKER
  BY <1>3, <1>5, HeaderByteIs
<1>7. LET r == [value |-> d, next |-> extended]
      IN  Extended(Nibble(d), p + 1) = r /\ DecodeCoapNibble(Nibble(d), p + 1) = r
  BY <1>1, <1>2, <1>4, DecodingInverts
<1>8. LET r == [value |-> l, next |-> extended + ExtendedSize(l)]
      IN  Extended(Nibble(l), extended) = r /\ DecodeCoapNibble(Nibble(l), extended) = r
  BY <1>1, <1>2, <1>4, DecodingInverts
<1>. QED
  BY <1>1, <1>2, <1>4, <1>6, <1>7, <1>8 DEF p, d, l

-------------------------------------------------------------------------------
(***************************************************************************)
(* What a reader finds                                                      *)
(***************************************************************************)

\* An option is the record of its fields.
LEMMA FieldRecord ==
    ASSUME NEW f \in Field
    PROVE  f = [number |-> f.number, length |-> f.length, offset |-> f.offset]
  BY DEF Field

\* The number before the next option, and where a reader goes when it has read it.
LEMMA NextIs ==
    ASSUME FieldsOK, ReadSoFar, Len(parsed) < Len(written)
    PROVE  LET n == Len(parsed) + 1 IN
           /\ n \in 1 .. Len(written) /\ written[n] \in Field
           /\ Number(parsed) = BeforeIn(written, n)
           /\ StartIn(written, n + 1) = written[n].offset + written[n].length
           /\ Append(parsed, written[n]) \in Seq(Field)
           /\ Len(Append(parsed, written[n])) = n
           /\ \A i \in 1 .. n : Append(parsed, written[n])[i] = written[i]
<1>. DEFINE n == Len(parsed) + 1
<1>1. /\ Len(parsed) \in Nat /\ Len(written) \in Nat
      /\ parsed \in Seq(Field) /\ written \in Seq(Field)
  BY DEF FieldsOK
<1>2. n \in 1 .. Len(written)
  BY <1>1
<1>3. written[n] \in Field
  BY <1>1, <1>2
<1>4. Number(parsed) = BeforeIn(written, n)
  <2>1. CASE parsed = <<>>
    BY <1>1, <2>1 DEF Number, BeforeIn
  <2>2. CASE parsed # <<>>
    <3>1. Len(parsed) # 0
      BY <1>1, <2>2
    <3>2. parsed[Len(parsed)] = written[Len(parsed)]
      BY <1>1, <3>1 DEF ReadSoFar
    <3>. QED
      BY <1>1, <2>2, <3>1, <3>2 DEF Number, BeforeIn, Last
  <2>. QED
    BY <2>1, <2>2
<1>5. StartIn(written, n + 1) = written[n].offset + written[n].length
  BY <1>1 DEF StartIn
<1>6. /\ Append(parsed, written[n]) \in Seq(Field)
      /\ Len(Append(parsed, written[n])) = n
      /\ \A i \in 1 .. Len(parsed) : Append(parsed, written[n])[i] = parsed[i]
      /\ Append(parsed, written[n])[n] = written[n]
  <2>. HIDE DEF n
  <2>. QED
    BY <1>1, <1>3, AppendProperties DEF n
<1>7. \A i \in 1 .. n : Append(parsed, written[n])[i] = written[i]
  <2>1. ASSUME NEW i \in 1 .. n
        PROVE  Append(parsed, written[n])[i] = written[i]
    <3>1. CASE i = n
      BY <1>6, <3>1
    <3>2. CASE i # n
      <4>1. i \in 1 .. Len(parsed)
        BY <1>1, <3>2
      <4>. QED
        BY <1>6, <4>1 DEF ReadSoFar
    <3>. QED
      BY <3>1, <3>2
  <2>. QED
    BY <2>1
<1>. QED
  BY <1>2, <1>3, <1>4, <1>5, <1>6, <1>7

\* Standing at an option, both readers find it where it is.
LEMMA OptionIsThere ==
    ASSUME FieldsOK, OptionsLaid, StandsAtOption, Len(parsed) < Len(written)
    PROVE  LET o == written[Len(parsed) + 1]
               header == ByteAt(pos)
               delta == Extended(header \div 16, pos + 1)
               length == Extended(header % 16, delta.next)
               found_delta == DecodeCoapNibble(header \div 16, pos + 1)
               found_length == DecodeCoapNibble(header % 16, found_delta.next)
           IN  /\ pos \in Nat /\ pos < Len(buffer) /\ header # COAP_PAYLOAD_MARKER
               /\ pos < o.offset + o.length /\ o.offset + o.length <= Len(buffer)
               /\ Number(parsed) + delta.value = o.number
               /\ length.value = o.length /\ length.next = o.offset
               /\ found_delta = delta /\ found_length = length
<1>. DEFINE n == Len(parsed) + 1
<1>1. /\ n \in 1 .. Len(written) /\ written[n] \in Field
      /\ Number(parsed) = BeforeIn(written, n)
  BY NextIs DEF StandsAtOption
<1>2. /\ HeaderIn(buffer, written, n)
      /\ written[n].offset + written[n].length <= Len(buffer)
  BY <1>1 DEF OptionsLaid
<1>3. pos = StartIn(written, n)
  BY DEF StandsAtOption
<1>. HIDE DEF n
<1>4. LET header == ByteAt(pos)
          delta == Extended(header \div 16, pos + 1)
          length == Extended(header % 16, delta.next)
          found_delta == DecodeCoapNibble(header \div 16, pos + 1)
          found_length == DecodeCoapNibble(header % 16, found_delta.next)
      IN  /\ pos \in Nat /\ pos < Len(buffer) /\ pos < written[n].offset
          /\ header # COAP_PAYLOAD_MARKER
          /\ delta.value = written[n].number - BeforeIn(written, n)
          /\ length.value = written[n].length /\ length.next = written[n].offset
          /\ found_delta = delta /\ found_length = length
  BY <1>1, <1>2, <1>3, HeaderReads
<1>5. written[n].number \in Nat /\ written[n].length \in Nat /\ written[n].offset \in Nat
  BY <1>1, FieldIs
<1>6. BeforeIn(written, n) \in Nat
  <2>1. CASE n = 1
    BY <2>1 DEF BeforeIn
  <2>2. CASE n # 1
    <3>1. n - 1 \in 1 .. Len(written)
      BY <1>1, <2>2
    <3>2. written[n - 1] \in Field
      BY <3>1 DEF FieldsOK
    <3>. QED
      BY <2>2, <3>2, FieldIs DEF BeforeIn
  <2>. QED
    BY <2>1, <2>2
<1>7. Number(parsed) + Extended(ByteAt(pos) \div 16, pos + 1).value = written[n].number
  BY <1>1, <1>4, <1>5, <1>6
<1>8. pos < written[n].offset + written[n].length
  BY <1>4, <1>5
<1>. QED
  BY <1>2, <1>4, <1>7, <1>8 DEF n

\* The parser reads the next option, unless the datagram was cut before its end.
LEMMA ParsesOption ==
    ASSUME FieldsOK, OptionsLaid, StandsAtOption, Len(parsed) < Len(written), size \in Nat
    PROVE  LET o == written[Len(parsed) + 1] IN
           IF o.offset + o.length <= size
           THEN ParseCoAPOption =
                   [kind |-> "option", next |-> o.offset + o.length, option |-> o]
           ELSE ParseCoAPOption = [kind |-> "short"]
<1>. DEFINE o == written[Len(parsed) + 1]
            header == ByteAt(pos)
            delta == Extended(header \div 16, pos + 1)
            length == Extended(header % 16, delta.next)
            r == [kind |-> "option", next |-> length.next + length.value,
                  option |-> [number |-> Number(parsed) + delta.value,
                              length |-> length.value, offset |-> length.next]]
<1>1. /\ pos \in Nat /\ header # COAP_PAYLOAD_MARKER
      /\ pos < o.offset + o.length
      /\ Number(parsed) + delta.value = o.number
      /\ length.value = o.length /\ length.next = o.offset
  BY OptionIsThere
<1>2. o \in Field
  BY NextIs DEF StandsAtOption
<1>3. o = [number |-> o.number, length |-> o.length, offset |-> o.offset]
  BY <1>2, FieldRecord
<1>4. ParseCoAPOption =
        CASE pos >= size -> [kind |-> "short"]
          [] pos < size /\ header = COAP_PAYLOAD_MARKER -> [kind |-> "marker"]
          [] pos < size /\ header # COAP_PAYLOAD_MARKER ->
               IF length.next + length.value > size THEN [kind |-> "short"] ELSE r
  BY DEF ParseCoAPOption
<1>5. o.offset \in Nat /\ o.length \in Nat
  BY <1>2, FieldIs
<1>6. r = [kind |-> "option", next |-> o.offset + o.length, option |-> o]
  <2>. HIDE DEF o, delta, length
  <2>. QED
    BY <1>1, <1>3
<1>. HIDE DEF o, header, delta, length, r
<1>7. CASE o.offset + o.length <= size
  <2>1. pos < size /\ ~(pos >= size) /\ ~(length.next + length.value > size)
    BY <1>1, <1>5, <1>7
  <2>2. ParseCoAPOption = r
    BY <1>1, <1>4, <2>1
  <2>. QED
    BY <1>6, <1>7, <2>2 DEF o
<1>8. CASE ~(o.offset + o.length <= size)
  <2>1. length.next + length.value > size
    BY <1>1, <1>5, <1>8
  <2>2. pos >= size \/ (pos < size /\ ~(pos >= size))
    BY <1>1
  <2>3. ParseCoAPOption = [kind |-> "short"]
    BY <1>1, <1>4, <2>1, <2>2
  <2>. QED
    BY <1>8, <2>3 DEF o
<1>. QED
  BY <1>7, <1>8

\* Behind the last option it finds the marker, or the end of what arrived.
LEMMA ParsesEnd ==
    ASSUME FieldsOK, StandsAtOption, PacketBuilt, phase \in Complete,
           Len(parsed) = Len(written), size \in Nat, size <= Len(buffer)
    PROVE  \/ /\ ParseCoAPOption = [kind |-> "short"]
              /\ size < Len(buffer) \/ payload = <<>>
           \/ /\ ParseCoAPOption = [kind |-> "marker"]
              /\ payload # <<>> /\ pos = End /\ pos < size
<1>1. pos = End /\ pos \in Nat
  <2>1. Len(written) \in Nat /\ Len(written) + 1 \in 1 .. Len(written) + 1
    BY DEF FieldsOK
  <2>2. End \in Nat
    BY <2>1, StartIs DEF FieldsOK, End
  <2>. QED
    BY <2>2 DEF StandsAtOption, End
<1>2. /\ Len(buffer) = End + (IF payload = <<>> THEN 0 ELSE 1 + Len(payload))
      /\ payload # <<>> => buffer[End + 1] = COAP_PAYLOAD_MARKER
  BY DEF PacketBuilt
<1>3. Len(payload) \in Nat /\ Len(buffer) \in Nat
  BY DEF FieldsOK
<1>4. CASE pos >= size
  <2>1. ParseCoAPOption = [kind |-> "short"]
    BY <1>1, <1>4 DEF ParseCoAPOption
  <2>2. payload # <<>> => size < Len(buffer)
    BY <1>1, <1>2, <1>3, <1>4
  <2>. QED
    BY <2>1, <2>2
<1>5. CASE pos < size
  <2>1. payload # <<>>
    BY <1>1, <1>2, <1>3, <1>5
  <2>2. ByteAt(pos) = COAP_PAYLOAD_MARKER
    BY <1>1, <1>2, <1>3, <1>5, <2>1 DEF ByteAt
  <2>3. ~(pos >= size)
    BY <1>1, <1>5
  <2>4. ParseCoAPOption = [kind |-> "marker"]
    BY <1>5, <2>2, <2>3 DEF ParseCoAPOption
  <2>. QED
    BY <1>1, <1>5, <2>1, <2>4
<1>. QED
  BY <1>1, <1>4, <1>5

-------------------------------------------------------------------------------
(***************************************************************************)
(* The sizes of a message                                                   *)
(***************************************************************************)

\* What the assumption on messages says of one.
LEMMA MessageIs ==
    ASSUME NEW m, IsMessage(m)
    PROVE  /\ m.options \in Seq([number : Uint16, length : Uint16])
           /\ m.options # <<>> /\ m.options[1].number = URI_PATH
           /\ \A i \in 1 .. Len(m.options) :
                 /\ m.options[i].number \in Uint16 /\ m.options[i].length \in Uint16
                 /\ m.options[i].number \in Nat /\ m.options[i].length \in Nat
           /\ \A i, j \in 1 .. Len(m.options) :
                 i < j => m.options[i].number <= m.options[j].number
           /\ \A n \in DOMAIN SigNetLength :
                 \E i \in 1 .. Len(m.options) : m.options[i].number = n
           /\ \A i \in 1 .. Len(m.options) : \A n \in DOMAIN SigNetLength :
                 m.options[i].number = n => m.options[i].length = SigNetLength[n]
           /\ m.payloads \in Seq(Seq(Uint16 \union {Unencodable})) /\ m.payloads # <<>>
<1>. DEFINE Option == [number : Uint16, length : Uint16]
<1>1. /\ m \in [options : Seq(Option), payloads : Seq(Seq(Uint16 \union {Unencodable}))]
      /\ m.payloads # <<>> /\ m.options # <<>> /\ m.options[1].number = URI_PATH
      /\ \A i, j \in DOMAIN m.options : i < j => m.options[i].number <= m.options[j].number
      /\ \A n \in DOMAIN SigNetLength : \E i \in DOMAIN m.options : m.options[i].number = n
      /\ \A i \in DOMAIN m.options : \A n \in DOMAIN SigNetLength :
            m.options[i].number = n => m.options[i].length = SigNetLength[n]
  BY Zenon DEF IsMessage
<1>2. /\ m.options \in Seq(Option)
      /\ m.payloads \in Seq(Seq(Uint16 \union {Unencodable}))
  BY <1>1
<1>3. DOMAIN m.options = 1 .. Len(m.options)
  BY <1>2
<1>4. ASSUME NEW i \in 1 .. Len(m.options)
      PROVE  /\ m.options[i].number \in Uint16 /\ m.options[i].length \in Uint16
             /\ m.options[i].number \in Nat /\ m.options[i].length \in Nat
  <2>1. m.options[i] \in Option
    <3>. HIDE DEF Option
    <3>. QED
      BY <1>2, ElementOfSeq
  <2>2. m.options[i].number \in Uint16 /\ m.options[i].length \in Uint16
    BY <2>1
  <2>3. Uint16 \subseteq Nat
    BY DEF Uint16
  <2>. QED
    BY <2>2, <2>3
<1>. HIDE DEF Option
<1>5. m.options \in Seq([number : Uint16, length : Uint16])
  BY <1>2 DEF Option
<1>. QED
  BY <1>1, <1>2, <1>3, <1>4, <1>5, Zenon

\* The lengths of URI segments, one for each option.
LEMMA SegmentsAre ==
    ASSUME NEW m, IsMessage(m)
    PROVE  LET s == Segments(m.options) IN
           /\ s \in Seq(Nat) /\ Len(s) = Len(m.options)
           /\ \A i \in 1 .. Len(m.options) :
                 s[i] = IF m.options[i].number = URI_PATH
                        THEN 1 + m.options[i].length ELSE 0
<1>. DEFINE s == Segments(m.options)
            N == Len(m.options)
<1>1. N \in Nat /\ \A i \in 1 .. N : m.options[i].length \in Nat
  BY MessageIs
<1>2. s = [i \in 1 .. N |-> IF m.options[i].number = URI_PATH
                            THEN 1 + m.options[i].length ELSE 0]
  BY DEF Segments
<1>. HIDE DEF N, s
<1>3. \A i \in 1 .. N : s[i] = IF m.options[i].number = URI_PATH
                               THEN 1 + m.options[i].length ELSE 0
  BY <1>2
<1>4. \A i \in 1 .. N : s[i] \in Nat
  BY <1>1, <1>3
<1>5. s \in [1 .. N -> Nat]
  BY <1>2, <1>4
<1>6. s \in Seq(Nat) /\ Len(s) = N
  BY <1>1, <1>5
<1>. QED
  BY <1>3, <1>6 DEF N, s

\* The number of the option before the i-th.
Before(options, i) == IF i = 1 THEN 0 ELSE options[i - 1].number

\* Sizes of options are those of their header's byte, its extensions and value.
LEMMA OptionSizesAre ==
    ASSUME NEW m, IsMessage(m)
    PROVE  LET s == OptionSizes(m.options) IN
           /\ s \in Seq(Nat) /\ Len(s) = Len(m.options)
           /\ \A i \in 1 .. Len(m.options) :
                 /\ m.options[i].number - Before(m.options, i) \in Nat
                 /\ s[i] = 1 + ExtendedSize(m.options[i].number - Before(m.options, i))
                             + ExtendedSize(m.options[i].length) + m.options[i].length
<1>. DEFINE s == OptionSizes(m.options)
            N == Len(m.options)
            ext(v) == IF v < 13 THEN 0 ELSE IF v < 269 THEN 1 ELSE 2
            delta(i) == m.options[i].number - Before(m.options, i)
            l(i) == m.options[i].length
<1>1. /\ N \in Nat
      /\ \A i \in 1 .. N : m.options[i].number \in Nat /\ l(i) \in Nat
      /\ \A i, j \in 1 .. N : i < j => m.options[i].number <= m.options[j].number
  <2>1. m.options \in Seq([number : Uint16, length : Uint16])
    BY MessageIs
  <2>2. N \in Nat
    BY <2>1
  <2>. QED
    BY <2>2, MessageIs
<1>2. s = [i \in 1 .. N |-> 1 + ext(delta(i)) + ext(l(i)) + l(i)]
  BY Zenon DEF OptionSizes, Before
<1>3. \A v \in Nat : ext(v) = ExtendedSize(v)
  BY DEF ExtendedSize
<1>4. ASSUME NEW i \in 1 .. N
      PROVE  delta(i) \in Nat
  <2>1. CASE i = 1
    BY <1>1, <2>1 DEF Before
  <2>2. CASE i # 1
    <3>1. i - 1 \in 1 .. N /\ i - 1 < i
      BY <1>1, <2>2
    <3>2. m.options[i - 1].number <= m.options[i].number
      BY <1>1, <3>1
    <3>3. m.options[i - 1].number \in Nat /\ m.options[i].number \in Nat
      BY <1>1, <3>1
    <3>4. Before(m.options, i) = m.options[i - 1].number
      BY <2>2 DEF Before
    <3>. QED
      BY <3>2, <3>3, <3>4
  <2>. QED
    BY <2>1, <2>2
<1>5. ASSUME NEW i \in 1 .. N
      PROVE  s[i] = 1 + ExtendedSize(delta(i)) + ExtendedSize(l(i)) + l(i)
  <2>1. s[i] = 1 + ext(delta(i)) + ext(l(i)) + l(i)
    <3>. HIDE DEF ext, delta, l, s, N
    <3>. QED
      BY <1>2
  <2>2. delta(i) \in Nat /\ l(i) \in Nat
    BY <1>1, <1>4
  <2>3. ext(delta(i)) = ExtendedSize(delta(i)) /\ ext(l(i)) = ExtendedSize(l(i))
    <3>. HIDE DEF ext, delta, l
    <3>. QED
      BY <1>3, <2>2
  <2>. HIDE DEF ext, delta, l, s
  <2>. QED
    BY <2>1, <2>3
<1>6. ASSUME NEW i \in 1 .. N
      PROVE  s[i] \in Nat
  <2>1. delta(i) \in Nat /\ l(i) \in Nat
    BY <1>1, <1>4
  <2>. HIDE DEF delta, l, s
  <2>2. ExtendedSize(delta(i)) \in 0 .. 2 /\ ExtendedSize(l(i)) \in 0 .. 2
    BY <2>1, CodingIs
  <2>. QED
    BY <1>5, <2>1, <2>2
<1>7. s \in [1 .. N -> Nat]
  <2>. HIDE DEF ext, delta, l, s, N
  <2>. QED
    BY <1>2, <1>6
<1>8. s \in Seq(Nat) /\ Len(s) = N
  <2>. HIDE DEF s, N
  <2>. QED
    BY <1>1, <1>7
<1>. HIDE DEF ext
<1>. QED
  BY <1>4, <1>5, <1>8

\* Sizes of TLVs are four bytes more than their values.
LEMMA TlvSizesAre ==
    ASSUME NEW m, IsMessage(m), NEW k \in 1 .. Len(m.payloads)
    PROVE  LET lengths == m.payloads[k]
               s == TlvSizes(lengths)
           IN  /\ lengths \in Seq(Int)
               /\ s \in Seq(Nat) /\ Len(s) = Len(lengths)
               /\ \A i \in 1 .. Len(lengths) : s[i] = 4 + lengths[i] /\ s[i] >= 3
<1>. DEFINE lengths == m.payloads[k]
            s == TlvSizes(lengths)
            N == Len(lengths)
<1>1. lengths \in Seq(Uint16 \union {Unencodable})
  BY MessageIs
<1>2. s = [i \in 1 .. N |-> 4 + lengths[i]]
  BY DEF TlvSizes
<1>. HIDE DEF lengths
<1>3. N \in Nat /\ lengths \in Seq(Int)
  <2>1. Uint16 \union {Unencodable} \subseteq Int
    BY DEF Uint16, Unencodable
  <2>. QED
    BY <1>1, <2>1
<1>4. ASSUME NEW i \in 1 .. N
      PROVE  lengths[i] \in Int /\ lengths[i] >= -1
  <2>1. lengths[i] \in Uint16 \/ lengths[i] = Unencodable
    BY <1>1
  <2>2. Uint16 \subseteq Nat
    BY DEF Uint16
  <2>3. lengths[i] \in Nat \/ lengths[i] = Unencodable
    BY <2>1, <2>2, Zenon
  <2>. QED
    BY <2>3 DEF Unencodable
<1>. HIDE DEF s, N
<1>5. \A i \in 1 .. N : s[i] = 4 + lengths[i] /\ s[i] >= 3 /\ s[i] \in Nat
  BY <1>2, <1>4
<1>6. s \in [1 .. N -> Nat]
  BY <1>2, <1>5
<1>7. s \in Seq(Nat) /\ Len(s) = N
  BY <1>3, <1>6
<1>. QED
  BY <1>3, <1>5, <1>7 DEF lengths, s, N

-------------------------------------------------------------------------------
(***************************************************************************)
(* The readers' steps                                                       *)
(***************************************************************************)

\* A built datagram stays what it is while it is read.
LEMMA CompleteKeeps ==
    ASSUME CInv, UNCHANGED <<built, buffer, damaged>>,
           phase \in Complete, phase' \in Complete
    PROVE  /\ OptionsLaid' /\ ValuesLaid' /\ HmacSpoilt'
           /\ PayloadBuilt' /\ PacketBuilt' /\ HighestLevel' /\ FailedForAReason'
<1>1. /\ message' = message /\ level' = level /\ payload' = payload /\ written' = written
      /\ buffer' = buffer /\ damaged' = damaged
  BY DEF built
<1>2. End' = End
  BY <1>1 DEF End
<1>3. phase \notin {"payload", "build", "failed"} /\ phase' \notin {"payload", "build", "failed"}
  BY DEF Complete, Reading
<1>4. OptionsLaid'
  BY <1>1, <1>2 DEF CInv, OptionsLaid
<1>5. ValuesLaid' /\ HmacSpoilt'
  BY <1>1 DEF CInv, ValuesLaid, HmacSpoilt
<1>6. UriLength' = UriLength /\ Blocks(level)' = Blocks(level)
  BY <1>1 DEF UriLength, Blocks
<1>7. PayloadBuilt'
  <2>1. Encoded(Len(Blocks(level))) /\ UriLength < UriStringSize
    BY <1>3 DEF CInv, PayloadBuilt
  <2>2. Encoded(Len(Blocks(level)))'
    BY <1>1, <1>6, <2>1 DEF Encoded
  <2>. QED
    BY <1>3, <1>6, <2>1, <2>2 DEF PayloadBuilt
<1>8. PacketBuilt'
  BY <1>1, <1>2, <1>3 DEF CInv, PacketBuilt
<1>9. HighestLevel'
  <2>1. DatagramSize(level + 1)' = DatagramSize(level + 1)
    BY <1>1 DEF DatagramSize, Blocks
  <2>. QED
    BY <1>1, <2>1 DEF CInv, HighestLevel
<1>10. FailedForAReason'
  BY <1>3 DEF FailedForAReason
<1>. QED
  BY <1>4, <1>5, <1>7, <1>8, <1>9, <1>10

\* What a step of the node's parser keeps, whatever it reads.
LEMMA ReadingKeeps ==
    ASSUME CInv, UNCHANGED <<built, buffer, damaged, size, found>>,
           phase \in Reading, phase' \in Reading,
           pos' \in Nat, uri_length' \in 0 .. UriSize, parsed' \in Seq(Field),
           blocks' \in Seq(Int), ReadSoFar', UriRead', OptionsRead', TlvsRead',
           phase' = "rejected" => size < Len(buffer) \/ payload = <<>>,
           phase' = "hmac_failed" => pos' <= size /\ (size < Len(buffer) \/ damaged)
    PROVE  CInv'
<1>1. /\ message' = message /\ level' = level /\ payload' = payload /\ written' = written
      /\ buffer' = buffer /\ damaged' = damaged /\ size' = size /\ found' = found
  BY DEF built
<1>2. phase \in Complete /\ phase' \in Complete /\ phase' \notin {"built", "find", "found"}
      /\ phase' \notin Building
  BY DEF Complete, Reading, Building
<1>3. /\ OptionsLaid' /\ ValuesLaid' /\ HmacSpoilt'
      /\ PayloadBuilt' /\ PacketBuilt' /\ HighestLevel' /\ FailedForAReason'
  BY <1>2, CompleteKeeps DEF built
<1>4. CodecTypeOK' /\ FieldsOK'
  <2>1. CodecTypeOK /\ FieldsOK
    BY DEF CInv
  <2>2. CodecTypeOK'
    BY <1>1, <2>1 DEF CodecTypeOK
  <2>3. FieldsOK'
    BY <1>1, <2>1 DEF FieldsOK
  <2>. QED
    BY <2>2, <2>3
<1>5. NothingRead' /\ FinderFollows' /\ FinderAgrees'
  BY <1>2 DEF NothingRead, FinderFollows, FinderAgrees
<1>6. Arrived'
  BY <1>1, <1>2 DEF CInv, Arrived
<1>. QED
  BY <1>3, <1>4, <1>5, <1>6 DEF CInv

\* Types of a reading state, in one place.
LEMMA ReadingTypes ==
    ASSUME CInv, phase \in Reading
    PROVE  /\ FieldsOK /\ OptionsLaid /\ PacketBuilt /\ phase \in Complete
           /\ IsMessage(message) /\ Len(written) = Len(message.options)
           /\ size \in Nat /\ size <= Len(buffer) /\ Len(buffer) \in Nat
           /\ pos \in Nat /\ uri_length \in 0 .. UriSize
           /\ Len(parsed) \in Nat /\ Len(written) \in Nat /\ Len(parsed) <= Len(written)
           /\ UriLength < UriStringSize
           /\ \A i \in 1 .. Len(parsed) : parsed[i] = written[i]
<1>1. FieldsOK /\ CodecTypeOK /\ OptionsLaid /\ PacketBuilt
  BY DEF CInv
<1>2. phase \in Complete /\ phase \notin {"payload", "failed"}
  BY DEF Complete, Reading
<1>3. IsMessage(message)
  BY <1>1, MessageAssumption DEF CodecTypeOK
<1>4. size \in Nat /\ pos \in Nat /\ uri_length \in 0 .. UriSize
  BY <1>1, SizeAssumption DEF CodecTypeOK
<1>5. Len(buffer) \in Nat /\ Len(parsed) \in Nat /\ Len(written) \in Nat
  BY <1>1 DEF FieldsOK
<1>6. size <= Len(buffer) /\ ReadSoFar
  BY DEF CInv, Arrived
<1>7. Len(written) = Len(message.options)
  BY <1>1, <1>2 DEF PacketBuilt
<1>8. UriLength < UriStringSize
  BY <1>2 DEF CInv, PayloadBuilt
<1>. QED
  BY <1>1, <1>2, <1>3, <1>4, <1>5, <1>6, <1>7, <1>8 DEF ReadSoFar

\* A reader that goes over the next option stands before the one behind it.
LEMMA GoesOn ==
    ASSUME FieldsOK, StandsAtOption, Len(parsed) < Len(written),
           parsed' = Append(parsed, written[Len(parsed) + 1]), written' = written,
           pos' = written[Len(parsed) + 1].offset + written[Len(parsed) + 1].length
    PROVE  /\ StandsAtOption' /\ ReadSoFar' /\ parsed' \in Seq(Field) /\ pos' \in Nat
           /\ Len(parsed') = Len(parsed) + 1
           /\ \A i \in 1 .. Len(parsed) + 1 : parsed'[i] = written[i]
<1>. DEFINE n == Len(parsed) + 1
<1>1. /\ n \in 1 .. Len(written) /\ written[n] \in Field
      /\ StartIn(written, n + 1) = written[n].offset + written[n].length
      /\ Append(parsed, written[n]) \in Seq(Field)
      /\ Len(Append(parsed, written[n])) = n
      /\ \A i \in 1 .. n : Append(parsed, written[n])[i] = written[i]
  BY NextIs DEF StandsAtOption
<1>2. Len(parsed') = n /\ parsed' \in Seq(Field) /\ \A i \in 1 .. n : parsed'[i] = written[i]
  BY <1>1
<1>3. pos' = StartIn(written, n + 1) /\ pos' \in Nat
  <2>1. written[n].offset \in Nat /\ written[n].length \in Nat
    BY <1>1, FieldIs
  <2>. QED
    BY <1>1, <2>1
<1>. HIDE DEF n
<1>4. ReadSoFar'
  BY <1>1, <1>2 DEF ReadSoFar
<1>5. StandsAtOption'
  BY <1>2, <1>3, <1>4 DEF StandsAtOption
<1>. QED
  BY <1>2, <1>3, <1>4, <1>5 DEF n

\* Sums over the segments of a URI: each option adds its own, and none of them
\* is more than the whole.
LEMMA UriSumsAre ==
    ASSUME IsMessage(message)
    PROVE  LET s == Segments(message.options)
               N == Len(message.options)
           IN  /\ N \in Nat /\ N > 0 /\ Sums(s)[0] = 0 /\ UriLength \in Nat
               /\ \A i \in 1 .. N : Sums(s)[i] =
                     Sums(s)[i - 1] + (IF message.options[i].number = URI_PATH
                                       THEN 1 + message.options[i].length ELSE 0)
               /\ \A i \in 0 .. N : Sums(s)[i] \in Nat /\ Sums(s)[i] <= UriLength
               /\ Sums(s)[N] = UriLength
<1>. DEFINE s == Segments(message.options)
            N == Len(message.options)
<1>1. /\ s \in Seq(Nat) /\ Len(s) = N
      /\ \A i \in 1 .. N : s[i] = IF message.options[i].number = URI_PATH
                                  THEN 1 + message.options[i].length ELSE 0
  BY SegmentsAre
<1>2. N \in Nat /\ N > 0
  <2>1. message.options \in Seq([number : Uint16, length : Uint16]) /\ message.options # <<>>
    BY MessageIs
  <2>. QED
    BY <2>1
<1>. HIDE DEF s, N
<1>3. /\ Sums(s)[0] = 0
      /\ \A i \in 1 .. N : Sums(s)[i] = Sums(s)[i - 1] + s[i]
      /\ \A i \in 0 .. N : Sums(s)[i] \in Nat
  BY <1>1, SumsAre
<1>4. \A i \in 0 .. N : Sums(s)[i] <= Total(s) /\ Total(s) \in Nat
  <2>1. ASSUME NEW i \in 0 .. N
        PROVE  Sums(s)[i] <= Total(s) /\ Total(s) \in Nat
    <3>1. i \in i .. Len(s)
      BY <1>1, <1>2
    <3>. QED
      BY <1>1, <3>1, SumsGrow
  <2>. QED
    BY <2>1
<1>5. UriLength = Total(s) /\ UriLength = Sums(s)[N]
  BY <1>1 DEF UriLength, Total, s
<1>6. 0 \in 0 .. N
  BY <1>2
<1>. QED
  BY <1>1, <1>2, <1>3, <1>4, <1>5, <1>6 DEF s, N

\* Behind the first option that is not Uri-Path no other is, and the URI ends.
LEMMA UriEnds ==
    ASSUME IsMessage(message), NEW q \in 1 .. Len(message.options) - 1,
           message.options[q + 1].number # URI_PATH
    PROVE  Sums(Segments(message.options))[q] = UriLength
<1>. DEFINE s == Segments(message.options)
            N == Len(message.options)
            zeros == [x \in 1 .. N |-> 0]
            S == {k \in Nat : \A p \in q .. N : p = q + k => Sums(s)[p] = Sums(s)[q]}
<1>1. /\ N \in Nat /\ Sums(s)[N] = UriLength
      /\ \A i \in 1 .. N : Sums(s)[i] =
            Sums(s)[i - 1] + (IF message.options[i].number = URI_PATH
                              THEN 1 + message.options[i].length ELSE 0)
      /\ \A i \in 0 .. N : Sums(s)[i] \in Nat
  BY UriSumsAre
<1>2. ASSUME NEW i \in q + 1 .. N
      PROVE  message.options[i].number # URI_PATH
  <2>1. /\ message.options[1].number = URI_PATH
        /\ \A j, k \in 1 .. N : j < k => message.options[j].number <= message.options[k].number
        /\ \A j \in 1 .. N : message.options[j].number \in Nat
    BY MessageIs
  <2>. HIDE DEF N
  <2>2. 1 \in 1 .. N /\ q + 1 \in 1 .. N /\ i \in 1 .. N /\ 1 < q + 1
    BY <1>1 DEF N
  <2>3. message.options[1].number <= message.options[q + 1].number
    BY <2>1, <2>2
  <2>4. message.options[q + 1].number <= message.options[i].number
    <3>1. CASE i = q + 1
      BY <2>1, <2>2, <3>1
    <3>2. CASE i # q + 1
      <4>1. q + 1 < i
        BY <2>2, <3>2
      <4>. QED
        BY <2>1, <2>2, <4>1
    <3>. QED
      BY <3>1, <3>2
  <2>5. /\ message.options[1].number \in Nat /\ message.options[q + 1].number \in Nat
        /\ message.options[i].number \in Nat
    BY <2>1, <2>2
  <2>. QED
    BY <2>1, <2>3, <2>4, <2>5
<1>. HIDE DEF s, N
<1>3. 0 \in S
  OBVIOUS
<1>4. ASSUME NEW k \in S
      PROVE  k + 1 \in S
  <2>1. k \in Nat /\ k + 1 \in Nat
    OBVIOUS
  <2>2. ASSUME NEW p \in q .. N, p = q + (k + 1)
        PROVE  Sums(s)[p] = Sums(s)[q]
    <3>1. p \in 1 .. N /\ p \in q + 1 .. N /\ p - 1 \in q .. N /\ p - 1 = q + k
      BY <1>1, <2>1, <2>2
    <3>2. Sums(s)[p - 1] = Sums(s)[q]
      BY <3>1
    <3>3. Sums(s)[p] = Sums(s)[p - 1] + 0
      BY <1>1, <1>2, <3>1
    <3>4. Sums(s)[p - 1] \in Nat
      BY <1>1, <3>1
    <3>. HIDE DEF S
    <3>. QED
      BY <3>2, <3>3, <3>4
  <2>. QED
    BY <2>1, <2>2
<1>5. \A k \in Nat : k \in S
  <2>1. S \in SUBSET Nat
    OBVIOUS
  <2>. HIDE DEF S
  <2>. QED
    BY <1>3, <1>4, <2>1, AllNaturals
<1>6. N - q \in Nat /\ N \in q .. N /\ N = q + (N - q)
  BY <1>1 DEF N
<1>7. Sums(s)[N] = Sums(s)[q]
  BY <1>5, <1>6
<1>. QED
  BY <1>1, <1>7 DEF s

\* A datagram that came whole is rejected for want of a marker only.
LEMMA RejectCInv ==
    ASSUME CInv, Reject, phase \in Reading, size < Len(buffer) \/ payload = <<>>
    PROVE  CInv'
<1>1. /\ phase' = "rejected" /\ UNCHANGED <<built, buffer, damaged, size, found>>
      /\ pos' = pos /\ uri_length' = uri_length /\ parsed' = parsed /\ blocks' = blocks
      /\ written' = written
  BY DEF Reject, built
<1>2. phase' \in Reading
  BY <1>1 DEF Reading
<1>3. /\ pos' \in Nat /\ uri_length' \in 0 .. UriSize /\ parsed' \in Seq(Field)
      /\ blocks' \in Seq(Int)
  BY <1>1, ReadingTypes DEF FieldsOK
<1>4. ReadSoFar'
  <2>1. ReadSoFar
    BY DEF CInv, Arrived
  <2>. QED
    BY <1>1, <2>1 DEF ReadSoFar
<1>5. UriRead' /\ OptionsRead' /\ TlvsRead'
  BY <1>1 DEF UriRead, OptionsRead, TlvsRead
<1>. QED
  BY <1>1, <1>2, <1>3, <1>4, <1>5, ReadingKeeps

\* Arithmetic for the next lemma.
LEMMA SmallEnough ==
    ASSUME NEW a \in Nat, NEW b \in Nat, a <= b, b < 96
    PROVE  a <= 128 /\ a \in 0 .. 128
  OBVIOUS

\* The URI goes on with the next Uri-Path option.
LEMMA ReadSegmentCInv ==
    ASSUME CInv, phase = "uri", NEW o, NEW grown,
           Len(parsed) < Len(written), o = written[Len(parsed) + 1],
           o.offset + o.length <= size, o.number = URI_PATH,
           grown = uri_length + (IF parsed = <<>> THEN 0 ELSE 1) + o.length
    PROVE  /\ grown <= UriSize
           /\ /\ parsed' = Append(parsed, o) /\ pos' = o.offset + o.length
              /\ uri_length' = grown
              /\ UNCHANGED <<built, phase, buffer, size, damaged, blocks, found>>
              => CInv'
<1>. DEFINE n == Len(parsed) + 1
            s == Segments(message.options)
<1>0. phase \in Reading
  BY DEF Reading
<1>1. /\ FieldsOK /\ OptionsLaid /\ IsMessage(message) /\ Len(written) = Len(message.options)
      /\ size \in Nat /\ Len(parsed) \in Nat /\ Len(written) \in Nat
      /\ UriLength < UriStringSize
  BY <1>0, ReadingTypes
<1>2. /\ StandsAtOption /\ \A i \in 1 .. Len(parsed) : parsed[i].number = URI_PATH
      /\ uri_length = IF parsed = <<>> THEN 1 ELSE Sums(s)[Len(parsed)]
  BY DEF CInv, UriRead
<1>3. /\ Sums(s)[0] = 0 /\ UriLength \in Nat
      /\ \A i \in 1 .. Len(written) : Sums(s)[i] =
            Sums(s)[i - 1] + (IF message.options[i].number = URI_PATH
                              THEN 1 + message.options[i].length ELSE 0)
      /\ \A i \in 0 .. Len(written) : Sums(s)[i] \in Nat /\ Sums(s)[i] <= UriLength
  BY <1>1, UriSumsAre
<1>4. n \in 1 .. Len(written) /\ n - 1 = Len(parsed) /\ o \in Field
  BY <1>1, <1>2, NextIs DEF StandsAtOption
<1>5. message.options[n].number = o.number /\ message.options[n].length = o.length
  BY <1>1, <1>4 DEF OptionsLaid
<1>6. o.length \in Nat /\ o.offset \in Nat
  BY <1>4, FieldIs
<1>. HIDE DEF s, n
<1>7. Sums(s)[n] = Sums(s)[Len(parsed)] + (1 + o.length)
  BY <1>3, <1>4, <1>5
<1>8. grown = Sums(s)[n]
  <2>1. Sums(s)[Len(parsed)] \in Nat
    <3>1. Len(parsed) \in 0 .. Len(written)
      BY <1>1
    <3>. QED
      BY <1>3, <3>1
  <2>2. CASE parsed = <<>>
    <3>1. Len(parsed) = 0
      BY <2>2
    <3>2. grown = 1 + 0 + o.length
      BY <1>2, <2>2
    <3>. QED
      BY <1>3, <1>6, <1>7, <3>1, <3>2
  <2>3. CASE parsed # <<>>
    <3>1. grown = Sums(s)[Len(parsed)] + 1 + o.length
      BY <1>2, <2>3
    <3>. QED
      BY <1>6, <1>7, <2>1, <3>1
  <2>. QED
    BY <2>2, <2>3
<1>9. grown <= UriSize /\ grown \in 0 .. UriSize
  <2>1. grown \in Nat /\ grown <= UriLength
    BY <1>3, <1>4, <1>8
  <2>2. UriLength \in Nat /\ UriLength < 96
    BY <1>1, <1>3, Zenon DEF UriStringSize
  <2>3. grown <= 128 /\ grown \in 0 .. 128
    BY <2>1, <2>2, SmallEnough, Zenon
  <2>. QED
    BY <2>3 DEF UriSize
<1>10. ASSUME parsed' = Append(parsed, o), pos' = o.offset + o.length,
              uri_length' = grown,
              UNCHANGED <<built, phase, buffer, size, damaged, blocks, found>>
       PROVE  CInv'
  <2>1. /\ message' = message /\ written' = written /\ phase' = phase /\ size' = size
        /\ blocks' = blocks /\ UNCHANGED <<built, buffer, damaged, size, found>>
    BY <1>10 DEF built
  <2>2. /\ StandsAtOption' /\ ReadSoFar' /\ parsed' \in Seq(Field) /\ pos' \in Nat
        /\ Len(parsed') = n /\ \A i \in 1 .. n : parsed'[i] = written[i]
    BY <1>1, <1>2, <1>10, <2>1, GoesOn DEF n
  <2>3. UriRead'
    <3>1. pos' <= size' /\ 4 <= size'
      BY <1>10, <2>1 DEF CInv, UriRead
    <3>2. \A i \in 1 .. Len(parsed') : parsed'[i].number = URI_PATH
      <4>1. ASSUME NEW i \in 1 .. n
            PROVE  parsed'[i].number = URI_PATH
        <5>1. CASE i = n
          BY <2>2, <5>1 DEF n
        <5>2. CASE i # n
          <6>1. i \in 1 .. Len(parsed)
            BY <1>1, <5>2 DEF n
          <6>2. parsed[i] = written[i]
            BY <1>2, <6>1 DEF StandsAtOption, ReadSoFar
          <6>. QED
            BY <1>2, <2>2, <6>1, <6>2
        <5>. QED
          BY <5>1, <5>2
      <4>. QED
        BY <2>2, <4>1
    <3>3. uri_length' = Sums(Segments(message.options))'[Len(parsed')]
      BY <1>8, <1>10, <2>1, <2>2 DEF s
    <3>4. parsed' # <<>>
      BY <1>4, <2>2
    <3>5. blocks' = <<>>
      BY <2>1 DEF CInv, UriRead
    <3>. QED
      BY <2>2, <3>1, <3>2, <3>3, <3>4, <3>5 DEF UriRead
  <2>4. OptionsRead' /\ TlvsRead'
    BY <2>1 DEF OptionsRead, TlvsRead
  <2>5. uri_length' \in 0 .. UriSize
    BY <1>9, <1>10, Zenon
  <2>6. blocks' \in Seq(Int)
    BY <1>1, <2>1 DEF FieldsOK
  <2>7. phase' \in Reading /\ phase' # "rejected" /\ phase' # "hmac_failed"
    BY <2>1 DEF Reading
  <2>. QED
    BY <1>0, <2>1, <2>2, <2>3, <2>4, <2>5, <2>6, <2>7, ReadingKeeps
<1>. QED
  BY <1>9, <1>10

\* At the end of the URI its length is right, and its buffer was large enough.
LEMMA UriDoneCInv ==
    ASSUME CInv, phase = "uri", uri_length = UriLength
    PROVE  /\ ~(uri_length >= UriSize)
           /\ /\ phase' = "options" /\ pos' = 4 /\ parsed' = <<>>
              /\ UNCHANGED <<built, buffer, size, damaged, uri_length, blocks, found>>
              => CInv'
<1>0. phase \in Reading
  BY DEF Reading
<1>1. /\ FieldsOK /\ UriLength < UriStringSize /\ uri_length \in 0 .. UriSize
      /\ size \in Nat /\ pos \in Nat /\ Len(parsed) \in Nat /\ Len(written) \in Nat
      /\ Len(parsed) <= Len(written)
  BY <1>0, ReadingTypes
<1>2. ~(uri_length >= UriSize)
  BY <1>1 DEF UriStringSize, UriSize
<1>3. ASSUME phase' = "options", pos' = 4, parsed' = <<>>,
             UNCHANGED <<built, buffer, size, damaged, uri_length, blocks, found>>
      PROVE  CInv'
  <2>1. /\ message' = message /\ written' = written /\ size' = size /\ blocks' = blocks
        /\ uri_length' = uri_length /\ UNCHANGED <<built, buffer, damaged, size, found>>
    BY <1>3 DEF built
  <2>2. ReadSoFar' /\ Len(parsed') = 0
    BY <1>1, <1>3, <2>1 DEF ReadSoFar
  <2>3. StandsAtOption'
    BY <1>3, <2>2 DEF StandsAtOption, StartIn
  <2>4. 4 <= size /\ blocks = <<>>
    BY DEF CInv, UriRead
  <2>5. OptionsRead'
    BY <1>3, <2>1, <2>3, <2>4 DEF OptionsRead, UriLength
  <2>6. UriRead' /\ TlvsRead'
    BY <1>3 DEF UriRead, TlvsRead
  <2>7. parsed' \in Seq(Field) /\ blocks' \in Seq(Int) /\ pos' \in Nat
    BY <1>1, <1>3, <2>1 DEF FieldsOK
  <2>8. phase' \in Reading /\ phase' # "rejected" /\ phase' # "hmac_failed"
    BY <1>3 DEF Reading
  <2>. QED
    BY <1>0, <1>1, <2>1, <2>2, <2>5, <2>6, <2>7, <2>8, ReadingKeeps
<1>. QED
  BY <1>2, <1>3

\* ExtractURIString keeps the invariant.
LEMMA ExtractURICInv ==
    ASSUME CInv, ExtractURIString
    PROVE  CInv'
<1>. DEFINE o == written[Len(parsed) + 1]
            r == ParseCoAPOption
            is_uri == r.kind = "option" /\ r.option.number = URI_PATH
            grown == uri_length + (IF parsed = <<>> THEN 0 ELSE 1) + r.option.length
<1>1. phase = "uri" /\ phase \in Reading /\ phase \in Complete
  BY DEF ExtractURIString, Reading, Complete
<1>2. /\ FieldsOK /\ OptionsLaid /\ PacketBuilt /\ IsMessage(message)
      /\ Len(written) = Len(message.options) /\ size \in Nat /\ size <= Len(buffer)
      /\ Len(buffer) \in Nat /\ Len(parsed) \in Nat /\ Len(written) \in Nat
      /\ Len(parsed) <= Len(written)
  BY <1>1, ReadingTypes
<1>3. /\ StandsAtOption
      /\ uri_length = IF parsed = <<>> THEN 1
                      ELSE Sums(Segments(message.options))[Len(parsed)]
  BY <1>1 DEF CInv, UriRead
<1>4. (CASE r.kind = "short" -> Reject
        [] is_uri ->
             IF grown > UriSize
             THEN Reject
             ELSE /\ ReadOption(r)
                  /\ uri_length' = grown
                  /\ UNCHANGED <<built, phase, buffer, size, damaged, blocks, found>>
        [] r.kind # "short" /\ ~is_uri ->
             IF uri_length >= UriSize
             THEN Reject
             ELSE /\ phase' = "options" /\ pos' = 4 /\ parsed' = <<>>
                  /\ UNCHANGED <<built, buffer, size, damaged, uri_length, blocks, found>>)
  BY DEF ExtractURIString
<1>. HIDE DEF r
<1>5. CASE Len(parsed) < Len(written)
  <2>1. IF o.offset + o.length <= size
        THEN r = [kind |-> "option", next |-> o.offset + o.length, option |-> o]
        ELSE r = [kind |-> "short"]
    BY <1>2, <1>3, <1>5, ParsesOption DEF r
  <2>2. o.offset + o.length <= Len(buffer) /\ o \in Field
    BY <1>2, <1>3, <1>5, OptionIsThere, NextIs DEF StandsAtOption
  <2>. HIDE DEF o
  <2>3. CASE ~(o.offset + o.length <= size)
    <3>1. Reject
      <4>1. r.kind = "short" /\ ~is_uri
        BY <2>1, <2>3
      <4>. HIDE DEF is_uri, grown
      <4>. QED
        BY <1>4, <4>1
    <3>2. size < Len(buffer)
      BY <1>2, <2>2, <2>3, FieldIs
    <3>. QED
      BY <1>1, <3>1, <3>2, RejectCInv
  <2>4. CASE o.offset + o.length <= size /\ o.number = URI_PATH
    <3>1. r.kind = "option" /\ r.option = o /\ r.next = o.offset + o.length /\ is_uri
      BY <2>1, <2>4
    <3>2. grown <= UriSize
      BY <1>1, <1>5, <2>4, <3>1, ReadSegmentCInv DEF o
    <3>3. ~(grown > UriSize)
      <4>1. grown \in Nat
        BY <1>1, <2>2, <3>1, ReadingTypes, FieldIs
      <4>. QED
        BY <3>2, <4>1 DEF UriSize
    <3>4. /\ parsed' = Append(parsed, o) /\ pos' = o.offset + o.length
          /\ uri_length' = grown
          /\ UNCHANGED <<built, phase, buffer, size, damaged, blocks, found>>
      BY <1>4, <3>1, <3>3 DEF ReadOption
    <3>. QED
      BY <1>1, <1>5, <2>4, <3>1, <3>4, ReadSegmentCInv DEF o
  <2>5. CASE o.offset + o.length <= size /\ o.number # URI_PATH
    <3>1. r.kind = "option" /\ r.option = o /\ r.kind # "short" /\ ~is_uri
      BY <2>1, <2>5
    <3>2. uri_length = UriLength
      <4>. DEFINE q == Len(parsed)
      <4>1. q + 1 \in 1 .. Len(written) /\ message.options[q + 1].number = o.number
        BY <1>2, <1>5 DEF OptionsLaid, o
      <4>2. q # 0
        BY <1>2, <2>5, <4>1, MessageIs
      <4>3. q \in 1 .. Len(message.options) - 1
        BY <1>2, <1>5, <4>2
      <4>4. Sums(Segments(message.options))[q] = UriLength
        BY <1>2, <2>5, <4>1, <4>3, UriEnds
      <4>5. parsed # <<>>
        BY <4>2
      <4>. QED
        BY <1>3, <4>4, <4>5
    <3>3. /\ phase' = "options" /\ pos' = 4 /\ parsed' = <<>>
          /\ UNCHANGED <<built, buffer, size, damaged, uri_length, blocks, found>>
      BY <1>1, <1>4, <3>1, <3>2, UriDoneCInv
    <3>. QED
      BY <1>1, <3>2, <3>3, UriDoneCInv
  <2>. QED
    BY <2>3, <2>4, <2>5
<1>6. CASE Len(parsed) = Len(written)
  <2>1. \/ r = [kind |-> "short"] /\ (size < Len(buffer) \/ payload = <<>>)
        \/ r = [kind |-> "marker"]
    BY <1>1, <1>2, <1>3, <1>6, ParsesEnd DEF r
  <2>2. CASE r = [kind |-> "short"] /\ (size < Len(buffer) \/ payload = <<>>)
    <3>1. Reject
      BY <1>4, <2>2
    <3>. QED
      BY <1>1, <2>2, <3>1, RejectCInv
  <2>3. CASE r = [kind |-> "marker"]
    <3>1. r.kind # "short" /\ ~is_uri
      BY <2>3
    <3>2. uri_length = UriLength
      <4>1. Len(parsed) > 0 /\ Sums(Segments(message.options))[Len(parsed)] = UriLength
        BY <1>2, <1>6, UriSumsAre
      <4>2. parsed # <<>>
        BY <4>1
      <4>. QED
        BY <1>3, <4>1, <4>2
    <3>3. /\ phase' = "options" /\ pos' = 4 /\ parsed' = <<>>
          /\ UNCHANGED <<built, buffer, size, damaged, uri_length, blocks, found>>
      BY <1>1, <1>4, <3>1, <3>2, UriDoneCInv
    <3>. QED
      BY <1>1, <3>2, <3>3, UriDoneCInv
  <2>. QED
    BY <2>1, <2>2, <2>3
<1>7. Len(parsed) < Len(written) \/ Len(parsed) = Len(written)
  BY <1>2
<1>. QED
  BY <1>5, <1>6, <1>7


\* A datagram that has been read to its marker is verified just when it is the
\* one that was built.
LEMMA VerifiesWhole ==
    ASSUME CInv, phase = "options", Len(parsed) = Len(written), pos = End, pos < size,
           payload # <<>>
    PROVE  VerifyPacketHMAC(pos + 1) <=> size = Len(buffer) /\ ~damaged
<1>0. phase \in Reading /\ phase \in Complete
  BY DEF Reading, Complete
<1>1. /\ FieldsOK /\ PacketBuilt /\ IsMessage(message)
      /\ Len(written) = Len(message.options)
      /\ size \in Nat /\ size <= Len(buffer) /\ Len(buffer) \in Nat /\ pos \in Nat
      /\ \A i \in 1 .. Len(parsed) : parsed[i] = written[i]
  BY <1>0, ReadingTypes
<1>2. /\ Len(buffer) = pos + (1 + Len(payload))
      /\ ~damaged => \A i \in 1 .. Len(payload) : buffer[pos + 1 + i] = payload[i]
  BY <1>0, <1>1 DEF PacketBuilt
<1>3. buffer \in Seq(Int) /\ payload \in Seq(Int) /\ Len(payload) \in Nat
  BY <1>1 DEF FieldsOK
<1>. DEFINE rest == SubSeq(buffer, pos + 2, size)
<1>4. /\ rest \in Seq(Int) /\ Len(rest) = size - (pos + 1)
      /\ \A i \in 1 .. size - (pos + 1) : rest[i] = buffer[pos + 1 + i]
  <2>1. pos + 2 \in 1 .. Len(buffer) + 1 /\ size \in pos + 1 .. Len(buffer)
    BY <1>1
  <2>2. pos + 2 - 1 = pos + 1 /\ size - (pos + 2) + 1 = size - (pos + 1)
    BY <1>1
  <2>3. \A i \in 1 .. size - (pos + 1) : i \in 1 .. size - (pos + 2) + 1
                                      /\ pos + 2 + i - 1 = pos + 1 + i
    BY <1>1
  <2>4. /\ rest \in Seq(Int) /\ Len(rest) = size - (pos + 2) + 1
        /\ \A i \in 1 .. size - (pos + 2) + 1 : rest[i] = buffer[pos + 2 + i - 1]
    BY <1>1, <1>3, <2>1, SubSeqProperties
  <2>. QED
    BY <2>2, <2>3, <2>4
<1>5. VerifyPacketHMAC(pos + 1) =
        (/\ rest = payload
         /\ \A i \in 1 .. Len(parsed) :
               parsed[i].number = HMAC =>
                 \A b \in 1 .. parsed[i].length : buffer[parsed[i].offset + b] = Fill)
  <2>1. pos + 1 + 1 = pos + 2
    BY <1>1
  <2>. QED
    BY <2>1, Zenon DEF VerifyPacketHMAC
<1>. HIDE DEF rest
<1>6. ASSUME size = Len(buffer), ~damaged
      PROVE  VerifyPacketHMAC(pos + 1)
  <2>1. Len(rest) = Len(payload)
    BY <1>2, <1>3, <1>4, <1>6, <1>1
  <2>2. \A i \in 1 .. Len(payload) : rest[i] = payload[i]
    BY <1>2, <1>4, <1>6, <2>1
  <2>3. rest = payload
    BY <1>3, <1>4, <2>1, <2>2, SeqEqual
  <2>4. ASSUME NEW i \in 1 .. Len(parsed), NEW b \in 1 .. parsed[i].length
        PROVE  buffer[parsed[i].offset + b] = Fill
    <3>1. \A j \in 1 .. Len(written) : \A c \in 1 .. written[j].length :
             buffer[written[j].offset + c] = Fill
      BY <1>6 DEF CInv, ValuesLaid
    <3>. QED
      BY <1>1, <3>1
  <2>. QED
    BY <1>5, <2>3, <2>4
<1>7. ASSUME VerifyPacketHMAC(pos + 1)
      PROVE  size = Len(buffer) /\ ~damaged
  <2>1. rest = payload
    BY <1>5, <1>7
  <2>2. size = Len(buffer)
    BY <1>1, <1>2, <1>3, <1>4, <2>1
  <2>3. ASSUME damaged
        PROVE  FALSE
    <3>1. PICK i \in 1 .. Len(written) :
             /\ written[i].number = HMAC /\ written[i].length > 0
             /\ buffer[written[i].offset + 1] # Fill
      BY <2>3 DEF CInv, HmacSpoilt
    <3>2. parsed[i] = written[i] /\ i \in 1 .. Len(parsed)
      BY <1>1, <3>1
    <3>3. written[i].length \in Nat
      <4>1. written[i] \in Field
        BY <1>1, <3>1 DEF FieldsOK
      <4>. QED
        BY <4>1, FieldIs
    <3>4. 1 \in 1 .. parsed[i].length
      BY <3>1, <3>2, <3>3
    <3>. QED
      BY <1>5, <1>7, <3>1, <3>2, <3>4
  <2>. QED
    BY <2>2, <2>3
<1>. QED
  BY <1>6, <1>7

\* An option of Sig-Net has the length it must have.
LEMMA LengthsAre ==
    ASSUME NEW m, IsMessage(m), NEW i \in 1 .. Len(m.options), NEW k \in DOMAIN SigNetLength,
           m.options[i].number = k
    PROVE  m.options[i].length = SigNetLength[k]
<1>1. DOMAIN m.options = 1 .. Len(m.options)
  <2>1. m.options \in Seq([number : Uint16, length : Uint16])
    BY MessageIs
  <2>. QED
    BY <2>1
<1>2. \A j \in DOMAIN m.options : \A n \in DOMAIN SigNetLength :
         m.options[j].number = n => m.options[j].length = SigNetLength[n]
  BY Zenon DEF IsMessage
<1>. QED
  BY <1>1, <1>2, Zenon

\* ParseSigNetOptions keeps the invariant: no option that was built has a wrong
\* length, and all six are there at the marker.
LEMMA ParseOptionsCInv ==
    ASSUME CInv, ParseSigNetOptions
    PROVE  CInv'
<1>. DEFINE o == written[Len(parsed) + 1]
            r == ParseCoAPOption
            wrong == /\ r.option.number \in DOMAIN SigNetLength
                     /\ r.option.length # SigNetLength[r.option.number]
            complete == DOMAIN SigNetLength \subseteq {parsed[i].number : i \in 1 .. Len(parsed)}
<1>1. phase = "options" /\ phase \in Reading /\ phase \in Complete
  BY DEF ParseSigNetOptions, Reading, Complete
<1>2. /\ FieldsOK /\ OptionsLaid /\ PacketBuilt /\ IsMessage(message)
      /\ Len(written) = Len(message.options) /\ size \in Nat /\ size <= Len(buffer)
      /\ Len(buffer) \in Nat /\ Len(parsed) \in Nat /\ Len(written) \in Nat
      /\ Len(parsed) <= Len(written) /\ uri_length \in 0 .. UriSize /\ pos \in Nat
      /\ \A i \in 1 .. Len(parsed) : parsed[i] = written[i]
  BY <1>1, ReadingTypes
<1>3. StandsAtOption /\ uri_length = UriLength /\ blocks = <<>>
  BY <1>1 DEF CInv, OptionsRead
<1>4. (CASE r.kind = "short" -> Reject
        [] r.kind = "option" ->
             IF wrong
             THEN Reject
             ELSE /\ ReadOption(r)
                  /\ UNCHANGED <<built, phase, buffer, size, damaged, uri_length,
                                 blocks, found>>
        [] r.kind = "marker" ->
             IF complete
             THEN /\ phase' = IF VerifyPacketHMAC(pos + 1) THEN "tlvs" ELSE "hmac_failed"
                  /\ pos' = pos + 1
                  /\ UNCHANGED <<built, buffer, size, damaged, uri_length, parsed,
                                 blocks, found>>
             ELSE Reject)
  BY DEF ParseSigNetOptions
<1>. HIDE DEF r
<1>5. CASE Len(parsed) < Len(written)
  <2>1. IF o.offset + o.length <= size
        THEN r = [kind |-> "option", next |-> o.offset + o.length, option |-> o]
        ELSE r = [kind |-> "short"]
    BY <1>2, <1>3, <1>5, ParsesOption DEF r
  <2>2. o.offset + o.length <= Len(buffer) /\ o \in Field
    BY <1>2, <1>3, <1>5, OptionIsThere, NextIs DEF StandsAtOption
  <2>3. CASE ~(o.offset + o.length <= size)
    <3>1. Reject
      <4>1. r.kind = "short"
        BY <2>1, <2>3
      <4>. HIDE DEF wrong, complete
      <4>. QED
        BY <1>4, <4>1
    <3>2. size < Len(buffer)
      <4>. HIDE DEF o
      <4>. QED
        BY <1>2, <2>2, <2>3, FieldIs
    <3>. QED
      BY <1>1, <3>1, <3>2, RejectCInv
  <2>4. CASE o.offset + o.length <= size
    <3>1. r.kind = "option" /\ r.option = o /\ r.next = o.offset + o.length
      BY <2>1, <2>4
    <3>2. ~wrong
      <4>. DEFINE n == Len(parsed) + 1
      <4>1. n \in 1 .. Len(message.options) /\ n \in 1 .. Len(written)
        BY <1>2, <1>5
      <4>2. o.number = message.options[n].number /\ o.length = message.options[n].length
        BY <1>2, <4>1 DEF OptionsLaid
      <4>. HIDE DEF n, o
      <4>3. \A k \in DOMAIN SigNetLength :
               message.options[n].number = k => message.options[n].length = SigNetLength[k]
        BY <1>2, <4>1, LengthsAre
      <4>4. \A k \in DOMAIN SigNetLength : o.number = k => o.length = SigNetLength[k]
        BY <4>2, <4>3, Zenon
      <4>. QED
        BY <3>1, <4>4, Zenon
    <3>3. /\ parsed' = Append(parsed, o) /\ pos' = o.offset + o.length
          /\ UNCHANGED <<built, phase, buffer, size, damaged, uri_length, blocks, found>>
      <4>. HIDE DEF wrong, o, complete
      <4>. QED
        BY <1>4, <3>1, <3>2 DEF ReadOption
    <3>4. /\ message' = message /\ written' = written /\ phase' = phase /\ size' = size
          /\ blocks' = blocks /\ uri_length' = uri_length
          /\ UNCHANGED <<built, buffer, damaged, size, found>>
      BY <3>3 DEF built
    <3>5. StandsAtOption' /\ ReadSoFar' /\ parsed' \in Seq(Field) /\ pos' \in Nat
      BY <1>2, <1>3, <1>5, <3>3, <3>4, GoesOn
    <3>6. OptionsRead'
      BY <1>3, <2>4, <3>3, <3>4, <3>5 DEF OptionsRead, UriLength
    <3>7. UriRead' /\ TlvsRead'
      BY <1>1, <3>4 DEF UriRead, TlvsRead
    <3>8. blocks' \in Seq(Int) /\ uri_length' \in 0 .. UriSize
      BY <1>2, <3>4 DEF FieldsOK
    <3>9. phase' \in Reading /\ phase' # "rejected" /\ phase' # "hmac_failed"
      BY <1>1, <3>4
    <3>. QED
      BY <1>1, <3>4, <3>5, <3>6, <3>7, <3>8, <3>9, ReadingKeeps
  <2>. QED
    BY <2>3, <2>4
<1>6. CASE Len(parsed) = Len(written)
  <2>1. \/ r = [kind |-> "short"] /\ (size < Len(buffer) \/ payload = <<>>)
        \/ r = [kind |-> "marker"] /\ payload # <<>> /\ pos = End /\ pos < size
    BY <1>1, <1>2, <1>3, <1>6, ParsesEnd DEF r
  <2>2. CASE r = [kind |-> "short"] /\ (size < Len(buffer) \/ payload = <<>>)
    <3>1. Reject
      <4>1. r.kind = "short"
        BY <2>2
      <4>. HIDE DEF wrong, complete
      <4>. QED
        BY <1>4, <4>1
    <3>. QED
      BY <1>1, <2>2, <3>1, RejectCInv
  <2>3. CASE r = [kind |-> "marker"] /\ payload # <<>> /\ pos = End /\ pos < size
    <3>1. complete
      <4>1. ASSUME NEW k \in DOMAIN SigNetLength
            PROVE  \E i \in 1 .. Len(parsed) : parsed[i].number = k
        <5>1. PICK i \in 1 .. Len(message.options) : message.options[i].number = k
          BY <1>2, MessageIs
        <5>2. i \in 1 .. Len(written) /\ i \in 1 .. Len(parsed)
          BY <1>2, <1>6
        <5>3. written[i].number = k /\ parsed[i] = written[i]
          BY <1>2, <5>1, <5>2 DEF OptionsLaid
        <5>. QED
          BY <5>2, <5>3
      <4>. QED
        BY <4>1
    <3>2. /\ phase' = IF VerifyPacketHMAC(pos + 1) THEN "tlvs" ELSE "hmac_failed"
          /\ pos' = pos + 1
          /\ UNCHANGED <<built, buffer, size, damaged, uri_length, parsed, blocks, found>>
      <4>1. r.kind = "marker"
        BY <2>3
      <4>. HIDE DEF wrong, complete
      <4>. QED
        BY <1>4, <3>1, <4>1
    <3>3. VerifyPacketHMAC(pos + 1) <=> size = Len(buffer) /\ ~damaged
      BY <1>1, <1>6, <2>3, VerifiesWhole
    <3>4. /\ message' = message /\ written' = written /\ size' = size /\ level' = level
          /\ blocks' = blocks /\ uri_length' = uri_length /\ parsed' = parsed
          /\ buffer' = buffer /\ damaged' = damaged
          /\ UNCHANGED <<built, buffer, damaged, size, found>>
      BY <3>2 DEF built
    <3>5. parsed' \in Seq(Field) /\ pos' \in Nat /\ blocks' \in Seq(Int)
          /\ uri_length' \in 0 .. UriSize
      BY <1>2, <3>2, <3>4 DEF FieldsOK
    <3>6. ReadSoFar'
      BY <1>3, <3>4 DEF ReadSoFar, StandsAtOption
    <3>7. phase' \in {"tlvs", "hmac_failed"}
      BY <3>2
    <3>8. phase' \in Reading /\ phase' # "rejected"
      BY <3>7 DEF Reading
    <3>9. UriRead' /\ OptionsRead'
      BY <3>7 DEF UriRead, OptionsRead
    <3>10. phase' = "hmac_failed" => pos' <= size /\ (size < Len(buffer) \/ damaged)
      BY <1>2, <2>3, <3>2, <3>3
    <3>11. TlvsRead'
      <4>1. CASE phase' = "hmac_failed"
        BY <4>1 DEF TlvsRead
      <4>2. CASE phase' = "tlvs"
        <5>1. size = Len(buffer) /\ ~damaged
          BY <3>2, <3>3, <4>2
        <5>2. Encoded(Len(Blocks(level))) /\ Blocks(level)' = Blocks(level)
          <6>1. PayloadBuilt /\ phase \notin {"payload", "failed"}
            BY <1>1 DEF CInv
          <6>. QED
            BY <3>4, <6>1 DEF PayloadBuilt, Blocks
        <5>3. Len(Blocks(level)) \in Nat /\ Sums(TlvSizes(Blocks(level)))[0] = 0
          <6>1. level \in 1 .. Len(message.payloads)
            BY DEF CInv, CodecTypeOK
          <6>2. /\ Blocks(level) \in Seq(Int) /\ TlvSizes(Blocks(level)) \in Seq(Nat)
            BY <1>2, <6>1, TlvSizesAre DEF Blocks
          <6>. QED
            BY <6>2, SumsAre
        <5>4. End' = End /\ pos' = End + 1 /\ blocks' = <<>> /\ Len(blocks') = 0
          BY <1>3, <2>3, <3>2, <3>4 DEF End
        <5>5. End \in Nat
          BY <1>2, <2>3
        <5>6. pos' = End' + 1 + Sums(TlvSizes(Blocks(level)))'[Len(blocks')]
          <6>1. Sums(TlvSizes(Blocks(level)))' = Sums(TlvSizes(Blocks(level)))
            BY <3>4, <5>2 DEF Blocks
          <6>. QED
            BY <5>3, <5>4, <5>5, <6>1
        <5>7. Len(parsed') = Len(written')
          BY <1>6, <3>4
        <5>8. Len(blocks') <= Len(Blocks(level)')
          BY <5>2, <5>3, <5>4
        <5>9. \A i \in 1 .. Len(blocks') : blocks'[i] = Blocks(level)'[i]
          BY <5>4
        <5>10. uri_length' = UriLength'
          BY <1>3, <3>4 DEF UriLength
        <5>11. size' = Len(buffer)' /\ ~damaged' /\ payload' # <<>>
          BY <2>3, <3>2, <3>4, <5>1 DEF built
        <5>12. phase' # "accepted"
          BY <4>2
        <5>. QED
          BY <3>6, <5>11, <5>12, <5>6, <5>7, <5>8, <5>9, <5>10 DEF TlvsRead
      <4>. QED
        BY <3>7, <4>1, <4>2
    <3>. QED
      BY <1>1, <3>4, <3>5, <3>6, <3>8, <3>9, <3>10, <3>11, ReadingKeeps
  <2>. QED
    BY <2>1, <2>2, <2>3
<1>7. Len(parsed) < Len(written) \/ Len(parsed) = Len(written)
  BY <1>2
<1>. QED
  BY <1>5, <1>6, <1>7

\* Where the TLVs of a payload are: each behind the one before it.
LEMMA TlvSumsAre ==
    ASSUME IsMessage(message), NEW k \in 1 .. Len(message.payloads)
    PROVE  LET f == Sums(TlvSizes(Blocks(k)))
               N == Len(Blocks(k))
           IN  /\ N \in Nat /\ Blocks(k) \in Seq(Int) /\ f[0] = 0
               /\ \A i \in 0 .. N : f[i] \in Nat /\ f[i] <= f[N]
               /\ \A i \in 1 .. N : /\ f[i] = f[i - 1] + (4 + Blocks(k)[i])
                                    /\ 4 + Blocks(k)[i] >= 3
               /\ Total(TlvSizes(Blocks(k))) = f[N]
<1>. DEFINE s == TlvSizes(Blocks(k))
            N == Len(Blocks(k))
<1>1. /\ Blocks(k) \in Seq(Int) /\ s \in Seq(Nat) /\ Len(s) = N
      /\ \A i \in 1 .. N : s[i] = 4 + Blocks(k)[i] /\ s[i] >= 3
  BY TlvSizesAre DEF Blocks
<1>2. N \in Nat
  BY <1>1
<1>. HIDE DEF s, N
<1>3. /\ Sums(s)[0] = 0
      /\ \A i \in 1 .. N : Sums(s)[i] = Sums(s)[i - 1] + s[i]
      /\ \A i \in 0 .. N : Sums(s)[i] \in Nat
  BY <1>1, SumsAre
<1>4. \A i \in 0 .. N : Sums(s)[i] <= Sums(s)[N]
  <2>1. ASSUME NEW i \in 0 .. N
        PROVE  Sums(s)[i] <= Sums(s)[N]
    <3>1. N \in i .. Len(s)
      BY <1>1, <1>2
    <3>. QED
      BY <1>1, <3>1, SumsGrow
  <2>. QED
    BY <2>1
<1>5. Total(s) = Sums(s)[N]
  BY <1>1 DEF Total
<1>6. ASSUME NEW i \in 1 .. N
      PROVE  Sums(s)[i] = Sums(s)[i - 1] + (4 + Blocks(k)[i]) /\ 4 + Blocks(k)[i] >= 3
  <2>1. Sums(s)[i] = Sums(s)[i - 1] + s[i] /\ s[i] = 4 + Blocks(k)[i] /\ s[i] >= 3
    BY <1>1, <1>3
  <2>. QED
    BY <2>1, Zenon
<1>. QED
  BY <1>1, <1>2, <1>3, <1>4, <1>5, <1>6 DEF s, N

\* Arithmetic for the next lemma.
LEMMA TlvPositions ==
    ASSUME NEW p \in Nat, NEW s \in Nat, NEW e \in Nat, NEW a \in Nat, NEW b \in Nat,
           NEW l \in Nat, NEW n \in Nat,
           p = e + 1 + a, b = a + (4 + l), b <= n, s = e + (1 + n)
    PROVE  /\ p + 4 + l = e + 1 + b /\ p + 4 + l <= s /\ s - p >= 4
           /\ p + 2 < s /\ p + 2 + 1 = e + 1 + (a + 3) /\ a + 3 \in 1 .. n
           /\ p + 3 < s /\ p + 3 + 1 = e + 1 + (a + 4) /\ a + 4 \in 1 .. n
  OBVIOUS

\* A TLV that was encoded is read as long as it is, and fits in what is left;
\* behind the last one nothing is left.
LEMMA TlvIsThere ==
    ASSUME CInv, phase = "tlvs"
    PROVE  LET m == Len(blocks)
               N == Len(Blocks(level))
               length == ByteAt(pos + 2) * 256 + ByteAt(pos + 3)
           IN  /\ m \in Nat /\ N \in Nat /\ pos \in Nat /\ size \in Nat
               /\ m < N => /\ length = Blocks(level)[m + 1] /\ length \in Nat
                           /\ size - pos >= 4 /\ pos + 4 + length <= size
                           /\ pos + 4 + length =
                                 End + 1 + Sums(TlvSizes(Blocks(level)))[m + 1]
               /\ m = N => pos = size
               /\ m <= N
<1>. DEFINE m == Len(blocks)
            N == Len(Blocks(level))
            f == Sums(TlvSizes(Blocks(level)))
            L == Blocks(level)[m + 1]
<1>0. phase \in Reading /\ phase \in Complete /\ phase \notin {"payload", "failed"}
  BY DEF Reading, Complete
<1>1. /\ FieldsOK /\ PacketBuilt /\ IsMessage(message) /\ size \in Nat /\ pos \in Nat
      /\ Len(written) \in Nat /\ written \in Seq(Field)
  BY <1>0, ReadingTypes DEF FieldsOK
<1>2. /\ size = Len(buffer) /\ ~damaged /\ payload # <<>> /\ m <= N
      /\ pos = End + 1 + f[m]
  BY DEF CInv, TlvsRead
<1>3. level \in 1 .. Len(message.payloads)
  BY DEF CInv, CodecTypeOK
<1>4. /\ N \in Nat /\ f[0] = 0
      /\ \A i \in 0 .. N : f[i] \in Nat /\ f[i] <= f[N]
      /\ \A i \in 1 .. N : f[i] = f[i - 1] + (4 + Blocks(level)[i])
  BY <1>1, <1>3, TlvSumsAre
<1>5. Len(payload) = f[N] /\ \A i \in 1 .. N : TlvIn(payload, Blocks(level), i)
  BY <1>0 DEF CInv, PayloadBuilt, Encoded
<1>6. m \in Nat /\ Len(payload) \in Nat /\ Len(buffer) \in Nat
  BY <1>1 DEF FieldsOK
<1>7. End \in Nat
  <2>1. Len(written) + 1 \in 1 .. Len(written) + 1
    BY <1>1
  <2>. QED
    BY <1>1, <2>1, StartIs DEF End
<1>8. /\ size = End + (1 + Len(payload))
      /\ \A i \in 1 .. Len(payload) : buffer[End + 1 + i] = payload[i]
  BY <1>0, <1>1, <1>2 DEF PacketBuilt
<1>. HIDE DEF m, N, f
<1>9. ASSUME m < N
      PROVE  /\ ByteAt(pos + 2) * 256 + ByteAt(pos + 3) = L /\ L \in Nat
             /\ size - pos >= 4 /\ pos + 4 + L <= size
             /\ pos + 4 + L = End + 1 + f[m + 1]
  <2>1. m + 1 \in 1 .. N /\ m + 1 \in 0 .. N /\ m \in 0 .. N /\ m + 1 - 1 = m
    BY <1>4, <1>6, <1>9
  <2>2. L \in Nat /\ payload[f[m] + 3] * 256 + payload[f[m] + 4] = L
    BY <1>5, <2>1 DEF TlvIn, f
  <2>3. f[m + 1] = f[m] + (4 + L) /\ f[m + 1] <= f[N] /\ f[m] \in Nat
    BY <1>4, <2>1
  <2>. HIDE DEF L
  <2>4. /\ pos + 4 + L = End + 1 + f[m + 1] /\ pos + 4 + L <= size /\ size - pos >= 4
        /\ pos + 2 < size /\ pos + 2 + 1 = End + 1 + (f[m] + 3)
        /\ f[m] + 3 \in 1 .. Len(payload)
        /\ pos + 3 < size /\ pos + 3 + 1 = End + 1 + (f[m] + 4)
        /\ f[m] + 4 \in 1 .. Len(payload)
    <3>1. f[m + 1] \in Nat
      BY <1>4, <2>1
    <3>2. f[m + 1] <= Len(payload)
      BY <1>5, <2>3
    <3>3. /\ pos \in Nat /\ size \in Nat /\ End \in Nat /\ f[m] \in Nat /\ L \in Nat
          /\ Len(payload) \in Nat
      BY <1>1, <1>6, <1>7, <2>2, <2>3
    <3>4. /\ pos = End + 1 + f[m] /\ size = End + (1 + Len(payload))
          /\ f[m + 1] = f[m] + (4 + L)
      BY <1>2, <1>8, <2>3
    <3>. DEFINE a == f[m]
                b == f[m + 1]
                n == Len(payload)
    <3>. HIDE DEF a, b, n
    <3>5. /\ pos \in Nat /\ size \in Nat /\ End \in Nat /\ a \in Nat /\ b \in Nat
          /\ L \in Nat /\ n \in Nat /\ b <= n
      BY <3>1, <3>2, <3>3, Zenon DEF a, b, n
    <3>6. pos = End + 1 + a /\ size = End + (1 + n) /\ b = a + (4 + L)
      BY <3>4, Zenon DEF a, b, n
    <3>7. /\ pos + 4 + L = End + 1 + b /\ pos + 4 + L <= size /\ size - pos >= 4
          /\ pos + 2 < size /\ pos + 2 + 1 = End + 1 + (a + 3) /\ a + 3 \in 1 .. n
          /\ pos + 3 < size /\ pos + 3 + 1 = End + 1 + (a + 4) /\ a + 4 \in 1 .. n
      BY <3>5, <3>6, TlvPositions
    <3>. QED
      BY <3>7, Zenon DEF a, b, n
  <2>5. ByteAt(pos + 2) = payload[f[m] + 3] /\ ByteAt(pos + 3) = payload[f[m] + 4]
    <3>1. /\ buffer[End + 1 + (f[m] + 3)] = payload[f[m] + 3]
          /\ buffer[End + 1 + (f[m] + 4)] = payload[f[m] + 4]
      BY <1>8, <2>4
    <3>2. pos + 2 < Len(buffer) /\ pos + 3 < Len(buffer)
      BY <1>2, <2>4
    <3>. QED
      BY <2>4, <3>1, <3>2, Zenon DEF ByteAt
  <2>. QED
    BY <2>2, <2>4, <2>5
<1>10. ASSUME m = N
       PROVE  pos = size
  BY <1>2, <1>5, <1>6, <1>7, <1>8, <1>10
<1>. QED
  BY <1>1, <1>2, <1>4, <1>6, <1>9, <1>10 DEF m, N, f

\* ParseTLVBlock keeps the invariant.
LEMMA ParseTLVCInv ==
    ASSUME CInv, ParseTLVBlock
    PROVE  CInv'
<1>. DEFINE m == Len(blocks)
            N == Len(Blocks(level))
            length == ByteAt(pos + 2) * 256 + ByteAt(pos + 3)
            f == Sums(TlvSizes(Blocks(level)))
<1>1. phase = "tlvs" /\ phase \in Reading
  BY DEF ParseTLVBlock, Reading
<1>2. /\ FieldsOK /\ uri_length \in 0 .. UriSize /\ pos \in Nat
      /\ \A i \in 1 .. Len(parsed) : parsed[i] = written[i]
  BY <1>1, ReadingTypes
<1>3. /\ size = Len(buffer) /\ ~damaged /\ uri_length = UriLength /\ payload # <<>>
      /\ ReadSoFar /\ Len(parsed) = Len(written)
      /\ \A i \in 1 .. m : blocks[i] = Blocks(level)[i]
      /\ pos = End + 1 + f[m]
  BY <1>1 DEF CInv, TlvsRead
<1>4. /\ m \in Nat /\ N \in Nat /\ m <= N /\ size \in Nat
      /\ m < N => /\ length = Blocks(level)[m + 1] /\ length \in Nat
                  /\ size - pos >= 4 /\ pos + 4 + length <= size
                  /\ pos + 4 + length = End + 1 + f[m + 1]
      /\ m = N => pos = size
  BY <1>1, TlvIsThere
<1>5. IF size - pos >= 4 /\ pos + 4 + length <= size
      THEN /\ blocks' = Append(blocks, length)
           /\ pos' = pos + 4 + length
           /\ UNCHANGED <<built, phase, buffer, size, damaged, uri_length, parsed, found>>
      ELSE /\ phase' = "accepted"
           /\ UNCHANGED <<built, buffer, size, damaged, pos, uri_length, parsed,
                          blocks, found>>
  BY DEF ParseTLVBlock
<1>. HIDE DEF m, N, length, f
<1>6. CASE m < N
  <2>1. /\ blocks' = Append(blocks, length) /\ pos' = pos + 4 + length /\ phase' = phase
        /\ UNCHANGED <<built, phase, buffer, size, damaged, uri_length, parsed, found>>
    BY <1>4, <1>5, <1>6
  <2>2. /\ message' = message /\ written' = written /\ size' = size /\ level' = level
        /\ uri_length' = uri_length /\ parsed' = parsed /\ payload' = payload
        /\ buffer' = buffer /\ damaged' = damaged
        /\ UNCHANGED <<built, buffer, damaged, size, found>>
    BY <2>1 DEF built
  <2>3. Blocks(level)' = Blocks(level) /\ f' = f /\ N' = N /\ End' = End
        /\ UriLength' = UriLength
    BY <2>2 DEF Blocks, f, N, End, UriLength
  <2>4. /\ blocks' \in Seq(Int) /\ Len(blocks') = m + 1
        /\ \A i \in 1 .. m + 1 : blocks'[i] = Blocks(level)[i]
    <3>1. blocks \in Seq(Int) /\ length \in Int
      BY <1>2, <1>4, <1>6 DEF FieldsOK
    <3>2. /\ Append(blocks, length) \in Seq(Int) /\ Len(Append(blocks, length)) = m + 1
          /\ \A i \in 1 .. m : Append(blocks, length)[i] = blocks[i]
          /\ Append(blocks, length)[m + 1] = length
      BY <3>1, AppendProperties DEF m
    <3>3. \A i \in 1 .. m + 1 : i \in 1 .. m \/ i = m + 1
      BY <1>4
    <3>. QED
      BY <1>3, <1>4, <1>6, <2>1, <3>2, <3>3
  <2>5. TlvsRead'
    <3>1. size' = Len(buffer)' /\ ~damaged' /\ uri_length' = UriLength' /\ payload' # <<>>
      BY <1>3, <2>2, <2>3
    <3>2. ReadSoFar' /\ Len(parsed)' = Len(written)'
      BY <1>3, <2>2 DEF ReadSoFar
    <3>3. pos' = End' + 1 + f'[Len(blocks')]
      BY <1>4, <1>6, <2>1, <2>3, <2>4
    <3>4. Len(blocks') <= N'
      BY <1>4, <1>6, <2>3, <2>4
    <3>5. \A i \in 1 .. Len(blocks') : blocks'[i] = Blocks(level)'[i]
      BY <2>3, <2>4
    <3>6. phase' # "accepted"
      BY <1>1, <2>1
    <3>. QED
      BY <3>1, <3>2, <3>3, <3>4, <3>5, <3>6 DEF TlvsRead, f, N
  <2>6. UriRead' /\ OptionsRead'
    BY <1>1, <2>1 DEF UriRead, OptionsRead
  <2>7. ReadSoFar' /\ pos' \in Nat /\ parsed' \in Seq(Field) /\ uri_length' \in 0 .. UriSize
    <3>1. pos + 4 + length \in Nat
      BY <1>2, <1>4, <1>6
    <3>2. ReadSoFar'
      BY <1>3, <2>2 DEF ReadSoFar
    <3>. QED
      BY <1>2, <2>1, <2>2, <3>1, <3>2 DEF FieldsOK
  <2>8. phase' \in Reading /\ phase' # "rejected" /\ phase' # "hmac_failed"
    BY <1>1, <2>1
  <2>. QED
    BY <1>1, <2>2, <2>4, <2>5, <2>6, <2>7, <2>8, ReadingKeeps
<1>7. CASE m = N
  <2>1. ~(size - pos >= 4)
    BY <1>2, <1>4, <1>7
  <2>2. /\ phase' = "accepted"
        /\ UNCHANGED <<built, buffer, size, damaged, pos, uri_length, parsed, blocks, found>>
    BY <1>5, <2>1
  <2>3. /\ message' = message /\ written' = written /\ size' = size /\ level' = level
        /\ uri_length' = uri_length /\ parsed' = parsed /\ payload' = payload
        /\ buffer' = buffer /\ damaged' = damaged /\ pos' = pos /\ blocks' = blocks
        /\ UNCHANGED <<built, buffer, damaged, size, found>>
    BY <2>2 DEF built
  <2>4. Blocks(level)' = Blocks(level) /\ f' = f /\ N' = N /\ End' = End
        /\ UriLength' = UriLength
    BY <2>3 DEF Blocks, f, N, End, UriLength
  <2>5. TlvsRead'
    <3>1. size' = Len(buffer)' /\ ~damaged' /\ uri_length' = UriLength' /\ payload' # <<>>
      BY <1>3, <2>3, <2>4
    <3>2. ReadSoFar' /\ Len(parsed)' = Len(written)'
      BY <1>3, <2>3 DEF ReadSoFar
    <3>3. pos' = End' + 1 + f'[Len(blocks')]
      BY <1>3, <2>3, <2>4 DEF m
    <3>4. Len(blocks') <= N' /\ Len(blocks') = N'
      BY <1>4, <1>7, <2>3, <2>4 DEF m
    <3>5. \A i \in 1 .. Len(blocks') : blocks'[i] = Blocks(level)'[i]
      BY <1>3, <2>3, <2>4 DEF m
    <3>. QED
      BY <3>1, <3>2, <3>3, <3>4, <3>5 DEF TlvsRead, f, N
  <2>6. UriRead' /\ OptionsRead'
    BY <2>2 DEF UriRead, OptionsRead
  <2>7. ReadSoFar' /\ pos' \in Nat /\ parsed' \in Seq(Field) /\ uri_length' \in 0 .. UriSize
        /\ blocks' \in Seq(Int)
    BY <1>2, <1>3, <2>3 DEF ReadSoFar, FieldsOK
  <2>8. phase' \in Reading /\ phase' # "rejected" /\ phase' # "hmac_failed"
    BY <2>2 DEF Reading
  <2>. QED
    BY <1>1, <2>3, <2>5, <2>6, <2>7, <2>8, ReadingKeeps
<1>8. m < N \/ m = N
  BY <1>4
<1>. QED
  BY <1>6, <1>7, <1>8

-------------------------------------------------------------------------------
(***************************************************************************)
(* The finder's steps, and what arrives                                     *)
(***************************************************************************)

\* What is true of a datagram while it is there.
LEMMA CompleteTypes ==
    ASSUME CInv, phase \in Complete
    PROVE  /\ FieldsOK /\ OptionsLaid /\ PacketBuilt /\ IsMessage(message)
           /\ Len(written) = Len(message.options)
           /\ Len(buffer) \in Nat /\ Len(payload) \in Nat
           /\ Len(parsed) \in Nat /\ Len(written) \in Nat
           /\ End \in Nat /\ End >= 4 /\ End <= Len(buffer)
           /\ Len(buffer) <= MAX_UDP_PAYLOAD
<1>1. FieldsOK /\ CodecTypeOK /\ OptionsLaid /\ PacketBuilt
  BY DEF CInv
<1>2. IsMessage(message) /\ Len(buffer) <= MAX_UDP_PAYLOAD
  BY <1>1, MessageAssumption DEF CodecTypeOK
<1>3. /\ Len(buffer) \in Nat /\ Len(parsed) \in Nat /\ Len(written) \in Nat
      /\ Len(payload) \in Nat
  BY <1>1 DEF FieldsOK
<1>4. /\ Len(written) = Len(message.options)
      /\ End = 4 + Total(OptionSizes(message.options))
      /\ Len(buffer) = End + (IF payload = <<>> THEN 0 ELSE 1 + Len(payload))
  BY <1>1 DEF PacketBuilt
<1>5. Total(OptionSizes(message.options)) \in Nat
  <2>. DEFINE s == OptionSizes(message.options)
  <2>1. s \in Seq(Nat)
    BY <1>2, OptionSizesAre
  <2>. HIDE DEF s
  <2>2. 0 \in 0 .. Len(s) /\ 0 \in 0 .. Len(s)
    BY <2>1
  <2>. QED
    BY <2>1, <2>2, SumsGrow DEF s
<1>6. End \in Nat /\ End >= 4
  BY <1>4, <1>5
<1>7. End <= Len(buffer)
  BY <1>3, <1>4, <1>6
<1>. QED
  BY <1>1, <1>2, <1>3, <1>4, <1>6, <1>7

\* Arrive keeps the invariant: a datagram without a header was cut.
LEMMA ArriveCInv ==
    ASSUME CInv, NEW n \in CutLength \cup {Len(buffer)}, n <= Len(buffer), Arrive(n)
    PROVE  CInv'
<1>1. /\ phase = "built" /\ size' = n /\ phase' = IF n < 4 THEN "rejected" ELSE "uri"
      /\ pos' = 4 /\ uri_length' = 1 /\ parsed' = <<>> /\ blocks' = <<>>
      /\ UNCHANGED <<built, buffer, damaged, found>>
  BY DEF Arrive
<1>2. /\ message' = message /\ level' = level /\ payload' = payload /\ written' = written
      /\ buffer' = buffer /\ damaged' = damaged /\ found' = found
  BY <1>1 DEF built
<1>3. phase' \in {"rejected", "uri"}
  BY <1>1
<1>4. phase \in Complete /\ phase' \in Complete /\ phase' \in Reading
      /\ phase' \notin {"built", "find", "found"} /\ phase' \notin Building
  BY <1>1, <1>3 DEF Complete, Reading, Building
<1>5. /\ FieldsOK /\ Len(buffer) \in Nat /\ Len(written) \in Nat
      /\ End >= 4 /\ End \in Nat /\ End <= Len(buffer) /\ Len(buffer) <= MAX_UDP_PAYLOAD
  BY <1>4, CompleteTypes
<1>6. n \in Nat
  BY <1>5, SizeAssumption
<1>7. /\ OptionsLaid' /\ ValuesLaid' /\ HmacSpoilt'
      /\ PayloadBuilt' /\ PacketBuilt' /\ HighestLevel' /\ FailedForAReason'
  BY <1>2, <1>4, CompleteKeeps DEF built
<1>8. CodecTypeOK'
  <2>1. MAX_UDP_PAYLOAD \in Nat
    BY SizeAssumption DEF HmacInputSize
  <2>2. n \in 0 .. MAX_UDP_PAYLOAD
    BY <1>5, <1>6, <2>1
  <2>3. uri_length' \in 0 .. UriSize
    BY <1>1 DEF UriSize
  <2>4. CodecTypeOK
    BY DEF CInv
  <2>. QED
    BY <1>1, <1>2, <1>4, <2>2, <2>3, <2>4 DEF CodecTypeOK
<1>9. FieldsOK'
  BY <1>1, <1>2, <1>5 DEF FieldsOK
<1>10. NothingRead' /\ FinderFollows' /\ FinderAgrees'
  BY <1>3, <1>4 DEF NothingRead, FinderFollows, FinderAgrees
<1>11. ReadSoFar' /\ StandsAtOption'
  BY <1>1, <1>2, <1>5 DEF ReadSoFar, StandsAtOption, StartIn
<1>12. UriRead'
  <2>1. CASE phase' = "rejected"
    BY <2>1 DEF UriRead
  <2>2. CASE phase' = "uri"
    <3>1. 4 <= n
      BY <1>1, <1>6, <2>2
    <3>. QED
      BY <1>1, <1>11, <3>1 DEF UriRead
  <2>. QED
    BY <1>3, <2>1, <2>2
<1>13. OptionsRead' /\ TlvsRead'
  BY <1>3 DEF OptionsRead, TlvsRead
<1>14. Arrived'
  <2>1. size' <= Len(buffer)'
    BY <1>1, <1>2
  <2>2. phase' = "rejected" => size' < Len(buffer)'
    <3>1. n < 4 => n < Len(buffer)
      BY <1>5, <1>6
    <3>. QED
      BY <1>1, <1>2, <3>1
  <2>3. phase' # "hmac_failed"
    BY <1>3
  <2>. QED
    BY <1>11, <2>1, <2>2, <2>3 DEF Arrived
<1>. QED
  BY <1>7, <1>8, <1>9, <1>10, <1>12, <1>13, <1>14 DEF CInv

\* What a step of the finder keeps, whatever it finds.
LEMMA FindingKeeps ==
    ASSUME CInv, UNCHANGED <<built, buffer, size, damaged, uri_length, blocks>>,
           phase \in Complete, phase' \in {"find", "found"}, ~damaged,
           pos' \in Nat, parsed' \in Seq(Field),
           found' \in [offset : Nat, length : Nat, payload : Nat],
           found'.offset + found'.length <= MAX_UDP_PAYLOAD,
           FinderFollows', FinderAgrees'
    PROVE  CInv'
<1>1. /\ message' = message /\ level' = level /\ payload' = payload /\ written' = written
      /\ buffer' = buffer /\ damaged' = damaged /\ size' = size /\ blocks' = blocks
      /\ uri_length' = uri_length
  BY DEF built
<1>2. phase' \in Complete /\ phase' \notin Reading /\ phase' \notin Building \cup {"built"}
  BY DEF Complete, Reading, Building
<1>3. /\ OptionsLaid' /\ ValuesLaid' /\ HmacSpoilt'
      /\ PayloadBuilt' /\ PacketBuilt' /\ HighestLevel' /\ FailedForAReason'
  BY <1>2, CompleteKeeps DEF built
<1>4. CodecTypeOK' /\ FieldsOK'
  <2>1. CodecTypeOK /\ FieldsOK
    BY DEF CInv
  <2>2. CodecTypeOK'
    BY <1>1, <2>1 DEF CodecTypeOK
  <2>3. FieldsOK'
    BY <1>1, <2>1 DEF FieldsOK
  <2>. QED
    BY <2>2, <2>3
<1>5. NothingRead' /\ UriRead' /\ OptionsRead' /\ TlvsRead' /\ Arrived'
  BY <1>2 DEF NothingRead, UriRead, OptionsRead, TlvsRead, Arrived, Reading
<1>. QED
  BY <1>3, <1>4, <1>5 DEF CInv

\* StartFinder keeps the invariant.
LEMMA StartFinderCInv ==
    ASSUME CInv, StartFinder
    PROVE  CInv'
<1>1. /\ phase = "built" /\ ~damaged /\ phase' = "find" /\ pos' = 4
      /\ found' = NothingFound(Len(buffer)) /\ parsed' = parsed
      /\ UNCHANGED <<built, buffer, size, damaged, uri_length, blocks>>
  BY DEF StartFinder
<1>2. phase \in Complete
  BY <1>1 DEF Complete
<1>3. FieldsOK /\ Len(buffer) \in Nat /\ Len(written) \in Nat
  BY <1>2, CompleteTypes
<1>4. parsed = <<>>
  BY <1>1 DEF CInv, NothingRead
<1>5. /\ found' \in [offset : Nat, length : Nat, payload : Nat]
      /\ found'.offset = 0 /\ found'.length = 0 /\ found'.payload = Len(buffer)
  BY <1>1, <1>3 DEF NothingFound
<1>6. found'.offset + found'.length <= MAX_UDP_PAYLOAD
  BY <1>5, SizeAssumption DEF HmacInputSize
<1>7. written' = written /\ buffer' = buffer /\ damaged' = damaged
  BY <1>1 DEF built
<1>8. StandsAtOption'
  BY <1>1, <1>3, <1>4, <1>7 DEF StandsAtOption, ReadSoFar, StartIn
<1>9. FinderFollows'
  BY <1>1, <1>4, <1>5, <1>7, <1>8 DEF FinderFollows
<1>10. FinderAgrees'
  BY <1>1 DEF FinderAgrees
<1>11. parsed' \in Seq(Field) /\ pos' \in Nat
  BY <1>1, <1>3 DEF FieldsOK
<1>. QED
  BY <1>1, <1>2, <1>5, <1>6, <1>9, <1>10, <1>11, FindingKeeps

\* FindOption keeps the invariant: it reads the next option where it is.
LEMMA FindOptionCInv ==
    ASSUME CInv, FindOption
    PROVE  CInv'
<1>. DEFINE o == written[Len(parsed) + 1]
            delta == DecodeCoapNibble(ByteAt(pos) \div 16, pos + 1)
            length == DecodeCoapNibble(ByteAt(pos) % 16, delta.next)
            number == Number(parsed) + delta.value
<1>1. /\ phase = "find" /\ pos < Len(buffer) /\ ByteAt(pos) # COAP_PAYLOAD_MARKER
      /\ pos' = length.next + length.value
      /\ parsed' = Append(parsed, [number |-> number, length |-> length.value,
                                   offset |-> length.next])
      /\ found' = IF number = HMAC
                  THEN [found EXCEPT !.offset = length.next, !.length = length.value]
                  ELSE found
      /\ UNCHANGED <<built, phase, buffer, size, damaged, uri_length, blocks>>
  BY DEF FindOption
<1>2. phase \in Complete
  BY <1>1 DEF Complete
<1>3. /\ FieldsOK /\ OptionsLaid /\ PacketBuilt /\ Len(buffer) \in Nat
      /\ Len(parsed) \in Nat /\ Len(written) \in Nat /\ Len(payload) \in Nat
      /\ End \in Nat /\ Len(buffer) <= MAX_UDP_PAYLOAD
  BY <1>2, CompleteTypes
<1>4. /\ StandsAtOption /\ found.payload = Len(buffer) /\ ~damaged
      /\ \/ \A i \in 1 .. Len(parsed) : parsed[i].number # HMAC
         \/ \E i \in 1 .. Len(parsed) :
               /\ parsed[i].number = HMAC
               /\ found.offset = parsed[i].offset /\ found.length = parsed[i].length
  BY <1>1 DEF CInv, FinderFollows
<1>5. Len(parsed) < Len(written)
  <2>1. Len(parsed) <= Len(written)
    BY <1>4 DEF StandsAtOption, ReadSoFar
  <2>2. ASSUME Len(parsed) = Len(written)
        PROVE  FALSE
    <3>1. pos = End
      BY <1>4, <2>2 DEF StandsAtOption, End
    <3>2. /\ Len(buffer) = End + (IF payload = <<>> THEN 0 ELSE 1 + Len(payload))
          /\ payload # <<>> => buffer[End + 1] = COAP_PAYLOAD_MARKER
      BY <1>2, <1>3 DEF PacketBuilt
    <3>3. payload # <<>>
      BY <1>1, <1>3, <3>1, <3>2
    <3>4. ByteAt(pos) = COAP_PAYLOAD_MARKER
      BY <1>1, <3>1, <3>2, <3>3 DEF ByteAt
    <3>. QED
      BY <1>1, <3>4
  <2>. QED
    BY <1>3, <2>1, <2>2
<1>6. /\ o.offset + o.length <= Len(buffer)
      /\ number = o.number /\ length.value = o.length /\ length.next = o.offset
  <2>. DEFINE header == ByteAt(pos)
              d == Extended(header \div 16, pos + 1)
              l == Extended(header % 16, d.next)
  <2>1. /\ o.offset + o.length <= Len(buffer) /\ Number(parsed) + d.value = o.number
        /\ l.value = o.length /\ l.next = o.offset /\ delta = d /\ length = l
    BY <1>3, <1>4, <1>5, OptionIsThere
  <2>. HIDE DEF delta, length, d, l, o
  <2>. QED
    BY <2>1
<1>7. o \in Field
  BY <1>3, <1>4, <1>5, NextIs DEF StandsAtOption
<1>. HIDE DEF o, delta, length, number
<1>8. o.length \in Nat /\ o.offset \in Nat
  BY <1>7, FieldIs
<1>9. parsed' = Append(parsed, o) /\ pos' = o.offset + o.length
  <2>1. o = [number |-> o.number, length |-> o.length, offset |-> o.offset]
    BY <1>7, FieldRecord
  <2>. QED
    BY <1>1, <1>6, <2>1
<1>10. /\ written' = written /\ buffer' = buffer /\ damaged' = damaged
       /\ phase' = "find"
  BY <1>1 DEF built
<1>11. /\ StandsAtOption' /\ parsed' \in Seq(Field) /\ pos' \in Nat
       /\ Len(parsed') = Len(parsed) + 1
       /\ \A i \in 1 .. Len(parsed) + 1 : parsed'[i] = written[i]
  BY <1>3, <1>4, <1>5, <1>9, <1>10, GoesOn DEF o
<1>12. \A i \in 1 .. Len(parsed) : parsed'[i] = parsed[i] /\ i \in 1 .. Len(parsed')
  <2>1. \A i \in 1 .. Len(parsed) : parsed[i] = written[i]
    BY <1>4 DEF StandsAtOption, ReadSoFar
  <2>. QED
    BY <1>3, <1>11, <2>1
<1>13. parsed'[Len(parsed')] = o /\ Len(parsed') \in 1 .. Len(parsed')
  BY <1>3, <1>11 DEF o
<1>14. found \in [offset : Nat, length : Nat, payload : Nat]
       /\ found.offset + found.length <= MAX_UDP_PAYLOAD
  BY <1>3 DEF FieldsOK, CInv, CodecTypeOK
<1>15. CASE o.number = HMAC
  <2>1. /\ found' = [found EXCEPT !.offset = o.offset, !.length = o.length]
    BY <1>1, <1>6, <1>15
  <2>2. /\ found' \in [offset : Nat, length : Nat, payload : Nat]
        /\ found'.offset = o.offset /\ found'.length = o.length
        /\ found'.payload = found.payload
    BY <1>8, <1>14, <2>1
  <2>3. found'.offset + found'.length <= MAX_UDP_PAYLOAD
    BY <1>3, <1>6, <1>8, <2>2, SizeAssumption DEF HmacInputSize
  <2>4. FinderFollows'
    BY <1>4, <1>10, <1>11, <1>13, <1>15, <2>2 DEF FinderFollows
  <2>5. FinderAgrees'
    BY <1>10 DEF FinderAgrees
  <2>. QED
    BY <1>1, <1>2, <1>4, <1>10, <1>11, <2>2, <2>3, <2>4, <2>5, FindingKeeps
<1>16. CASE o.number # HMAC
  <2>1. found' = found
    BY <1>1, <1>6, <1>16
  <2>2. \/ \A i \in 1 .. Len(parsed') : parsed'[i].number # HMAC
        \/ \E i \in 1 .. Len(parsed') :
              /\ parsed'[i].number = HMAC
              /\ found'.offset = parsed'[i].offset /\ found'.length = parsed'[i].length
    <3>1. CASE \A i \in 1 .. Len(parsed) : parsed[i].number # HMAC
      <4>1. ASSUME NEW i \in 1 .. Len(parsed')
            PROVE  parsed'[i].number # HMAC
        <5>1. i \in 1 .. Len(parsed) \/ i = Len(parsed')
          BY <1>3, <1>11
        <5>. QED
          BY <1>12, <1>13, <1>16, <3>1, <5>1
      <4>. QED
        BY <4>1
    <3>2. CASE \E i \in 1 .. Len(parsed) :
                  /\ parsed[i].number = HMAC
                  /\ found.offset = parsed[i].offset /\ found.length = parsed[i].length
      BY <1>12, <2>1, <3>2
    <3>. QED
      BY <1>4, <3>1, <3>2
  <2>3. FinderFollows'
    BY <1>4, <1>10, <1>11, <2>1, <2>2 DEF FinderFollows
  <2>4. FinderAgrees'
    BY <1>10 DEF FinderAgrees
  <2>. QED
    BY <1>1, <1>2, <1>4, <1>10, <1>11, <1>14, <2>1, <2>3, <2>4, FindingKeeps
<1>. QED
  BY <1>15, <1>16

\* FindPayload keeps the invariant: it ends behind the last option, and among
\* them the HMAC was.
LEMMA FindPayloadCInv ==
    ASSUME CInv, FindPayload
    PROVE  CInv'
<1>1. /\ phase = "find" /\ (pos >= Len(buffer) \/ ByteAt(pos) = COAP_PAYLOAD_MARKER)
      /\ found' = IF pos < Len(buffer) THEN [found EXCEPT !.payload = pos + 1] ELSE found
      /\ phase' = "found" /\ pos' = pos /\ parsed' = parsed
      /\ UNCHANGED <<built, buffer, size, damaged, uri_length, blocks>>
  BY DEF FindPayload
<1>2. phase \in Complete
  BY <1>1 DEF Complete
<1>3. /\ FieldsOK /\ OptionsLaid /\ PacketBuilt /\ IsMessage(message)
      /\ Len(written) = Len(message.options) /\ Len(buffer) \in Nat
      /\ Len(parsed) \in Nat /\ Len(written) \in Nat /\ Len(payload) \in Nat /\ End \in Nat
  BY <1>2, CompleteTypes
<1>4. /\ StandsAtOption /\ found.payload = Len(buffer) /\ ~damaged
      /\ \/ \A i \in 1 .. Len(parsed) : parsed[i].number # HMAC
         \/ \E i \in 1 .. Len(parsed) :
               /\ parsed[i].number = HMAC
               /\ found.offset = parsed[i].offset /\ found.length = parsed[i].length
      /\ \A i \in 1 .. Len(parsed) : parsed[i] = written[i]
  BY <1>1 DEF CInv, FinderFollows, StandsAtOption, ReadSoFar
<1>5. Len(parsed) = Len(written) /\ pos = End
  <2>1. Len(parsed) <= Len(written)
    BY <1>4 DEF StandsAtOption, ReadSoFar
  <2>2. ASSUME Len(parsed) < Len(written)
        PROVE  FALSE
    <3>1. pos \in Nat /\ pos < Len(buffer) /\ ByteAt(pos) # COAP_PAYLOAD_MARKER
      BY <1>3, <1>4, <2>2, OptionIsThere
    <3>. QED
      BY <1>1, <1>3, <3>1
  <2>3. Len(parsed) = Len(written)
    BY <1>3, <2>1, <2>2
  <2>. QED
    BY <1>4, <2>3 DEF StandsAtOption, End
<1>6. /\ written' = written /\ buffer' = buffer /\ damaged' = damaged /\ payload' = payload
  BY <1>1 DEF built
<1>7. found \in [offset : Nat, length : Nat, payload : Nat]
      /\ found.offset + found.length <= MAX_UDP_PAYLOAD
  BY <1>3 DEF FieldsOK, CInv, CodecTypeOK
<1>8. /\ found' \in [offset : Nat, length : Nat, payload : Nat]
      /\ found'.offset = found.offset /\ found'.length = found.length
      /\ found'.payload = IF End < Len(buffer) THEN End + 1 ELSE Len(buffer)
  BY <1>1, <1>3, <1>4, <1>5, <1>7
<1>9. FinderAgrees'
  <2>1. \E i \in 1 .. Len(written) :
           /\ written[i].number = HMAC
           /\ found'.offset = written[i].offset /\ found'.length = written[i].length
    <3>1. \E i \in 1 .. Len(parsed) : parsed[i].number = HMAC
      <4>1. HMAC \in DOMAIN SigNetLength
        BY DEF SigNetLength
      <4>2. PICK i \in 1 .. Len(message.options) : message.options[i].number = HMAC
        BY <1>3, <4>1, MessageIs
      <4>3. i \in 1 .. Len(written) /\ i \in 1 .. Len(parsed)
        BY <1>3, <1>5
      <4>4. written[i].number = HMAC /\ parsed[i] = written[i]
        BY <1>3, <1>4, <4>2, <4>3 DEF OptionsLaid
      <4>. QED
        BY <4>3, <4>4
    <3>2. PICK i \in 1 .. Len(parsed) :
             /\ parsed[i].number = HMAC
             /\ found.offset = parsed[i].offset /\ found.length = parsed[i].length
      BY <1>4, <3>1
    <3>. QED
      BY <1>4, <1>5, <1>8, <3>2
  <2>2. found'.payload = Len(buffer) - Len(payload)
    <3>1. Len(buffer) = End + (IF payload = <<>> THEN 0 ELSE 1 + Len(payload))
      BY <1>2, <1>3 DEF PacketBuilt
    <3>2. payload = <<>> => Len(payload) = 0
      OBVIOUS
    <3>. QED
      BY <1>3, <1>8, <3>1, <3>2
  <2>. QED
    BY <1>6, <2>1, <2>2 DEF FinderAgrees
<1>10. FinderFollows'
  BY <1>1, <1>4, <1>6 DEF FinderFollows
<1>11. pos' \in Nat /\ parsed' \in Seq(Field)
  BY <1>1, <1>3, <1>5 DEF FieldsOK
<1>. QED
  BY <1>1, <1>2, <1>4, <1>7, <1>8, <1>9, <1>10, <1>11, FindingKeeps

\* A header depends on the bytes from where the option starts to its value.
LEMMA HeaderKept ==
    ASSUME NEW w \in Seq(Field), NEW i \in 1 .. Len(w), NEW b, NEW c, HeaderIn(b, w, i),
           \A x \in StartIn(w, i) + 1 .. w[i].offset : c[x] = b[x]
    PROVE  HeaderIn(c, w, i)
<1>. DEFINE p == StartIn(w, i)
            delta == w[i].number - BeforeIn(w, i)
            l == w[i].length
            extended == p + 1 + ExtendedSize(delta)
<1>1. /\ delta \in Nat /\ b[p + 1] = Nibble(delta) * 16 + Nibble(l)
      /\ ExtensionIn(b, delta, p + 1) /\ ExtensionIn(b, l, extended)
      /\ w[i].offset = extended + ExtendedSize(l)
  BY DEF HeaderIn
<1>2. w[i] \in Field
  OBVIOUS
<1>3. p \in Nat /\ l \in Nat
  <2>1. i \in 1 .. Len(w) + 1
    OBVIOUS
  <2>. QED
    BY <1>2, <2>1, StartIs, FieldIs
<1>. HIDE DEF p, delta, l
<1>4. ExtendedSize(delta) \in 0 .. 2 /\ ExtendedSize(l) \in 0 .. 2
  BY <1>1, <1>3, CodingIs
<1>5. \A x \in p + 1 .. extended + ExtendedSize(l) : c[x] = b[x]
  BY <1>1 DEF p
<1>6. /\ p + 1 \in p + 1 .. extended + ExtendedSize(l)
      /\ \A j \in 1 .. ExtendedSize(delta) :
            p + 1 + j \in p + 1 .. extended + ExtendedSize(l)
      /\ \A j \in 1 .. ExtendedSize(l) :
            extended + j \in p + 1 .. extended + ExtendedSize(l)
  BY <1>3, <1>4
<1>7. c[p + 1] = Nibble(delta) * 16 + Nibble(l)
  BY <1>1, <1>5, <1>6
<1>8. ExtensionIn(c, delta, p + 1)
  <2>. HIDE DEF extended
  <2>. QED
    BY <1>1, <1>5, <1>6 DEF ExtensionIn
<1>9. ExtensionIn(c, l, extended)
  <2>. HIDE DEF extended
  <2>. QED
    BY <1>1, <1>5, <1>6 DEF ExtensionIn
<1>. QED
  BY <1>1, <1>7, <1>8, <1>9 DEF HeaderIn, p, delta, l

\* Arithmetic for the next lemma.
LEMMA Apart ==
    ASSUME NEW x \in Int, NEW s \in Nat, NEW o \in Nat, NEW l \in Nat, NEW e \in Nat,
           NEW p \in Nat, NEW h \in Nat, NEW n \in Nat,
           s + 1 <= x, x <= o, o + l <= e, e <= p
    PROVE  /\ ~(x > p /\ x <= p + 34)
           /\ o <= h => ~(x > h /\ x <= h + n)
           /\ h + n <= s => ~(x > h /\ x <= h + n)
  OBVIOUS

\* InjectBadFrame keeps the invariant: it leaves every option's header and the
\* marker as they are, and the HMAC does not match any more.
LEMMA InjectCInv ==
    ASSUME CInv, InjectBadFrame
    PROVE  CInv'
<1>. DEFINE in_hmac(i) == i > found.offset /\ i <= found.offset + found.length
            in_text(i) == i > found.payload /\ i <= found.payload + 34
            byte(i) == CASE in_hmac(i) -> 255 - buffer[i]
                         [] ~in_hmac(i) /\ in_text(i) -> 32
                         [] OTHER -> buffer[i]
<1>1. /\ phase = "found" /\ found.length = HMAC_SHA256_LENGTH
      /\ buffer' = [i \in 1 .. Len(buffer) |-> byte(i)]
      /\ damaged' = TRUE /\ phase' = "built" /\ parsed' = <<>>
      /\ UNCHANGED <<built, size, pos, uri_length, blocks, found>>
  BY DEF InjectBadFrame
<1>2. /\ message' = message /\ level' = level /\ payload' = payload /\ written' = written
      /\ size' = size /\ pos' = pos /\ uri_length' = uri_length /\ blocks' = blocks
      /\ found' = found
  BY <1>1 DEF built
<1>3. phase \in Complete /\ phase' \in Complete
      /\ phase \notin {"payload", "build", "failed"}
  BY <1>1 DEF Complete
<1>4. /\ FieldsOK /\ OptionsLaid /\ PacketBuilt /\ Len(buffer) \in Nat
      /\ Len(written) = Len(message.options)
      /\ Len(payload) \in Nat /\ Len(written) \in Nat /\ End \in Nat /\ End <= Len(buffer)
  BY <1>3, CompleteTypes
<1>5. /\ found.offset \in Nat /\ found.length \in Nat /\ found.payload \in Nat
      /\ buffer \in Seq(Int) /\ written \in Seq(Field) /\ payload \in Seq(Int)
  BY <1>4 DEF FieldsOK
<1>6. ~damaged /\ found.payload = Len(buffer) - Len(payload)
  BY <1>1 DEF CInv, FinderFollows, FinderAgrees
<1>7. PICK h \in 1 .. Len(written) :
         /\ written[h].number = HMAC
         /\ found.offset = written[h].offset /\ found.length = written[h].length
  BY <1>1 DEF CInv, FinderAgrees
<1>8. /\ Len(buffer) = End + (IF payload = <<>> THEN 0 ELSE 1 + Len(payload))
      /\ payload # <<>> => buffer[End + 1] = COAP_PAYLOAD_MARKER
  BY <1>3, <1>4 DEF PacketBuilt
<1>9. found.payload >= End /\ (payload # <<>> => found.payload = End + 1)
  <2>1. payload = <<>> => Len(payload) = 0
    OBVIOUS
  <2>. QED
    BY <1>4, <1>6, <1>8, <2>1
<1>. HIDE DEF in_hmac, in_text
<1>10. buffer' \in Seq(Int) /\ Len(buffer') = Len(buffer)
       /\ \A x \in 1 .. Len(buffer) : buffer'[x] = byte(x)
  <2>1. \A x \in 1 .. Len(buffer) : byte(x) \in Int
    BY <1>5
  <2>. HIDE DEF byte
  <2>2. buffer' \in [1 .. Len(buffer) -> Int]
    BY <1>1, <2>1
  <2>. QED
    BY <1>1, <1>4, <2>2
<1>11. ASSUME NEW x \in 1 .. Len(buffer), ~in_hmac(x), ~in_text(x)
       PROVE  buffer'[x] = buffer[x]
  BY <1>10, <1>11
<1>12. ASSUME NEW i \in 1 .. Len(written)
       PROVE  HeaderIn(buffer', written, i)
  <2>1. /\ HeaderIn(buffer, written, i)
        /\ written[i].offset + written[i].length <= Len(buffer)
        /\ written[i].offset + written[i].length <= End
    BY <1>4 DEF OptionsLaid
  <2>2. written[i].offset \in Nat /\ written[i].length \in Nat
    BY <1>5, FieldIs
  <2>3. StartIn(written, i) \in Nat
    <3>1. i \in 1 .. Len(written) + 1
      BY <1>4
    <3>. QED
      BY <1>5, <3>1, StartIs
  <2>4. \/ written[i].offset <= found.offset
        \/ found.offset + found.length <= StartIn(written, i)
    <3>1. CASE i = h
      BY <1>5, <1>7, <3>1
    <3>2. CASE h < i
      BY <1>4, <1>7, <3>2 DEF OptionsLaid
    <3>3. CASE i < h
      <4>1. written[i].offset + written[i].length <= StartIn(written, h)
        BY <1>4, <1>7, <3>3 DEF OptionsLaid
      <4>2. StartIn(written, h) < written[h].offset /\ StartIn(written, h) \in Nat
        <5>1. /\ HeaderIn(buffer, written, h)
              /\ written[h].offset + written[h].length <= Len(buffer)
          BY <1>4 DEF OptionsLaid
        <5>. QED
          BY <1>4, <5>1, HeaderReads
      <4>3. written[h].offset \in Nat
        BY <1>5, <1>7
      <4>4. written[i].offset <= written[h].offset
        BY <2>2, <4>1, <4>2, <4>3
      <4>. QED
        BY <1>7, <4>4
    <3>4. i < h \/ i = h \/ h < i
      BY <1>4
    <3>. QED
      BY <3>1, <3>2, <3>3, <3>4
  <2>5. ASSUME NEW x \in StartIn(written, i) + 1 .. written[i].offset
        PROVE  buffer'[x] = buffer[x]
    <3>1. x \in Int /\ StartIn(written, i) + 1 <= x /\ x <= written[i].offset
      BY <2>2, <2>3
    <3>2. x \in 1 .. Len(buffer)
      BY <1>4, <2>1, <2>2, <2>3, <3>1
    <3>3. ~(x > found.payload /\ x <= found.payload + 34)
          /\ ~(x > found.offset /\ x <= found.offset + found.length)
      BY <1>4, <1>5, <1>9, <2>1, <2>2, <2>3, <2>4, <3>1, Apart
    <3>. QED
      BY <1>11, <3>2, <3>3 DEF in_hmac, in_text
  <2>. QED
    BY <1>5, <2>1, <2>5, HeaderKept
<1>13. End' = End
  BY <1>2 DEF End
<1>14. OptionsLaid'
  BY <1>2, <1>4, <1>10, <1>12, <1>13 DEF OptionsLaid
<1>15. ValuesLaid'
  BY <1>1 DEF ValuesLaid
<1>16. HmacSpoilt'
  <2>1. /\ written[h].offset + written[h].length <= Len(buffer)
        /\ written[h].offset \in Nat
    BY <1>4, <1>5, <1>7 DEF OptionsLaid
  <2>2. written[h].length = 32
    BY <1>1, <1>7 DEF HMAC_SHA256_LENGTH
  <2>3. /\ written[h].offset + 1 \in 1 .. Len(buffer) /\ in_hmac(written[h].offset + 1)
        /\ 1 \in 1 .. written[h].length
    BY <1>4, <1>7, <2>1, <2>2 DEF in_hmac
  <2>4. buffer[written[h].offset + 1] = Fill
    BY <1>6, <2>3 DEF CInv, ValuesLaid
  <2>5. buffer'[written[h].offset + 1] = 255 - Fill
    BY <1>10, <2>3, <2>4
  <2>6. buffer'[written[h].offset + 1] # Fill
    BY <2>5 DEF Fill
  <2>. QED
    BY <1>2, <1>7, <2>2, <2>6 DEF HmacSpoilt
<1>17. PacketBuilt'
  <2>1. payload # <<>> => buffer'[End + 1] = COAP_PAYLOAD_MARKER
    <3>. SUFFICES ASSUME payload # <<>>
                  PROVE  buffer'[End + 1] = buffer[End + 1]
      BY <1>8
    <3>1. End + 1 \in 1 .. Len(buffer)
      BY <1>4, <1>8
    <3>2. ~in_text(End + 1)
      BY <1>4, <1>9 DEF in_text
    <3>3. ~in_hmac(End + 1)
      <4>1. written[h].offset + written[h].length <= End
        BY <1>4, <1>7 DEF OptionsLaid
      <4>. QED
        BY <1>4, <1>5, <1>7, <4>1 DEF in_hmac
    <3>. QED
      BY <1>11, <3>1, <3>2, <3>3
  <2>2. /\ Len(written) = Len(message.options)
        /\ End = 4 + Total(OptionSizes(message.options))
    BY <1>3, <1>4 DEF PacketBuilt
  <2>. QED
    BY <1>1, <1>2, <1>8, <1>10, <1>13, <2>1, <2>2 DEF PacketBuilt
<1>18. PayloadBuilt' /\ HighestLevel' /\ FailedForAReason'
  <2>1. Encoded(Len(Blocks(level))) /\ UriLength < UriStringSize
    BY <1>3 DEF CInv, PayloadBuilt
  <2>2. UriLength' = UriLength /\ Blocks(level)' = Blocks(level)
    BY <1>2 DEF UriLength, Blocks
  <2>3. Encoded(Len(Blocks(level)))'
    BY <1>2, <2>1, <2>2 DEF Encoded
  <2>4. DatagramSize(level + 1)' = DatagramSize(level + 1)
    BY <1>2 DEF DatagramSize, Blocks
  <2>. QED
    BY <1>1, <1>2, <2>1, <2>2, <2>3, <2>4
       DEF CInv, PayloadBuilt, HighestLevel, FailedForAReason
<1>19. CodecTypeOK' /\ FieldsOK'
  <2>1. CodecTypeOK /\ FieldsOK
    BY DEF CInv
  <2>2. CodecTypeOK'
    BY <1>1, <1>2, <1>10, <2>1 DEF CodecTypeOK
  <2>3. FieldsOK'
    BY <1>1, <1>2, <1>10, <2>1 DEF FieldsOK
  <2>. QED
    BY <2>2, <2>3
<1>20. NothingRead' /\ FinderFollows' /\ FinderAgrees' /\ Arrived'
       /\ UriRead' /\ OptionsRead' /\ TlvsRead'
  BY <1>1 DEF NothingRead, FinderFollows, FinderAgrees, Arrived, Reading, UriRead,
              OptionsRead, TlvsRead
<1>. QED
  BY <1>14, <1>15, <1>16, <1>17, <1>18, <1>19, <1>20 DEF CInv

-------------------------------------------------------------------------------
(***************************************************************************)
(* The builder's steps                                                      *)
(***************************************************************************)

\* What is true of a build that goes on.
LEMMA BuildingTypes ==
    ASSUME CInv, phase \in {"payload", "build"}
    PROVE  /\ FieldsOK /\ CodecTypeOK /\ OptionsLaid /\ IsMessage(message) /\ ~damaged
           /\ parsed = <<>> /\ level \in 1 .. Len(message.payloads)
           /\ Len(message.payloads) \in Nat /\ Len(message.options) \in Nat
           /\ Len(payload) \in Nat /\ Len(buffer) \in Nat
           /\ Len(written) \in Nat /\ Len(blocks) \in Nat
           /\ MAX_UDP_PAYLOAD \in Nat /\ 4 <= MAX_UDP_PAYLOAD
<1>1. FieldsOK /\ CodecTypeOK /\ OptionsLaid
  BY DEF CInv
<1>2. IsMessage(message) /\ level \in 1 .. Len(message.payloads)
  BY <1>1, MessageAssumption DEF CodecTypeOK
<1>3. ~damaged /\ parsed = <<>>
  BY DEF CInv, PayloadBuilt, NothingRead, Building
<1>4. /\ message.options \in Seq([number : Uint16, length : Uint16])
      /\ message.payloads \in Seq(Seq(Uint16 \union {Unencodable}))
  BY <1>2, MessageIs
<1>5. Len(message.payloads) \in Nat /\ Len(message.options) \in Nat
  BY <1>4
<1>6. /\ Len(payload) \in Nat /\ Len(buffer) \in Nat
      /\ Len(written) \in Nat /\ Len(blocks) \in Nat
  BY <1>1 DEF FieldsOK
<1>. QED
  BY <1>1, <1>2, <1>3, <1>5, <1>6, SizeAssumption DEF HmacInputSize

\* The sums over the options' sizes.
LEMMA OptionSumsAre ==
    ASSUME IsMessage(message)
    PROVE  LET s == OptionSizes(message.options)
               N == Len(message.options)
           IN  /\ N \in Nat /\ Sums(s)[0] = 0 /\ Total(s) = Sums(s)[N]
               /\ \A i \in 1 .. N : Sums(s)[i] = Sums(s)[i - 1] + s[i]
               /\ \A i \in 0 .. N : Sums(s)[i] \in Nat /\ Sums(s)[i] <= Total(s)
<1>. DEFINE s == OptionSizes(message.options)
            N == Len(message.options)
<1>1. s \in Seq(Nat) /\ Len(s) = N
  BY OptionSizesAre
<1>. HIDE DEF s, N
<1>2. N \in Nat
  BY <1>1
<1>3. /\ Sums(s)[0] = 0
      /\ \A i \in 1 .. N : Sums(s)[i] = Sums(s)[i - 1] + s[i]
      /\ \A i \in 0 .. N : Sums(s)[i] \in Nat
  BY <1>1, SumsAre
<1>4. \A i \in 0 .. N : Sums(s)[i] <= Total(s)
  <2>1. ASSUME NEW i \in 0 .. N
        PROVE  Sums(s)[i] <= Total(s)
    <3>1. i \in i .. Len(s)
      BY <1>1, <1>2
    <3>. QED
      BY <1>1, <3>1, SumsGrow
  <2>. QED
    BY <2>1
<1>5. Total(s) = Sums(s)[N]
  BY <1>1 DEF Total
<1>. QED
  BY <1>2, <1>3, <1>4, <1>5 DEF s, N

\* The size of a datagram is that of its parts.
LEMMA DatagramSizeIs ==
    ASSUME IsMessage(message), NEW k \in 1 .. Len(message.payloads)
    PROVE  LET options == Total(OptionSizes(message.options))
               tlvs == Total(TlvSizes(Blocks(k)))
           IN  /\ options \in Nat /\ tlvs \in Nat
               /\ DatagramSize(k) \in Nat /\ 4 + options <= DatagramSize(k)
               /\ Blocks(k) = <<>> => DatagramSize(k) = 4 + options /\ tlvs = 0
               /\ Blocks(k) # <<>> => DatagramSize(k) = 4 + options + (1 + tlvs)
               /\ Len(Blocks(k)) > 0 => Blocks(k) # <<>> /\ tlvs > 0
<1>. DEFINE options == Total(OptionSizes(message.options))
            tlvs == Total(TlvSizes(Blocks(k)))
            f == Sums(TlvSizes(Blocks(k)))
            N == Len(Blocks(k))
<1>1. options \in Nat
  <2>1. /\ Len(message.options) \in Nat
        /\ \A i \in 0 .. Len(message.options) :
              Sums(OptionSizes(message.options))[i] \in Nat
        /\ options = Sums(OptionSizes(message.options))[Len(message.options)]
    BY OptionSumsAre
  <2>. QED
    BY <2>1
<1>2. /\ N \in Nat /\ f[0] = 0
      /\ \A i \in 0 .. N : f[i] \in Nat /\ f[i] <= f[N]
      /\ \A i \in 1 .. N : /\ f[i] = f[i - 1] + (4 + Blocks(k)[i])
                           /\ 4 + Blocks(k)[i] >= 3
      /\ tlvs = f[N] /\ Blocks(k) \in Seq(Int)
  BY TlvSumsAre
<1>3. DatagramSize(k) = 4 + options + (IF Blocks(k) = <<>> THEN 0 ELSE 1 + tlvs)
  BY DEF DatagramSize
<1>4. tlvs \in Nat
  BY <1>2
<1>5. Blocks(k) = <<>> => N = 0 /\ tlvs = 0
  BY <1>2
<1>6. N > 0 => Blocks(k) # <<>> /\ tlvs > 0
  <2>. SUFFICES ASSUME N > 0 PROVE tlvs > 0
    BY <1>5
  <2>1. N \in 1 .. N /\ N - 1 \in 0 .. N
    BY <1>2
  <2>2. f[N] = f[N - 1] + (4 + Blocks(k)[N]) /\ 4 + Blocks(k)[N] >= 3 /\ f[N - 1] \in Nat
        /\ Blocks(k)[N] \in Int
    BY <1>2, <2>1
  <2>3. f[N] > 0
    <3>. HIDE DEF f, N
    <3>. QED
      BY <2>2
  <2>. QED
    BY <1>2, <2>3
<1>. HIDE DEF options, tlvs, N
<1>7. DatagramSize(k) \in Nat /\ 4 + options <= DatagramSize(k)
  BY <1>1, <1>3, <1>4
<1>. QED
  BY <1>1, <1>3, <1>4, <1>5, <1>6, <1>7 DEF options, tlvs, N

\* A build that ends for one of the reasons keeps the invariant.
LEMMA GiveUpCInv ==
    ASSUME CInv, GiveUp, UNCHANGED message, UNCHANGED reading,
           phase \in {"payload", "build"},
           \/ UriLength >= UriStringSize
           \/ Contains(Blocks(level), Unencodable)
           \/ DatagramSize(1) > MAX_UDP_PAYLOAD
    PROVE  CInv'
<1>1. /\ phase' = "failed" /\ message' = message /\ level' = level /\ payload' = payload
      /\ written' = written /\ buffer' = buffer /\ blocks' = blocks /\ size' = size
      /\ damaged' = damaged /\ pos' = pos /\ uri_length' = uri_length /\ parsed' = parsed
      /\ found' = found
  BY DEF GiveUp, reading
<1>2. CodecTypeOK' /\ FieldsOK' /\ OptionsLaid' /\ ValuesLaid' /\ HmacSpoilt'
  <2>1. CodecTypeOK /\ FieldsOK /\ OptionsLaid /\ ValuesLaid /\ HmacSpoilt
    BY DEF CInv
  <2>2. CodecTypeOK'
    BY <1>1, <2>1 DEF CodecTypeOK
  <2>3. FieldsOK'
    BY <1>1, <2>1 DEF FieldsOK
  <2>4. OptionsLaid'
    BY <1>1, <2>1 DEF OptionsLaid, End
  <2>5. ValuesLaid' /\ HmacSpoilt'
    BY <1>1, <2>1 DEF ValuesLaid, HmacSpoilt
  <2>. QED
    BY <2>2, <2>3, <2>4, <2>5
<1>3. NothingRead' /\ PayloadBuilt' /\ PacketBuilt' /\ FinderFollows' /\ FinderAgrees'
      /\ UriRead' /\ OptionsRead' /\ TlvsRead' /\ Arrived'
  BY <1>1 DEF NothingRead, PayloadBuilt, PacketBuilt, FinderFollows, FinderAgrees,
              UriRead, OptionsRead, TlvsRead, Arrived, Building, Complete, Reading
<1>4. UriLength' = UriLength /\ Blocks(level)' = Blocks(level)
      /\ DatagramSize(1)' = DatagramSize(1)
      /\ DatagramSize(level + 1)' = DatagramSize(level + 1)
  BY <1>1 DEF UriLength, Blocks, DatagramSize
<1>5. HighestLevel' /\ FailedForAReason'
  BY <1>1, <1>4 DEF CInv, HighestLevel, FailedForAReason
<1>. QED
  BY <1>2, <1>3, <1>5 DEF CInv

\* A build that has no room starts over at the level below, or ends.
LEMMA BufferFullCInv ==
    ASSUME CInv, BufferFull, phase \in {"payload", "build"},
           DatagramSize(level) > MAX_UDP_PAYLOAD
    PROVE  CInv'
<1>1. /\ FieldsOK /\ CodecTypeOK /\ IsMessage(message) /\ ~damaged /\ parsed = <<>>
      /\ level \in 1 .. Len(message.payloads) /\ Len(message.payloads) \in Nat
      /\ Len(message.options) \in Nat /\ MAX_UDP_PAYLOAD \in Nat /\ 4 <= MAX_UDP_PAYLOAD
  BY BuildingTypes
<1>2. CASE level > 1
  <2>1. StartOver(level - 1) /\ UNCHANGED message /\ UNCHANGED reading
    BY <1>2 DEF BufferFull
  <2>2. /\ phase' = "payload" /\ level' = level - 1 /\ payload' = <<>> /\ buffer' = <<>>
        /\ written' = <<>> /\ blocks' = <<>> /\ message' = message /\ size' = size
        /\ damaged' = damaged /\ pos' = pos /\ uri_length' = uri_length
        /\ parsed' = parsed /\ found' = found
    BY <2>1 DEF StartOver, reading
  <2>3. level' \in 1 .. Len(message.payloads) /\ level' + 1 = level
    BY <1>1, <1>2, <2>2
  <2>4. CodecTypeOK' /\ FieldsOK'
    <3>1. CodecTypeOK'
      BY <1>1, <2>2, <2>3 DEF CodecTypeOK, Building
    <3>2. FieldsOK'
      BY <1>1, <2>2 DEF FieldsOK
    <3>. QED
      BY <3>1, <3>2
  <2>5. OptionsLaid' /\ ValuesLaid' /\ HmacSpoilt' /\ NothingRead'
    BY <1>1, <2>2 DEF OptionsLaid, ValuesLaid, HmacSpoilt, NothingRead
  <2>6. PayloadBuilt'
    <3>1. /\ Len(Blocks(level)') \in Nat
          /\ Sums(TlvSizes(Blocks(level)))'[0] = 0
      <4>. PICK k \in 1 .. Len(message.payloads) : k = level'
        BY <2>3
      <4>1. Len(Blocks(k)) \in Nat /\ Sums(TlvSizes(Blocks(k)))[0] = 0
        BY <1>1, TlvSumsAre
      <4>. QED
        BY <2>2, <4>1 DEF Blocks
    <3>2. Encoded(0)'
      BY <2>2, <3>1 DEF Encoded
    <3>. QED
      BY <1>1, <2>2, <3>1, <3>2 DEF PayloadBuilt
  <2>7. PacketBuilt' /\ FinderFollows' /\ FinderAgrees'
        /\ UriRead' /\ OptionsRead' /\ TlvsRead' /\ Arrived' /\ FailedForAReason'
    BY <2>2 DEF PacketBuilt, FinderFollows, FinderAgrees, UriRead, OptionsRead, TlvsRead,
                Arrived, FailedForAReason, Complete, Reading
  <2>8. HighestLevel'
    <3>1. DatagramSize(level + 1)' = DatagramSize(level)
      BY <2>2, <2>3 DEF DatagramSize, Blocks
    <3>. QED
      BY <3>1 DEF HighestLevel
  <2>. QED
    BY <2>4, <2>5, <2>6, <2>7, <2>8 DEF CInv
<1>3. CASE ~(level > 1)
  <2>1. level = 1
    BY <1>1, <1>3
  <2>2. GiveUp /\ UNCHANGED message /\ UNCHANGED reading
    BY <1>3 DEF BufferFull
  <2>. QED
    BY <2>1, <2>2, GiveUpCInv
<1>. QED
  BY <1>2, <1>3

\* The initial states satisfy the invariant.
LEMMA InitCInv ==
    ASSUME Init
    PROVE  CInv
<1>1. /\ message \in Message /\ phase = "payload" /\ level = Len(message.payloads)
      /\ payload = <<>> /\ buffer = <<>> /\ written = <<>> /\ size = 0 /\ damaged = FALSE
      /\ pos = 0 /\ uri_length = 0 /\ parsed = <<>> /\ blocks = <<>>
      /\ found = [offset |-> 0, length |-> 0, payload |-> 0]
  BY DEF Init, NothingFound
<1>2. IsMessage(message)
  BY <1>1, MessageAssumption
<1>3. /\ Len(message.options) \in Nat /\ Len(message.payloads) \in Nat
      /\ level \in 1 .. Len(message.payloads)
  <2>1. /\ message.options \in Seq([number : Uint16, length : Uint16])
        /\ message.payloads \in Seq(Seq(Uint16 \union {Unencodable}))
        /\ message.payloads # <<>>
    BY <1>2, MessageIs
  <2>. QED
    BY <1>1, <2>1
<1>4. MAX_UDP_PAYLOAD \in Nat
  BY SizeAssumption DEF HmacInputSize
<1>5. CodecTypeOK
  <2>1. Len(payload) = 0 /\ Len(buffer) = 0 /\ found.offset + found.length = 0
    BY <1>1
  <2>2. 0 \in 0 .. MAX_UDP_PAYLOAD /\ 0 <= MAX_UDP_PAYLOAD /\ 0 \in 0 .. UriSize
    BY <1>4 DEF UriSize
  <2>3. phase \in Building
    BY <1>1 DEF Building
  <2>. QED
    BY <1>1, <1>3, <2>1, <2>2, <2>3 DEF CodecTypeOK
<1>6. FieldsOK
  BY <1>1 DEF FieldsOK
<1>7. OptionsLaid /\ ValuesLaid /\ HmacSpoilt /\ NothingRead
  BY <1>1, <1>3 DEF OptionsLaid, ValuesLaid, HmacSpoilt, NothingRead
<1>8. PayloadBuilt
  <2>1. Len(Blocks(level)) \in Nat /\ Sums(TlvSizes(Blocks(level)))[0] = 0
    BY <1>2, <1>3, TlvSumsAre
  <2>2. Encoded(0)
    BY <1>1, <2>1 DEF Encoded
  <2>. QED
    BY <1>1, <2>1, <2>2 DEF PayloadBuilt
<1>9. PacketBuilt /\ FinderFollows /\ FinderAgrees
      /\ UriRead /\ OptionsRead /\ TlvsRead /\ Arrived /\ FailedForAReason
  BY <1>1 DEF PacketBuilt, FinderFollows, FinderAgrees, UriRead, OptionsRead, TlvsRead,
              Arrived, FailedForAReason, Complete, Reading
<1>10. HighestLevel
  BY <1>1 DEF HighestLevel
<1>. QED
  BY <1>5, <1>6, <1>7, <1>8, <1>9, <1>10 DEF CInv

\* c is b, and t behind it.
Joined(c, b, t) ==
    /\ Len(b) \in Nat /\ Len(t) \in Nat /\ Len(c) = Len(b) + Len(t)
    /\ \A i \in 1 .. Len(b) : c[i] = b[i]
    /\ \A i \in 1 .. Len(t) : c[Len(b) + i] = t[i]

\* What is appended follows what was there, which stays.
LEMMA Appended ==
    ASSUME NEW b \in Seq(Int), NEW t \in Seq(Int)
    PROVE  b \o t \in Seq(Int) /\ Joined(b \o t, b, t)
<1>. DEFINE c == b \o t
            m == Len(b)
            n == Len(t)
<1>1. /\ c \in Seq(Int) /\ Len(c) = m + n
      /\ \A i \in 1 .. m + n : c[i] = IF i <= m THEN b[i] ELSE t[i - m]
  BY ConcatProperties
<1>2. m \in Nat /\ n \in Nat
  OBVIOUS
<1>. HIDE DEF m, n, c
<1>3. ASSUME NEW i \in 1 .. m
      PROVE  c[i] = b[i]
  <2>1. i \in 1 .. m + n /\ i <= m
    BY <1>2
  <2>. QED
    BY <1>1, <2>1
<1>4. ASSUME NEW i \in 1 .. n
      PROVE  c[m + i] = t[i]
  <2>. DEFINE k == m + i
  <2>1. k \in 1 .. m + n /\ ~(k <= m) /\ k - m = i
    BY <1>2
  <2>. HIDE DEF k
  <2>2. c[k] = t[k - m]
    BY <1>1, <2>1
  <2>. QED
    BY <2>1, <2>2, Zenon DEF k
<1>. QED
  BY <1>1, <1>2, <1>3, <1>4 DEF m, n, c, Joined

\* c is b with a TLV behind it, whose header is read as its length.
TlvJoined(c, b, l) ==
    /\ c \in Seq(Int) /\ Len(c) = Len(b) + (4 + l)
    /\ \A i \in 1 .. Len(b) : c[i] = b[i]
    /\ c[Len(b) + 3] * 256 + c[Len(b) + 4] = l

\* TlvBytes appends a TLV.
LEMMA TlvAppended ==
    ASSUME NEW b \in Seq(Int), NEW l \in Nat
    PROVE  TlvJoined(b \o TlvBytes(l), b, l)
<1>. DEFINE head == <<9, 1, l \div 256, l % 256>>
            t == TlvBytes(l)
            c == b \o t
<1>1. Bytes(l) \in Seq(Int) /\ Len(Bytes(l)) = l
  BY DEF Bytes, Fill
<1>2. head \in Seq(Int) /\ Len(head) = 4 /\ head[3] = l \div 256 /\ head[4] = l % 256
  OBVIOUS
<1>3. t \in Seq(Int) /\ Len(t) = 4 + l /\ t[3] = l \div 256 /\ t[4] = l % 256
  <2>1. t = head \o Bytes(l)
    BY DEF TlvBytes
  <2>. HIDE DEF head, t
  <2>2. t \in Seq(Int) /\ Joined(t, head, Bytes(l))
    BY <1>1, <1>2, <2>1, Appended, Zenon
  <2>. QED
    BY <1>1, <1>2, <2>2 DEF Joined
<1>. HIDE DEF t
<1>4. c \in Seq(Int) /\ Joined(c, b, t)
  BY <1>3, Appended, Zenon
<1>. HIDE DEF c
<1>5. c[Len(b) + 3] = l \div 256 /\ c[Len(b) + 4] = l % 256
  <2>1. 3 \in 1 .. Len(t) /\ 4 \in 1 .. Len(t)
    BY <1>3
  <2>. QED
    BY <1>3, <1>4, <2>1, Zenon DEF Joined
<1>6. (l \div 256) * 256 + (l % 256) = l
  OBVIOUS
<1>7. Len(c) = Len(b) + (4 + l)
  BY <1>3, <1>4 DEF Joined
<1>8. c[Len(b) + 3] * 256 + c[Len(b) + 4] = l
  BY <1>5, <1>6, Zenon
<1>. QED
  BY <1>4, <1>7, <1>8, Zenon DEF Joined, TlvJoined, c, t

\* EncodeTLV keeps the invariant.
LEMMA EncodeTLVCInv ==
    ASSUME CInv, EncodeTLV
    PROVE  CInv'
<1>. DEFINE m == Len(blocks)
            N == Len(Blocks(level))
            f == Sums(TlvSizes(Blocks(level)))
            L == Blocks(level)[m + 1]
<1>1. /\ phase = "payload" /\ m < N
      /\ IF L = Unencodable
         THEN GiveUp /\ UNCHANGED message /\ UNCHANGED reading
         ELSE IF HasSpace(payload, 4 + L)
         THEN /\ payload' = payload \o TlvBytes(L)
              /\ blocks' = Append(blocks, L)
              /\ UNCHANGED <<message, phase, level, buffer, written>>
              /\ UNCHANGED reading
         ELSE BufferFull
  BY Zenon DEF EncodeTLV
<1>2. /\ FieldsOK /\ CodecTypeOK /\ IsMessage(message) /\ ~damaged /\ parsed = <<>>
      /\ level \in 1 .. Len(message.payloads)
      /\ Len(payload) \in Nat /\ m \in Nat /\ MAX_UDP_PAYLOAD \in Nat
  BY <1>1, BuildingTypes
<1>3. /\ N \in Nat /\ Blocks(level) \in Seq(Int)
      /\ \A i \in 0 .. N : f[i] \in Nat /\ f[i] <= f[N]
      /\ \A i \in 1 .. N : f[i] = f[i - 1] + (4 + Blocks(level)[i])
      /\ Total(TlvSizes(Blocks(level))) = f[N]
  BY <1>2, TlvSumsAre
<1>4. /\ written = <<>> /\ \A i \in 1 .. m : blocks[i] = Blocks(level)[i]
      /\ Len(payload) = f[m] /\ \A i \in 1 .. m : TlvIn(payload, Blocks(level), i)
  BY <1>1 DEF CInv, PayloadBuilt, Encoded
<1>5. m + 1 \in 1 .. N /\ m + 1 \in 0 .. N /\ m \in 0 .. N /\ (m + 1) - 1 = m
  BY <1>1, <1>2, <1>3
<1>6. f[m + 1] = f[m] + (4 + L) /\ f[m + 1] <= f[N] /\ f[m] \in Nat /\ f[m + 1] \in Nat
      /\ f[N] \in Nat
  <2>1. N \in 0 .. N
    BY <1>3
  <2>. QED
    BY <1>3, <1>5, <2>1
<1>7. CASE L = Unencodable
  <2>1. Contains(Blocks(level), Unencodable)
    BY <1>5, <1>7 DEF Contains
  <2>. QED
    BY <1>1, <1>7, <2>1, GiveUpCInv
<1>8. ASSUME L # Unencodable
      PROVE  L \in Nat
  <2>1. Blocks(level) \in Seq(Uint16 \union {Unencodable})
    BY <1>2, MessageIs DEF Blocks
  <2>2. L \in Uint16 \/ L = Unencodable
    BY <1>5, <2>1
  <2>3. Uint16 \subseteq Nat
    BY DEF Uint16
  <2>. QED
    BY <1>8, <2>2, <2>3, Zenon
<1>. HIDE DEF m, N, f, L
<1>9. CASE L # Unencodable /\ ~HasSpace(payload, 4 + L)
  <2>1. BufferFull
    BY <1>1, <1>9
  <2>2. f[m + 1] > MAX_UDP_PAYLOAD
    <3>1. ~(f[m] + (4 + L) <= MAX_UDP_PAYLOAD) /\ L \in Nat
      BY <1>4, <1>8, <1>9 DEF HasSpace
    <3>. QED
      BY <1>2, <1>6, <3>1
  <2>3. DatagramSize(level) = 4 + Total(OptionSizes(message.options)) + (1 + f[N])
        /\ Total(OptionSizes(message.options)) \in Nat
    <3>1. Len(Blocks(level)) > 0
      BY <1>3, <1>5 DEF N
    <3>. QED
      BY <1>2, <1>3, <3>1, DatagramSizeIs
  <2>4. DatagramSize(level) > MAX_UDP_PAYLOAD
    BY <1>2, <1>6, <2>2, <2>3
  <2>. QED
    BY <1>1, <2>1, <2>4, BufferFullCInv
<1>10. CASE L # Unencodable /\ HasSpace(payload, 4 + L)
  <2>1. /\ payload' = payload \o TlvBytes(L) /\ blocks' = Append(blocks, L)
        /\ phase' = phase /\ message' = message /\ level' = level
        /\ written' = written /\ buffer' = buffer /\ size' = size
        /\ damaged' = damaged /\ pos' = pos /\ uri_length' = uri_length
        /\ parsed' = parsed /\ found' = found
    BY <1>1, <1>10 DEF reading
  <2>2. payload \in Seq(Int) /\ blocks \in Seq(Int) /\ L \in Nat
    BY <1>2, <1>8, <1>10 DEF FieldsOK
  <2>3. /\ payload' \in Seq(Int) /\ Len(payload') = Len(payload) + (4 + L)
        /\ \A i \in 1 .. Len(payload) : payload'[i] = payload[i]
        /\ payload'[Len(payload) + 3] * 256 + payload'[Len(payload) + 4] = L
    <3>1. TlvJoined(payload', payload, L)
      BY <2>1, <2>2, TlvAppended, Zenon
    <3>. QED
      BY <3>1, Zenon DEF TlvJoined
  <2>4. /\ blocks' \in Seq(Int) /\ Len(blocks') = m + 1
        /\ \A i \in 1 .. m + 1 : blocks'[i] = Blocks(level)[i]
    <3>1. /\ Append(blocks, L) \in Seq(Int) /\ Len(Append(blocks, L)) = m + 1
          /\ \A i \in 1 .. m : Append(blocks, L)[i] = blocks[i]
          /\ Append(blocks, L)[m + 1] = L
      BY <2>2, AppendProperties DEF m
    <3>2. \A i \in 1 .. m + 1 : i \in 1 .. m \/ i = m + 1
      BY <1>2
    <3>. QED
      BY <1>4, <2>1, <3>1, <3>2 DEF L
  <2>5. Blocks(level)' = Blocks(level) /\ f' = f /\ N' = N /\ UriLength' = UriLength
        /\ DatagramSize(level + 1)' = DatagramSize(level + 1)
    BY <2>1 DEF Blocks, f, N, UriLength, DatagramSize
  <2>6. CodecTypeOK' /\ FieldsOK'
    <3>1. Len(payload') <= MAX_UDP_PAYLOAD
      BY <1>10, <2>3 DEF HasSpace
    <3>2. CodecTypeOK'
      BY <1>2, <2>1, <3>1 DEF CodecTypeOK
    <3>3. FieldsOK'
      BY <1>2, <2>1, <2>3, <2>4 DEF FieldsOK
    <3>. QED
      BY <3>2, <3>3
  <2>7. OptionsLaid' /\ ValuesLaid' /\ HmacSpoilt' /\ NothingRead'
    <3>1. OptionsLaid
      BY DEF CInv
    <3>. QED
      BY <1>2, <1>4, <2>1, <3>1
         DEF OptionsLaid, ValuesLaid, HmacSpoilt, NothingRead, End
  <2>8. \A i \in 1 .. m + 1 : TlvIn(payload', Blocks(level), i)
    <3>1. ASSUME NEW i \in 1 .. m
          PROVE  TlvIn(payload', Blocks(level), i)
      <4>1. /\ Blocks(level)[i] \in Nat
            /\ payload[f[i - 1] + 3] * 256 + payload[f[i - 1] + 4] = Blocks(level)[i]
        BY <1>4 DEF TlvIn, f
      <4>2. f[i - 1] + 3 \in 1 .. Len(payload) /\ f[i - 1] + 4 \in 1 .. Len(payload)
        <5>1. i \in 1 .. N /\ i - 1 \in 0 .. N /\ i \in 0 .. N
          BY <1>2, <1>3, <1>5
        <5>2. f[i] = f[i - 1] + (4 + Blocks(level)[i]) /\ f[i - 1] \in Nat /\ f[i] \in Nat
          BY <1>3, <5>1
        <5>3. f[i] <= f[m]
          <6>1. /\ TlvSizes(Blocks(level)) \in Seq(Nat)
                /\ Len(TlvSizes(Blocks(level))) = N
            BY <1>2, TlvSizesAre DEF Blocks, N
          <6>2. m \in i .. N
            BY <1>2, <1>3, <1>5
          <6>3. m \in i .. Len(TlvSizes(Blocks(level)))
                /\ i \in 0 .. Len(TlvSizes(Blocks(level)))
                /\ m \in 0 .. Len(TlvSizes(Blocks(level)))
            BY <5>1, <6>1, <6>2, <1>5
          <6>. QED
            BY <6>1, <6>3, SumsGrow DEF f
        <5>. DEFINE a == f[i - 1]
                    b == f[i]
                    v == Blocks(level)[i]
        <5>4. a \in Nat /\ b \in Nat /\ v \in Nat /\ b = a + (4 + v) /\ b <= Len(payload)
          BY <1>4, <4>1, <5>2, <5>3
        <5>. HIDE DEF a, b, v
        <5>5. a + 3 \in 1 .. Len(payload) /\ a + 4 \in 1 .. Len(payload)
          BY <1>2, <5>4
        <5>. QED
          BY <5>5 DEF a
      <4>3. payload'[f[i - 1] + 3] = payload[f[i - 1] + 3]
            /\ payload'[f[i - 1] + 4] = payload[f[i - 1] + 4]
        BY <2>3, <4>2
      <4>. QED
        BY <4>1, <4>3, Zenon DEF TlvIn, f
    <3>2. TlvIn(payload', Blocks(level), m + 1)
      <4>1. Sums(TlvSizes(Blocks(level)))[(m + 1) - 1] = Len(payload)
        BY <1>4, <1>5 DEF f
      <4>2. /\ Blocks(level)[m + 1] \in Nat
            /\ payload'[Len(payload) + 3] * 256 + payload'[Len(payload) + 4]
                  = Blocks(level)[m + 1]
        BY <2>2, <2>3, Zenon DEF L
      <4>. QED
        BY <4>1, <4>2, Zenon DEF TlvIn
    <3>3. \A i \in 1 .. m + 1 : i \in 1 .. m \/ i = m + 1
      BY <1>2
    <3>. QED
      BY <3>1, <3>2, <3>3
  <2>9. PayloadBuilt'
    <3>1. Len(payload') = f[m + 1]
      BY <1>4, <1>6, <2>3
    <3>2. Encoded(Len(blocks))'
      BY <2>4, <2>5, <2>8, <3>1 DEF Encoded, f
    <3>3. Len(blocks') <= N'
      BY <1>5, <2>4, <2>5
    <3>. QED
      BY <1>1, <1>2, <1>4, <2>1, <2>4, <2>5, <3>2, <3>3 DEF PayloadBuilt, N
  <2>10. PacketBuilt' /\ FinderFollows' /\ FinderAgrees'
         /\ UriRead' /\ OptionsRead' /\ TlvsRead' /\ Arrived' /\ FailedForAReason'
    BY <1>1, <2>1 DEF PacketBuilt, FinderFollows, FinderAgrees, UriRead, OptionsRead,
                      TlvsRead, Arrived, FailedForAReason, Complete, Reading
  <2>11. HighestLevel'
    BY <2>1, <2>5 DEF CInv, HighestLevel
  <2>. QED
    BY <2>6, <2>7, <2>9, <2>10, <2>11 DEF CInv
<1>. QED
  BY <1>7, <1>9, <1>10

\* BuildCoAPHeader keeps the invariant.
LEMMA HeaderCInv ==
    ASSUME CInv, BuildCoAPHeader
    PROVE  CInv'
<1>1. /\ phase = "payload" /\ Len(blocks) = Len(Blocks(level))
      /\ phase' = IF UriLength < UriStringSize THEN "build" ELSE "failed"
      /\ buffer' = <<80, 2, 0, 1>>
      /\ message' = message /\ level' = level /\ payload' = payload /\ written' = written
      /\ blocks' = blocks /\ size' = size /\ damaged' = damaged /\ pos' = pos
      /\ uri_length' = uri_length /\ parsed' = parsed /\ found' = found
  BY DEF BuildCoAPHeader, reading
<1>2. /\ FieldsOK /\ CodecTypeOK /\ IsMessage(message) /\ ~damaged /\ parsed = <<>>
      /\ MAX_UDP_PAYLOAD \in Nat /\ 4 <= MAX_UDP_PAYLOAD /\ Len(message.options) \in Nat
  BY <1>1, BuildingTypes
<1>3. written = <<>> /\ Encoded(Len(Blocks(level)))
  BY <1>1 DEF CInv, PayloadBuilt
<1>4. phase' \in {"build", "failed"}
  BY <1>1
<1>5. buffer' \in Seq(Int) /\ Len(buffer') = 4
  BY <1>1
<1>6. CodecTypeOK' /\ FieldsOK'
  <2>1. CodecTypeOK'
    BY <1>1, <1>2, <1>4, <1>5 DEF CodecTypeOK, Building
  <2>2. FieldsOK'
    BY <1>1, <1>2, <1>5 DEF FieldsOK
  <2>. QED
    BY <2>1, <2>2
<1>7. OptionsLaid' /\ ValuesLaid' /\ HmacSpoilt' /\ NothingRead'
  BY <1>1, <1>2, <1>3 DEF OptionsLaid, ValuesLaid, HmacSpoilt, NothingRead
<1>8. Blocks(level)' = Blocks(level) /\ UriLength' = UriLength
      /\ DatagramSize(level + 1)' = DatagramSize(level + 1)
      /\ Sums(OptionSizes(message.options))' = Sums(OptionSizes(message.options))
  BY <1>1 DEF Blocks, UriLength, DatagramSize
<1>9. PayloadBuilt'
  <2>1. Encoded(Len(Blocks(level)))'
    BY <1>1, <1>3, <1>8 DEF Encoded
  <2>. QED
    BY <1>1, <1>2, <1>4, <1>8, <2>1 DEF PayloadBuilt
<1>10. PacketBuilt'
  <2>1. Len(written') = 0 /\ End' = 4
    BY <1>1, <1>3 DEF End, StartIn
  <2>2. Sums(OptionSizes(message.options))[0] = 0
    BY <1>2, OptionSumsAre
  <2>. QED
    BY <1>4, <1>5, <1>8, <2>1, <2>2 DEF PacketBuilt, Complete, Reading
<1>11. FinderFollows' /\ FinderAgrees' /\ UriRead' /\ OptionsRead' /\ TlvsRead' /\ Arrived'
  BY <1>4 DEF FinderFollows, FinderAgrees, UriRead, OptionsRead, TlvsRead, Arrived, Reading
<1>12. HighestLevel'
  BY <1>1, <1>8 DEF CInv, HighestLevel
<1>13. FailedForAReason'
  <2>1. UriLength \in Nat
    BY <1>2, UriSumsAre
  <2>2. phase' = "failed" => UriLength >= UriStringSize
    BY <1>1, <2>1 DEF UriStringSize
  <2>. QED
    BY <1>8, <2>2 DEF FailedForAReason
<1>. QED
  BY <1>6, <1>7, <1>9, <1>10, <1>11, <1>12, <1>13 DEF CInv

\* b has at place q the header of an option and its value behind it.
OptionAt(b, q, delta, length) ==
    LET extended == q + 1 + ExtendedSize(delta)
        value == extended + ExtendedSize(length)
    IN  /\ b[q + 1] = Nibble(delta) * 16 + Nibble(length)
        /\ ExtensionIn(b, delta, q + 1)
        /\ ExtensionIn(b, length, extended)
        /\ \A x \in 1 .. length : b[value + x] = Fill
        /\ Len(b) = value + length

\* OptionBytes is an option's header and its value.
LEMMA OptionBytesAre ==
    ASSUME NEW delta \in Nat, NEW l \in Nat, NEW o, NEW previous,
           o.length = l, o.number - previous = delta
    PROVE  LET t == OptionBytes(previous, o)
           IN  t \in Seq(Int) /\ OptionAt(t, 0, delta, l)
<1>. DEFINE h == <<Nibble(delta) * 16 + Nibble(l)>>
            d == Extension(delta)
            x == Extension(l)
            v == Bytes(l)
            t1 == h \o d
            t2 == t1 \o x
            t == t2 \o v
            e == ExtendedSize(delta)
            f == ExtendedSize(l)
<1>1. /\ e \in Nat /\ Nibble(delta) \in 0 .. 14 /\ d \in Seq(Int) /\ Len(d) = e
      /\ f \in Nat /\ Nibble(l) \in 0 .. 14 /\ x \in Seq(Int) /\ Len(x) = f
  BY CodingIs
<1>2. h \in Seq(Int) /\ Len(h) = 1 /\ h[1] = Nibble(delta) * 16 + Nibble(l)
  <2>. DEFINE byte == Nibble(delta) * 16 + Nibble(l)
  <2>0. \A a, b \in 0 .. 14 : a * 16 + b \in Int
    OBVIOUS
  <2>1. byte \in Int
    BY <1>1, <2>0, Zenon
  <2>. HIDE DEF byte
  <2>2. <<byte>> \in Seq(Int) /\ Len(<<byte>>) = 1 /\ <<byte>>[1] = byte
    BY <2>1
  <2>. QED
    BY <2>2, Zenon DEF byte
<1>3. v \in Seq(Int) /\ Len(v) = l /\ \A i \in 1 .. l : v[i] = Fill
  BY DEF Bytes, Fill
<1>4. OptionBytes(previous, o) = t
  BY Zenon DEF OptionBytes
<1>. HIDE DEF h, d, x, v, t
<1>5. t1 \in Seq(Int) /\ Joined(t1, h, d)
  BY <1>1, <1>2, Appended, Zenon
<1>. HIDE DEF t1
<1>6. t2 \in Seq(Int) /\ Joined(t2, t1, x)
  BY <1>1, <1>5, Appended, Zenon
<1>. HIDE DEF t2
<1>7. t \in Seq(Int) /\ Joined(t, t2, v)
  BY <1>3, <1>6, Appended, Zenon DEF t
<1>. HIDE DEF e, f
<1>8. Len(t1) = 1 + e /\ Len(t2) = 1 + e + f /\ Len(t) = 1 + e + f + l
  BY <1>1, <1>2, <1>3, <1>5, <1>6, <1>7 DEF Joined
<1>9. \A j \in 1 .. Len(t1) : t[j] = t1[j]
  <2>1. \A j \in 1 .. Len(t1) : j \in 1 .. Len(t2)
    BY <1>1, <1>8
  <2>. QED
    BY <1>6, <1>7, <2>1 DEF Joined
<1>10. t[1] = Nibble(delta) * 16 + Nibble(l)
  <2>1. 1 \in 1 .. Len(h) /\ 1 \in 1 .. Len(t1)
    BY <1>1, <1>2, <1>8
  <2>. QED
    BY <1>2, <1>5, <1>9, <2>1 DEF Joined
<1>11. \A j \in 1 .. e : t[1 + j] = d[j]
  <2>1. ASSUME NEW j \in 1 .. e
        PROVE  t[1 + j] = d[j]
    <3>1. 1 + j \in 1 .. Len(t1) /\ j \in 1 .. Len(d)
      BY <1>1, <1>8 DEF e
    <3>2. t1[1 + j] = d[j]
      BY <1>2, <1>5, <3>1, Zenon DEF Joined
    <3>. QED
      BY <1>9, <3>1, <3>2, Zenon
  <2>. QED
    BY <2>1
<1>12. \A j \in 1 .. f : t[1 + e + j] = x[j]
  <2>1. ASSUME NEW j \in 1 .. f
        PROVE  t[1 + e + j] = x[j]
    <3>1. 1 + e + j \in 1 .. Len(t2) /\ j \in 1 .. Len(x)
      BY <1>1, <1>8 DEF f
    <3>2. t2[1 + e + j] = x[j]
      BY <1>6, <1>8, <3>1, Zenon DEF Joined
    <3>. QED
      BY <1>7, <3>1, <3>2, Zenon DEF Joined
  <2>. QED
    BY <2>1
<1>13. \A j \in 1 .. l : t[1 + e + f + j] = Fill
  <2>1. ASSUME NEW j \in 1 .. l
        PROVE  t[1 + e + f + j] = Fill
    <3>1. t[1 + e + f + j] = v[j]
      BY <1>3, <1>7, <1>8, Zenon DEF Joined
    <3>. QED
      BY <1>3, <3>1, Zenon
  <2>. QED
    BY <2>1
<1>14. 0 + 1 = 1 /\ 0 + 1 + e = 1 + e /\ 0 + 1 + e + f = 1 + e + f
  BY <1>1
<1>15. t[0 + 1] = Nibble(delta) * 16 + Nibble(l)
  BY <1>10, <1>14
<1>16. ExtensionIn(t, delta, 0 + 1) /\ ExtensionIn(t, l, 0 + 1 + e)
  BY <1>11, <1>12, <1>14, Zenon DEF ExtensionIn, d, x, e, f
<1>17. \A j \in 1 .. l : t[0 + 1 + e + f + j] = Fill
  BY <1>13, <1>14, Zenon
<1>18. Len(t) = 0 + 1 + e + f + l
  BY <1>8, <1>14, Zenon
<1>19. OptionAt(t, 0, delta, l)
  BY <1>15, <1>16, <1>17, <1>18, Zenon DEF OptionAt, e, f
<1>. QED
  BY <1>4, <1>7, <1>19, Zenon

\* An option appended to what is there begins behind it.
LEMMA OptionAppended ==
    ASSUME NEW b \in Seq(Int), NEW t \in Seq(Int), NEW delta \in Nat, NEW l \in Nat,
           OptionAt(t, 0, delta, l)
    PROVE  /\ OptionAt(b \o t, Len(b), delta, l)
           /\ Len(t) = 1 + ExtendedSize(delta) + ExtendedSize(l) + l
<1>. DEFINE c == b \o t
            p == Len(b)
            e == ExtendedSize(delta)
            f == ExtendedSize(l)
<1>1. e \in Nat /\ f \in Nat
  BY CodingIs
<1>2. /\ t[0 + 1] = Nibble(delta) * 16 + Nibble(l)
      /\ ExtensionIn(t, delta, 0 + 1) /\ ExtensionIn(t, l, 0 + 1 + e)
      /\ \A x \in 1 .. l : t[0 + 1 + e + f + x] = Fill
      /\ Len(t) = 0 + 1 + e + f + l
  BY Zenon DEF OptionAt
<1>3. Joined(c, b, t)
  BY Appended, Zenon
<1>. HIDE DEF c, p, e, f
<1>4. Len(t) = 1 + e + f + l
  BY <1>1, <1>2
<1>5. /\ p \in Nat /\ Len(c) = p + Len(t)
      /\ \A x \in 1 .. 1 + e + f + l : c[p + x] = t[x]
  BY <1>3, <1>4 DEF Joined, p
<1>6. c[p + 1] = Nibble(delta) * 16 + Nibble(l)
  <2>1. 1 \in 1 .. 1 + e + f + l /\ 0 + 1 = 1
    BY <1>1
  <2>2. t[1] = Nibble(delta) * 16 + Nibble(l)
    BY <1>2, <2>1
  <2>. QED
    BY <1>5, <2>1, <2>2, Zenon
<1>7. ExtensionIn(c, delta, p + 1)
  <2>1. ASSUME NEW j \in 1 .. e
        PROVE  c[p + 1 + j] = Extension(delta)[j]
    <3>. DEFINE y == 1 + j
    <3>1. y \in 1 .. 1 + e + f + l /\ p + 1 + j = p + y /\ 0 + 1 + j = y
      BY <1>1, <1>5
    <3>2. t[0 + 1 + j] = Extension(delta)[j]
      BY <1>2, Zenon DEF ExtensionIn, e
    <3>. HIDE DEF y
    <3>3. t[y] = Extension(delta)[j]
      BY <3>1, <3>2, Zenon
    <3>4. c[p + y] = t[y]
      BY <1>5, <3>1, Zenon
    <3>. QED
      BY <3>1, <3>3, <3>4, Zenon
  <2>. QED
    BY <2>1, Zenon DEF ExtensionIn, e
<1>8. ExtensionIn(c, l, p + 1 + e)
  <2>1. ASSUME NEW j \in 1 .. f
        PROVE  c[p + 1 + e + j] = Extension(l)[j]
    <3>. DEFINE y == 1 + e + j
    <3>1. y \in 1 .. 1 + e + f + l /\ p + 1 + e + j = p + y /\ 0 + 1 + e + j = y
      BY <1>1, <1>5
    <3>2. t[0 + 1 + e + j] = Extension(l)[j]
      BY <1>2, Zenon DEF ExtensionIn, f
    <3>. HIDE DEF y
    <3>3. t[y] = Extension(l)[j]
      BY <3>1, <3>2, Zenon
    <3>4. c[p + y] = t[y]
      BY <1>5, <3>1, Zenon
    <3>. QED
      BY <3>1, <3>3, <3>4, Zenon
  <2>. QED
    BY <2>1, Zenon DEF ExtensionIn, f
<1>9. ASSUME NEW x \in 1 .. l
      PROVE  c[p + 1 + e + f + x] = Fill
  <2>. DEFINE y == 1 + e + f + x
  <2>1. y \in 1 .. 1 + e + f + l /\ p + 1 + e + f + x = p + y /\ 0 + 1 + e + f + x = y
    BY <1>1, <1>5
  <2>2. t[0 + 1 + e + f + x] = Fill
    BY <1>2, Zenon
  <2>. HIDE DEF y
  <2>3. t[y] = Fill
    BY <2>1, <2>2, Zenon
  <2>4. c[p + y] = t[y]
    BY <1>5, <2>1, Zenon
  <2>. QED
    BY <2>1, <2>3, <2>4, Zenon
<1>10. Len(c) = p + 1 + e + f + l
  BY <1>1, <1>4, <1>5
<1>. QED
  BY <1>4, <1>6, <1>7, <1>8, <1>9, <1>10, Zenon DEF OptionAt, c, p, e, f

\* Options that are written stay where they are when more is appended.
LEMMA WrittenKept ==
    ASSUME FieldsOK, OptionsLaid, ValuesLaid, ~damaged, NEW t, NEW b, Joined(b, buffer, t),
           NEW w \in Seq(Field), Len(written) <= Len(w),
           \A i \in 1 .. Len(written) : w[i] = written[i]
    PROVE  \A i \in 1 .. Len(written) :
              /\ HeaderIn(b, w, i) /\ StartIn(w, i) = StartIn(written, i)
              /\ w[i].offset + w[i].length <= Len(b)
              /\ \A x \in 1 .. w[i].length : b[w[i].offset + x] = Fill
<1>. SUFFICES ASSUME NEW i \in 1 .. Len(written)
              PROVE  /\ HeaderIn(b, w, i) /\ StartIn(w, i) = StartIn(written, i)
                     /\ w[i].offset + w[i].length <= Len(b)
                     /\ \A x \in 1 .. w[i].length : b[w[i].offset + x] = Fill
  OBVIOUS
<1>1. /\ HeaderIn(buffer, written, i)
      /\ written[i].offset + written[i].length <= Len(buffer)
  BY DEF OptionsLaid
<1>2. /\ written \in Seq(Field) /\ Len(buffer) \in Nat /\ Len(w) \in Nat
      /\ Len(written) \in Nat
  BY DEF FieldsOK
<1>3. written[i].offset \in Nat /\ written[i].length \in Nat
  BY <1>2, FieldIs
<1>4. w[i] = written[i] /\ i \in 1 .. Len(w)
  BY <1>2
<1>5. StartIn(w, i) = StartIn(written, i) /\ BeforeIn(w, i) = BeforeIn(written, i)
  <2>1. CASE i = 1
    BY <2>1 DEF StartIn, BeforeIn
  <2>2. CASE i # 1
    <3>1. i - 1 \in 1 .. Len(written)
      BY <1>2, <2>2
    <3>2. w[i - 1] = written[i - 1]
      BY <3>1
    <3>. QED
      BY <2>2, <3>2 DEF StartIn, BeforeIn
  <2>. QED
    BY <2>1, <2>2
<1>6. Len(buffer) <= Len(b) /\ Len(b) \in Nat
  BY <1>2 DEF Joined
<1>7. \A x \in 1 .. Len(buffer) : b[x] = buffer[x]
  BY DEF Joined
<1>8. HeaderIn(buffer, w, i)
  BY <1>1, <1>4, <1>5, Zenon DEF HeaderIn
<1>9. HeaderIn(b, w, i)
  <2>1. StartIn(w, i) \in Nat
    BY <1>4, <1>2, StartIs
  <2>2. \A x \in StartIn(w, i) + 1 .. w[i].offset : b[x] = buffer[x]
    <3>1. \A x \in StartIn(w, i) + 1 .. w[i].offset : x \in 1 .. Len(buffer)
      BY <1>1, <1>2, <1>3, <1>4, <2>1
    <3>. QED
      BY <1>7, <3>1
  <2>. QED
    BY <1>4, <1>8, <2>2, HeaderKept
<1>10. w[i].offset + w[i].length <= Len(b)
  BY <1>1, <1>2, <1>3, <1>4, <1>6
<1>11. ASSUME NEW x \in 1 .. w[i].length
       PROVE  b[w[i].offset + x] = Fill
  <2>1. w[i].offset + x \in 1 .. Len(buffer)
    BY <1>1, <1>2, <1>3, <1>4
  <2>2. buffer[written[i].offset + x] = Fill
    BY <1>4 DEF ValuesLaid
  <2>. QED
    BY <1>4, <1>7, <2>1, <2>2
<1>. QED
  BY <1>5, <1>9, <1>10, <1>11

\* The URI and the values that the HMAC covers are never more than the options.
LEMMA HmacInputFits ==
    ASSUME IsMessage(message)
    PROVE  UriLength + HmacFields <= Total(OptionSizes(message.options))
<1>. DEFINE s == Segments(message.options)
            z == OptionSizes(message.options)
            N == Len(message.options)
<1>1. /\ s \in Seq(Nat) /\ Len(s) = N /\ z \in Seq(Nat) /\ Len(z) = N
      /\ \A i \in 1 .. N : s[i] = IF message.options[i].number = URI_PATH
                                  THEN 1 + message.options[i].length ELSE 0
      /\ \A i \in 1 .. N :
            /\ message.options[i].number - Before(message.options, i) \in Nat
            /\ z[i] = 1 + ExtendedSize(message.options[i].number - Before(message.options, i))
                        + ExtendedSize(message.options[i].length) + message.options[i].length
      /\ \A i \in 1 .. N : message.options[i].length \in Nat
  BY SegmentsAre, OptionSizesAre, MessageIs
<1>2. ASSUME NEW i \in 1 .. N
      PROVE  /\ z[i] \in Nat /\ s[i] \in Nat /\ s[i] <= z[i]
             /\ 1 + message.options[i].length <= z[i]
  <2>. DEFINE l == message.options[i].length
              delta == message.options[i].number - Before(message.options, i)
              e == ExtendedSize(delta)
              f == ExtendedSize(l)
  <2>0. l \in Nat /\ delta \in Nat
    BY <1>1, Zenon
  <2>1. e \in Nat /\ f \in Nat /\ l \in Nat
    <3>. HIDE DEF l, delta
    <3>1. e \in 0 .. 2
      BY <2>0, CodingIs, Zenon
    <3>2. f \in 0 .. 2
      BY <2>0, CodingIs, Zenon
    <3>. QED
      BY <2>0, <3>1, <3>2
  <2>2. z[i] = 1 + e + f + l /\ (s[i] = 1 + l \/ s[i] = 0)
    BY <1>1, Zenon
  <2>. HIDE DEF s, z, l, e, f
  <2>3. z[i] \in Nat /\ s[i] \in Nat /\ s[i] <= z[i] /\ 1 + l <= z[i]
    BY <2>1, <2>2
  <2>. QED
    BY <2>3 DEF l
<1>3. PICK h \in 1 .. N : message.options[h].number = HMAC
  <2>1. HMAC \in DOMAIN SigNetLength
    BY DEF SigNetLength
  <2>. QED
    BY <2>1, MessageIs
<1>4. s[h] = 0 /\ z[h] >= 33
  <2>1. s[h] = 0
    BY <1>1, <1>3 DEF HMAC, URI_PATH
  <2>2. message.options[h].length = SigNetLength[HMAC]
    <3>1. HMAC \in DOMAIN SigNetLength
      BY DEF SigNetLength
    <3>. QED
      BY <1>3, <3>1, LengthsAre
  <2>3. SigNetLength[HMAC] = 32
    BY DEF SigNetLength, HMAC, SECURITY_MODE, SENDER_ID, MFG_CODE, SESSION_ID, SEQ_NUM,
           HMAC_SHA256_LENGTH
  <2>4. 1 + 32 <= z[h] /\ z[h] \in Nat
    BY <1>2, <2>2, <2>3
  <2>. QED
    BY <2>1, <2>4
<1>. HIDE DEF s, z, N
<1>5. /\ Sums(s)[0] = 0 /\ Sums(z)[0] = 0
      /\ Sums(s)[h] = Sums(s)[h - 1] + s[h] /\ Sums(z)[h] = Sums(z)[h - 1] + z[h]
      /\ \A i \in 0 .. N : Sums(s)[i] \in Nat /\ Sums(z)[i] \in Nat
  BY <1>1, SumsAre
<1>6. N \in Nat /\ h - 1 \in 0 .. N /\ h \in 0 .. N /\ N \in h .. N /\ 0 \in 0 .. N
      /\ h - 1 \in 0 .. N /\ N \in 0 .. N
  BY <1>1
<1>7. Sums(s)[h - 1] - Sums(s)[0] <= Sums(z)[h - 1] - Sums(z)[0]
  BY <1>1, <1>2, <1>6, SumsCompare
<1>8. Sums(s)[N] - Sums(s)[h] <= Sums(z)[N] - Sums(z)[h]
  BY <1>1, <1>2, <1>6, SumsCompare
<1>9. UriLength = Sums(s)[N] /\ Total(z) = Sums(z)[N]
  BY <1>1 DEF UriLength, Total, s
<1>10. Sums(s)[N] + 19 <= Sums(z)[N]
  <2>. DEFINE a == Sums(s)[h - 1]
              b == Sums(z)[h - 1]
              c == Sums(s)[N]
              d == Sums(z)[N]
              y == z[h]
  <2>1. a \in Nat /\ b \in Nat /\ c \in Nat /\ d \in Nat /\ y \in Nat /\ y >= 33
    BY <1>2, <1>4, <1>5, <1>6
  <2>2. Sums(s)[h] = a + 0 /\ Sums(z)[h] = b + y /\ a - 0 <= b - 0
    BY <1>4, <1>5, <1>7
  <2>3. c - (a + 0) <= d - (b + y)
    BY <1>8, <2>2
  <2>. HIDE DEF a, b, c, d, y
  <2>4. c + 19 <= d
    BY <2>1, <2>2, <2>3
  <2>. QED
    BY <2>4 DEF c, d
<1>. QED
  BY <1>9, <1>10 DEF HmacFields, z

\* What a step of the builder that goes on keeps, whatever it appends.
LEMMA BuildingKeeps ==
    ASSUME CInv, phase = "build", phase' \in {"build", "built"},
           UNCHANGED <<message, level, payload, blocks>>, UNCHANGED reading,
           buffer' \in Seq(Int), Len(buffer') <= MAX_UDP_PAYLOAD, written' \in Seq(Field),
           OptionsLaid', ValuesLaid', PacketBuilt'
    PROVE  CInv'
<1>1. /\ message' = message /\ level' = level /\ payload' = payload /\ blocks' = blocks
      /\ size' = size /\ damaged' = damaged /\ pos' = pos
      /\ uri_length' = uri_length /\ parsed' = parsed /\ found' = found
  BY DEF reading
<1>2. FieldsOK /\ CodecTypeOK /\ ~damaged /\ parsed = <<>>
  BY BuildingTypes
<1>3. CodecTypeOK' /\ FieldsOK'
  <2>1. CodecTypeOK'
    BY <1>1, <1>2 DEF CodecTypeOK, Building
  <2>2. FieldsOK'
    BY <1>1, <1>2 DEF FieldsOK
  <2>. QED
    BY <2>1, <2>2
<1>4. NothingRead' /\ HmacSpoilt'
  BY <1>1, <1>2 DEF NothingRead, HmacSpoilt
<1>5. Blocks(level)' = Blocks(level) /\ UriLength' = UriLength
      /\ DatagramSize(level + 1)' = DatagramSize(level + 1)
  BY <1>1 DEF Blocks, UriLength, DatagramSize
<1>6. PayloadBuilt'
  <2>1. Encoded(Len(Blocks(level))) /\ UriLength < UriStringSize
    BY DEF CInv, PayloadBuilt
  <2>2. Encoded(Len(Blocks(level)))'
    BY <1>1, <1>5, <2>1 DEF Encoded
  <2>. QED
    BY <1>1, <1>2, <1>5, <2>1, <2>2 DEF PayloadBuilt
<1>7. FinderFollows' /\ FinderAgrees' /\ UriRead' /\ OptionsRead' /\ TlvsRead' /\ Arrived'
      /\ FailedForAReason'
  BY DEF FinderFollows, FinderAgrees, UriRead, OptionsRead, TlvsRead, Arrived, Reading,
         FailedForAReason
<1>8. HighestLevel'
  BY <1>1, <1>5 DEF CInv, HighestLevel
<1>. QED
  BY <1>3, <1>4, <1>6, <1>7, <1>8 DEF CInv

\* Where a build stands, and what it takes.
LEMMA BuildStands ==
    ASSUME CInv, phase = "build"
    PROVE  LET N == Len(message.options)
               z == OptionSizes(message.options)
           IN  /\ Len(buffer) = End /\ End = 4 + Sums(z)[Len(written)]
               /\ Len(written) <= N /\ Sums(z)[Len(written)] \in Nat
               /\ Len(written) = N => Sums(z)[Len(written)] = Total(z)
               /\ Total(z) \in Nat
               /\ Len(payload) = Total(TlvSizes(Blocks(level)))
               /\ payload = <<>> <=> Blocks(level) = <<>>
               /\ payload # <<>> => DatagramSize(level) = 4 + Total(z) + (1 + Len(payload))
               /\ payload = <<>> => DatagramSize(level) = 4 + Total(z)
               /\ \A k \in 1 .. Len(message.payloads) :
                     DatagramSize(k) \in Nat /\ 4 + Total(z) <= DatagramSize(k)
<1>. DEFINE N == Len(message.options)
            z == OptionSizes(message.options)
<1>1. /\ FieldsOK /\ IsMessage(message) /\ OptionsLaid
      /\ level \in 1 .. Len(message.payloads)
      /\ Len(written) \in Nat /\ Len(payload) \in Nat
  BY BuildingTypes
<1>2. Len(buffer) = End /\ End = 4 + Sums(z)[Len(written)] /\ Len(written) <= N
  BY <1>1 DEF CInv, PacketBuilt, OptionsLaid
<1>3. /\ N \in Nat /\ Total(z) = Sums(z)[N]
      /\ \A i \in 0 .. N : Sums(z)[i] \in Nat /\ Sums(z)[i] <= Total(z)
  BY <1>1, OptionSumsAre
<1>4. Encoded(Len(Blocks(level)))
  BY DEF CInv, PayloadBuilt
<1>5. Len(payload) = Total(TlvSizes(Blocks(level)))
  <2>1. Total(TlvSizes(Blocks(level))) = Sums(TlvSizes(Blocks(level)))[Len(Blocks(level))]
    BY <1>1, TlvSumsAre
  <2>. QED
    BY <1>4, <2>1 DEF Encoded
<1>6. /\ Blocks(level) = <<>> => DatagramSize(level) = 4 + Total(z)
                                 /\ Total(TlvSizes(Blocks(level))) = 0
      /\ Blocks(level) # <<>> =>
            DatagramSize(level) = 4 + Total(z) + (1 + Total(TlvSizes(Blocks(level))))
      /\ Len(Blocks(level)) > 0 => Blocks(level) # <<>> /\ Total(TlvSizes(Blocks(level))) > 0
  BY <1>1, DatagramSizeIs
<1>7. payload = <<>> <=> Blocks(level) = <<>>
  <2>1. payload \in Seq(Int) /\ Blocks(level) \in Seq(Int)
    BY <1>1, TlvSumsAre DEF FieldsOK
  <2>2. ASSUME payload = <<>>
        PROVE  Blocks(level) = <<>>
    <3>1. Len(payload) = 0 /\ Len(Blocks(level)) \in Nat
      BY <2>1, <2>2
    <3>2. ~(Len(Blocks(level)) > 0)
      BY <1>5, <1>6, <3>1
    <3>3. Len(Blocks(level)) = 0
      BY <3>1, <3>2
    <3>. QED
      BY <2>1, <3>3
  <2>3. ASSUME Blocks(level) = <<>>
        PROVE  payload = <<>>
    <3>1. Len(payload) = 0
      BY <1>5, <1>6, <2>3
    <3>. QED
      BY <2>1, <3>1
  <2>. QED
    BY <2>2, <2>3
<1>8. \A k \in 1 .. Len(message.payloads) :
         DatagramSize(k) \in Nat /\ 4 + Total(z) <= DatagramSize(k)
  BY <1>1, DatagramSizeIs
<1>9. Sums(z)[Len(written)] \in Nat /\ Total(z) \in Nat
  <2>1. Len(written) \in 0 .. N /\ N \in 0 .. N
    BY <1>1, <1>2, <1>3
  <2>. QED
    BY <1>3, <2>1
<1>10. payload # <<>> => DatagramSize(level) = 4 + Total(z) + (1 + Len(payload))
  BY <1>5, <1>6, <1>7, Zenon
<1>11. Len(written) = N => Sums(z)[Len(written)] = Total(z)
  BY <1>3
<1>. QED
  BY <1>2, <1>5, <1>6, <1>7, <1>8, <1>9, <1>10, <1>11, Zenon

\* FinalizePacket keeps the invariant.
LEMMA FinalizeCInv ==
    ASSUME CInv, FinalizePacket
    PROVE  CInv'
<1>. DEFINE tail == IF payload = <<>> THEN <<>> ELSE <<COAP_PAYLOAD_MARKER>> \o payload
            z == OptionSizes(message.options)
<1>1. /\ phase = "build" /\ Len(written) = Len(message.options)
      /\ IF HasSpace(buffer, Len(tail))
         THEN /\ buffer' = buffer \o tail
              /\ phase' = "built"
              /\ UNCHANGED <<message, level, payload, written, blocks>>
              /\ UNCHANGED reading
         ELSE BufferFull
  BY DEF FinalizePacket
<1>2. /\ FieldsOK /\ OptionsLaid /\ IsMessage(message) /\ ~damaged
      /\ level \in 1 .. Len(message.payloads) /\ MAX_UDP_PAYLOAD \in Nat
      /\ Len(payload) \in Nat /\ Len(buffer) \in Nat /\ Len(written) \in Nat
  BY <1>1, BuildingTypes
<1>3. /\ Len(buffer) = End /\ End = 4 + Total(z) /\ Total(z) \in Nat
      /\ payload # <<>> => DatagramSize(level) = 4 + Total(z) + (1 + Len(payload))
      /\ payload = <<>> => DatagramSize(level) = 4 + Total(z)
  BY <1>1, BuildStands
<1>4. /\ buffer \in Seq(Int) /\ payload \in Seq(Int) /\ written \in Seq(Field)
      /\ <<COAP_PAYLOAD_MARKER>> \in Seq(Int) /\ Len(<<COAP_PAYLOAD_MARKER>>) = 1
      /\ <<COAP_PAYLOAD_MARKER>>[1] = COAP_PAYLOAD_MARKER
  BY <1>2 DEF FieldsOK, COAP_PAYLOAD_MARKER
<1>5. /\ tail \in Seq(Int) /\ Len(tail) = IF payload = <<>> THEN 0 ELSE 1 + Len(payload)
      /\ payload # <<>> => /\ tail[1] = COAP_PAYLOAD_MARKER
                           /\ \A i \in 1 .. Len(payload) : tail[1 + i] = payload[i]
  <2>1. CASE payload = <<>>
    BY <2>1
  <2>2. CASE payload # <<>>
    <3>. DEFINE marker == <<COAP_PAYLOAD_MARKER>>
    <3>1. tail = marker \o payload
      BY <2>2
    <3>. HIDE DEF marker, tail
    <3>2. marker \in Seq(Int) /\ Len(marker) = 1 /\ marker[1] = COAP_PAYLOAD_MARKER
      BY <1>4 DEF marker
    <3>3. tail \in Seq(Int) /\ Joined(tail, marker, payload)
      BY <1>4, <3>1, <3>2, Appended, Zenon
    <3>4. /\ Len(tail) = 1 + Len(payload) /\ tail[1] = marker[1]
          /\ \A i \in 1 .. Len(payload) : tail[1 + i] = payload[i]
      <4>1. 1 \in 1 .. Len(marker)
        BY <3>2
      <4>. QED
        BY <3>2, <3>3, <4>1, Zenon DEF Joined
    <3>. QED
      BY <2>2, <3>2, <3>3, <3>4, Zenon
  <2>. QED
    BY <2>1, <2>2
<1>. HIDE DEF tail
<1>6. Len(buffer) + Len(tail) = DatagramSize(level)
  BY <1>2, <1>3, <1>5
<1>7. CASE ~HasSpace(buffer, Len(tail))
  <2>1. BufferFull
    BY <1>1, <1>7
  <2>2. ~(DatagramSize(level) <= MAX_UDP_PAYLOAD)
    BY <1>6, <1>7 DEF HasSpace
  <2>3. DatagramSize(level) \in Nat
    BY <1>2, <1>5, <1>6
  <2>4. DatagramSize(level) > MAX_UDP_PAYLOAD
    BY <1>2, <2>2, <2>3
  <2>. QED
    BY <1>1, <2>1, <2>4, BufferFullCInv
<1>8. CASE HasSpace(buffer, Len(tail))
  <2>1. /\ buffer' = buffer \o tail /\ phase' = "built" /\ written' = written
        /\ UNCHANGED <<message, level, payload, written, blocks>> /\ UNCHANGED reading
        /\ message' = message /\ payload' = payload /\ damaged' = damaged
    BY <1>1, <1>8 DEF reading
  <2>2. buffer' \in Seq(Int) /\ Joined(buffer', buffer, tail)
    BY <1>4, <1>5, <2>1, Appended, Zenon
  <2>3. Len(buffer') <= MAX_UDP_PAYLOAD
    BY <1>8, <2>2 DEF HasSpace, Joined
  <2>4. \A i \in 1 .. Len(written) :
           /\ HeaderIn(buffer', written, i)
           /\ written[i].offset + written[i].length <= Len(buffer')
           /\ \A x \in 1 .. written[i].length : buffer'[written[i].offset + x] = Fill
    <3>1. ValuesLaid /\ Len(written) <= Len(written)
      BY <1>2 DEF CInv
    <3>. QED
      BY <1>2, <1>4, <2>2, <3>1, WrittenKept
  <2>5. End' = End
    BY <2>1 DEF End
  <2>6. OptionsLaid'
    BY <1>2, <2>1, <2>4, <2>5 DEF OptionsLaid
  <2>7. ValuesLaid'
    BY <2>1, <2>4 DEF ValuesLaid
  <2>8. PacketBuilt'
    <3>1. Len(buffer') = End + (IF payload = <<>> THEN 0 ELSE 1 + Len(payload))
      BY <1>3, <1>5, <2>2, Zenon DEF Joined
    <3>2. ASSUME payload # <<>>
          PROVE  buffer'[End + 1] = COAP_PAYLOAD_MARKER
      <4>1. 1 \in 1 .. Len(tail)
        BY <1>2, <1>5, <3>2
      <4>2. buffer'[Len(buffer) + 1] = tail[1]
        BY <2>2, <4>1, Zenon DEF Joined
      <4>. QED
        BY <1>3, <1>5, <3>2, <4>2, Zenon
    <3>3. ASSUME NEW i \in 1 .. Len(payload)
          PROVE  buffer'[End + 1 + i] = payload[i]
      <4>. DEFINE y == 1 + i
      <4>1. payload # <<>>
        BY <1>2
      <4>2. y \in 1 .. Len(tail)
        BY <1>2, <1>5, <4>1
      <4>3. Len(buffer) + y = End + 1 + i
        BY <1>3
      <4>4. tail[y] = payload[i]
        BY <1>5, <4>1
      <4>. HIDE DEF y
      <4>5. buffer'[Len(buffer) + y] = tail[y]
        BY <2>2, <4>2, Zenon DEF Joined
      <4>. QED
        BY <4>3, <4>4, <4>5, Zenon
    <3>4. /\ Len(written') = Len(message.options')
          /\ End' = 4 + Total(OptionSizes(message.options))'
      BY <1>1, <1>3, <2>1, <2>5
    <3>. QED
      BY <2>1, <2>5, <3>1, <3>2, <3>3, <3>4 DEF PacketBuilt
  <2>9. written' \in Seq(Field)
    BY <1>4, <2>1
  <2>. QED
    BY <1>1, <2>1, <2>2, <2>3, <2>6, <2>7, <2>8, <2>9, BuildingKeeps
<1>. QED
  BY <1>7, <1>8

\* EncodeCoAPOption keeps the invariant.
LEMMA EncodeOptionCInv ==
    ASSUME CInv, EncodeCoAPOption
    PROVE  CInv'
<1>. DEFINE N == Len(message.options)
            z == OptionSizes(message.options)
            n == Len(written) + 1
            o == message.options[n]
            l == o.length
            delta == o.number - Number(written)
            e == ExtendedSize(delta)
            f == ExtendedSize(l)
            bytes == OptionBytes(Number(written), o)
            c == buffer \o bytes
            hmac_fits == UriLength + HmacFields + Len(payload) <= HmacInputSize
            fits == HasSpace(buffer, Len(bytes)) /\ (o.number = HMAC => hmac_fits)
            w == [number |-> o.number, length |-> o.length,
                  offset |-> Len(buffer) + Len(bytes) - o.length]
            W == Append(written, w)
<1>1. /\ phase = "build" /\ Len(written) < N
      /\ IF fits
         THEN /\ buffer' = c /\ written' = W
              /\ UNCHANGED <<message, phase, level, payload, blocks>>
              /\ UNCHANGED reading
         ELSE IF o.number = HMAC
         THEN BufferFull
         ELSE GiveUp /\ UNCHANGED message /\ UNCHANGED reading
  BY Zenon DEF EncodeCoAPOption
<1>2. /\ FieldsOK /\ OptionsLaid /\ IsMessage(message) /\ ~damaged
      /\ level \in 1 .. Len(message.payloads) /\ MAX_UDP_PAYLOAD \in Nat
      /\ Len(payload) \in Nat /\ Len(buffer) \in Nat /\ Len(written) \in Nat /\ N \in Nat
      /\ buffer \in Seq(Int) /\ written \in Seq(Field)
  BY <1>1, BuildingTypes DEF FieldsOK
<1>3. n \in 1 .. N /\ n - 1 = Len(written) /\ n \in 0 .. N
  BY <1>1, <1>2
<1>4. /\ Len(buffer) = End /\ End = 4 + Sums(z)[Len(written)]
      /\ Total(z) \in Nat /\ Sums(z)[Len(written)] \in Nat
      /\ Sums(z)[n] \in Nat /\ Sums(z)[n] <= Total(z)
      /\ Sums(z)[n] = Sums(z)[Len(written)] + z[n]
      /\ payload # <<>> => DatagramSize(level) = 4 + Total(z) + (1 + Len(payload))
      /\ payload = <<>> => DatagramSize(level) = 4 + Total(z)
      /\ \A k \in 1 .. Len(message.payloads) :
            DatagramSize(k) \in Nat /\ 4 + Total(z) <= DatagramSize(k)
  <2>1. /\ Len(buffer) = End /\ End = 4 + Sums(z)[Len(written)]
        /\ Total(z) \in Nat /\ Sums(z)[Len(written)] \in Nat
        /\ payload # <<>> => DatagramSize(level) = 4 + Total(z) + (1 + Len(payload))
        /\ payload = <<>> => DatagramSize(level) = 4 + Total(z)
        /\ \A k \in 1 .. Len(message.payloads) :
              DatagramSize(k) \in Nat /\ 4 + Total(z) <= DatagramSize(k)
    BY <1>1, BuildStands
  <2>2. Sums(z)[n] \in Nat /\ Sums(z)[n] <= Total(z) /\ Sums(z)[n] = Sums(z)[n - 1] + z[n]
    BY <1>2, <1>3, OptionSumsAre
  <2>. QED
    BY <1>3, <2>1, <2>2, Zenon
<1>5. Number(written) = BeforeIn(written, n) /\ BeforeIn(written, n) = Before(message.options, n)
  <2>1. CASE written = <<>>
    BY <2>1 DEF Number, BeforeIn, Before
  <2>2. CASE written # <<>>
    <3>1. Len(written) \in 1 .. Len(written) /\ n # 1
      BY <1>2, <2>2
    <3>2. Number(written) = written[Len(written)].number
      BY <2>2 DEF Number, Last
    <3>3. written[Len(written)].number = message.options[Len(written)].number
      BY <1>2, <3>1 DEF OptionsLaid
    <3>. QED
      BY <1>3, <3>1, <3>2, <3>3, Zenon DEF BeforeIn, Before
  <2>. QED
    BY <2>1, <2>2
<1>6. l \in Nat /\ l \in Uint16 /\ o.number \in Uint16
  BY <1>2, <1>3, MessageIs
<1>7. delta \in Nat /\ z[n] = 1 + e + f + l
  BY <1>2, <1>3, <1>5, OptionSizesAre, Zenon
<1>8. e \in 0 .. 2 /\ f \in 0 .. 2
  <2>. HIDE DEF delta, l
  <2>. QED
    BY <1>6, <1>7, CodingIs, Zenon
<1>9. bytes \in Seq(Int) /\ OptionAt(bytes, 0, delta, l)
  <2>. DEFINE previous == Number(written)
  <2>1. o.length = l /\ o.number - previous = delta
    OBVIOUS
  <2>. HIDE DEF o, l, delta, previous
  <2>2. OptionBytes(previous, o) \in Seq(Int) /\ OptionAt(OptionBytes(previous, o), 0, delta, l)
    BY <1>6, <1>7, <2>1, OptionBytesAre, Zenon
  <2>. QED
    BY <2>2 DEF previous
<1>10. w.number = o.number /\ w.length = l /\ w.offset = Len(buffer) + Len(bytes) - l
  OBVIOUS
<1>11. /\ W = Append(written, w)
       /\ w = [number |-> o.number, length |-> l, offset |-> Len(buffer) + Len(bytes) - l]
  OBVIOUS
<1>. HIDE DEF l, delta, bytes, o, w, W, N, z
<1>12. /\ c \in Seq(Int) /\ Joined(c, buffer, bytes)
       /\ OptionAt(c, Len(buffer), delta, l) /\ Len(bytes) = 1 + e + f + l
  <2>1. c \in Seq(Int) /\ Joined(c, buffer, bytes)
    BY <1>2, <1>9, Appended, Zenon
  <2>2. delta \in Nat
    BY <1>7
  <2>3. OptionAt(c, Len(buffer), delta, l)
    BY <1>2, <1>6, <1>9, <2>2, OptionAppended, Zenon
  <2>4. Len(bytes) = 0 + 1 + e + f + l
    BY <1>9, Zenon DEF OptionAt
  <2>5. 0 + 1 + e + f + l = 1 + e + f + l
    <3>. HIDE DEF e, f
    <3>. QED
      BY <1>6, <1>8
  <2>. QED
    BY <2>1, <2>3, <2>4, <2>5, Zenon
<1>. HIDE DEF c, e, f
<1>13. Len(c) = Len(buffer) + Len(bytes)
  BY <1>12 DEF Joined
<1>14. Len(bytes) = z[n] /\ Len(bytes) \in Nat /\ Len(c) = 4 + Sums(z)[n]
  <2>. DEFINE k == Len(bytes)
              p == Len(buffer)
              s == Sums(z)[Len(written)]
              y == z[n]
  <2>1. k = 1 + e + f + l /\ y = 1 + e + f + l /\ p = 4 + s /\ s \in Nat
    BY <1>4, <1>7, <1>12, Zenon DEF e, f
  <2>2. Len(c) = p + k /\ Sums(z)[n] = s + y
    BY <1>4, <1>13, Zenon
  <2>. HIDE DEF k, p, s, y
  <2>3. k = y /\ k \in Nat
    BY <1>6, <1>8, <2>1
  <2>4. p + k = 4 + (s + y)
    BY <2>1, <2>3
  <2>. QED
    BY <2>2, <2>3, <2>4, Zenon DEF k, y
<1>15. CASE fits
  <2>1. /\ buffer' = c /\ written' = W /\ phase' = "build" /\ message' = message
        /\ payload' = payload /\ damaged' = damaged
        /\ UNCHANGED <<message, level, payload, blocks>> /\ UNCHANGED reading
    BY <1>1, <1>15 DEF reading
  <2>2. /\ w.offset = Len(buffer) + 1 + e + f /\ w.offset \in Nat
        /\ w.offset + l = Len(c)
    BY <1>2, <1>6, <1>8, <1>10, <1>12, <1>13
  <2>3. w \in Field
    <3>. DEFINE offset == Len(buffer) + Len(bytes) - l
    <3>1. offset \in Nat
      BY <1>10, <2>2
    <3>. HIDE DEF offset
    <3>2. w = [number |-> o.number, length |-> l, offset |-> offset]
      BY <1>11 DEF offset
    <3>. QED
      BY <1>6, <3>1, <3>2 DEF Field
  <2>4. /\ W \in Seq(Field) /\ Len(W) = n /\ W[n] = w
        /\ \A i \in 1 .. Len(written) : W[i] = written[i]
    BY <1>2, <1>11, <2>3
  <2>5. \A i \in 1 .. Len(written) :
           /\ HeaderIn(c, W, i) /\ StartIn(W, i) = StartIn(written, i)
           /\ W[i].offset + W[i].length <= Len(c)
           /\ \A x \in 1 .. W[i].length : c[W[i].offset + x] = Fill
    <3>1. ValuesLaid /\ Len(written) <= Len(W)
      BY <1>2, <2>4 DEF CInv
    <3>2. FieldsOK /\ OptionsLaid /\ ~damaged /\ Joined(c, buffer, bytes) /\ W \in Seq(Field)
      BY <1>2, <1>12, <2>4
    <3>. QED
      BY <2>4, <3>1, <3>2, WrittenKept
  <2>6. StartIn(W, n) = Len(buffer) /\ BeforeIn(W, n) = BeforeIn(written, n)
    <3>1. StartIn(written, n) = Len(buffer)
      BY <1>4 DEF End
    <3>2. CASE n = 1
      BY <3>1, <3>2 DEF StartIn, BeforeIn
    <3>3. CASE n # 1
      <4>1. Len(written) \in 1 .. Len(written)
        BY <1>2, <3>3
      <4>2. W[n - 1] = written[n - 1]
        BY <1>3, <2>4, <4>1, Zenon
      <4>. QED
        BY <3>1, <3>3, <4>2, Zenon DEF StartIn, BeforeIn
    <3>. QED
      BY <3>2, <3>3
  <2>7. /\ HeaderIn(c, W, n)
        /\ \A x \in 1 .. l : c[w.offset + x] = Fill
    <3>1. W[n].number = o.number /\ W[n].length = l /\ W[n].offset = w.offset
      BY <1>10, <2>4
    <3>2. o.number - BeforeIn(W, n) = delta
      BY <1>5, <2>6 DEF delta
    <3>. DEFINE p == Len(buffer)
    <3>3. /\ c[p + 1] = Nibble(delta) * 16 + Nibble(l)
          /\ ExtensionIn(c, delta, p + 1) /\ ExtensionIn(c, l, p + 1 + e)
          /\ \A x \in 1 .. l : c[p + 1 + e + f + x] = Fill
      BY <1>12, Zenon DEF OptionAt, e, f
    <3>4. w.offset = p + 1 + e + f
      BY <2>2
    <3>. HIDE DEF p
    <3>5. StartIn(W, n) = p
      BY <2>6 DEF p
    <3>. QED
      BY <1>7, <3>1, <3>2, <3>3, <3>4, <3>5, Zenon DEF HeaderIn, e, f
  <2>8. \A i \in 1 .. n : i \in 1 .. Len(written) \/ i = n
    BY <1>2
  <2>9. \A i \in 1 .. n :
           /\ HeaderIn(c, W, i) /\ W[i].offset + W[i].length <= Len(c)
           /\ \A x \in 1 .. W[i].length : c[W[i].offset + x] = Fill
    <3>1. W[n].length = l /\ W[n].offset = w.offset
      BY <1>10, <2>4
    <3>2. w.offset + l <= Len(c)
      BY <1>2, <1>13, <1>14, <2>2
    <3>. QED
      BY <2>5, <2>7, <2>8, <3>1, <3>2, Zenon
  <2>10. StartIn(W, n + 1) = Len(c)
    <3>1. n + 1 # 1 /\ (n + 1) - 1 = n
      BY <1>2
    <3>2. StartIn(W, n + 1) = w.offset + l
      BY <1>10, <2>4, <3>1, Zenon DEF StartIn
    <3>. QED
      BY <2>2, <3>2, Zenon
  <2>11. End' = Len(c)
    BY <2>1, <2>4, <2>10, Zenon DEF End
  <2>12. \A i \in 1 .. n : /\ W[i].number = message.options[i].number
                           /\ W[i].length = message.options[i].length
    <3>1. /\ W[n].number = message.options[n].number
          /\ W[n].length = message.options[n].length
      BY <1>10, <2>4 DEF o, l
    <3>2. \A i \in 1 .. Len(written) : /\ written[i].number = message.options[i].number
                                       /\ written[i].length = message.options[i].length
      BY <1>2, Zenon DEF OptionsLaid
    <3>. QED
      BY <2>4, <2>8, <3>1, <3>2, Zenon
  <2>13. ASSUME NEW i \in 1 .. n, NEW j \in 1 .. n, i < j
         PROVE  W[i].offset + W[i].length <= StartIn(W, j)
    <3>1. i \in 1 .. Len(written)
      BY <1>2, <2>13
    <3>2. written[i].offset + written[i].length <= End
      BY <1>2, <3>1, Zenon DEF OptionsLaid
    <3>3. CASE j = n
      BY <1>4, <2>4, <2>6, <3>1, <3>2, <3>3, Zenon
    <3>4. CASE j \in 1 .. Len(written)
      <4>1. written[i].offset + written[i].length <= StartIn(written, j)
        BY <1>2, <2>13, <3>1, <3>4, Zenon DEF OptionsLaid
      <4>. QED
        BY <2>4, <2>5, <3>1, <3>4, <4>1, Zenon
    <3>. QED
      BY <2>8, <3>3, <3>4
  <2>14. OptionsLaid'
    <3>1. Len(W) <= Len(message.options)
      BY <1>3, <2>4 DEF N
    <3>2. \A i \in 1 .. Len(W) : W[i].offset + W[i].length <= Len(c)
      BY <2>4, <2>9, Zenon
    <3>. QED
      BY <2>1, <2>4, <2>9, <2>11, <2>12, <2>13, <3>1, <3>2, Zenon DEF OptionsLaid
  <2>15. ValuesLaid'
    BY <2>1, <2>4, <2>9, Zenon DEF ValuesLaid
  <2>16. PacketBuilt'
    <3>1. "build" \notin Complete
      BY DEF Complete, Reading
    <3>2. OptionSizes(message.options)' = z
      BY <2>1 DEF z
    <3>. QED
      BY <1>14, <2>1, <2>4, <2>11, <3>1, <3>2, Zenon DEF PacketBuilt
  <2>17. Len(c) <= MAX_UDP_PAYLOAD
    BY <1>13, <1>15 DEF HasSpace
  <2>. QED
    BY <1>1, <1>12, <2>1, <2>4, <2>14, <2>15, <2>16, <2>17, BuildingKeeps
<1>16. CASE ~fits
  <2>0. ~HasSpace(buffer, Len(bytes)) => 4 + Total(z) > MAX_UDP_PAYLOAD
    <3>. DEFINE s == Sums(z)[n]
                T == Total(z)
                k == Len(bytes)
                p == Len(buffer)
    <3>1. p + k = 4 + s /\ s <= T /\ s \in Nat /\ T \in Nat
      BY <1>4, <1>13, <1>14
    <3>2. HasSpace(buffer, Len(bytes)) <=> p + k <= MAX_UDP_PAYLOAD
      BY DEF HasSpace
    <3>. HIDE DEF s, T, k, p
    <3>3. ~(p + k <= MAX_UDP_PAYLOAD) => 4 + T > MAX_UDP_PAYLOAD
      BY <1>2, <3>1
    <3>. QED
      BY <3>2, <3>3, Zenon DEF T
  <2>. HIDE DEF fits, hmac_fits
  <2>1. CASE o.number = HMAC
    <3>1. BufferFull
      BY <1>1, <1>16, <2>1, Zenon
    <3>. DEFINE D == DatagramSize(level)
                T == Total(z)
                P == Len(payload)
    <3>0. /\ D \in Nat /\ 4 + T <= D /\ T \in Nat /\ P \in Nat
          /\ D = 4 + T + (1 + P) \/ (D = 4 + T /\ P = 0)
      <4>1. payload = <<>> => P = 0
        OBVIOUS
      <4>. QED
        BY <1>2, <1>4, <4>1, Zenon
    <3>. HIDE DEF D, T, P
    <3>2. ~HasSpace(buffer, Len(bytes)) => D > MAX_UDP_PAYLOAD
      BY <1>2, <2>0, <3>0 DEF T
    <3>3. ~hmac_fits => D > MAX_UDP_PAYLOAD
      <4>1. UriLength + HmacFields <= T
        BY <1>2, HmacInputFits DEF z, T
      <4>2. UriLength \in Int
        BY <1>2, UriSumsAre
      <4>3. MAX_UDP_PAYLOAD <= HmacInputSize
        BY SizeAssumption DEF HmacInputSize
      <4>. QED
        BY <1>2, <3>0, <4>1, <4>2, <4>3 DEF hmac_fits, HmacFields, HmacInputSize, P
    <3>4. DatagramSize(level) > MAX_UDP_PAYLOAD
      BY <1>16, <3>2, <3>3, Zenon DEF fits, D
    <3>. QED
      BY <1>1, <3>1, <3>4, BufferFullCInv
  <2>2. CASE o.number # HMAC
    <3>1. GiveUp /\ UNCHANGED message /\ UNCHANGED reading
      BY <1>1, <1>16, <2>2, Zenon
    <3>2. ~HasSpace(buffer, Len(bytes))
      BY <1>16, <2>2, Zenon DEF fits
    <3>3. 1 \in 1 .. Len(message.payloads)
      BY <1>2
    <3>4. DatagramSize(1) \in Nat /\ 4 + Total(z) <= DatagramSize(1)
      BY <1>4, <3>3, Zenon
    <3>5. DatagramSize(1) > MAX_UDP_PAYLOAD
      BY <1>2, <1>4, <2>0, <3>2, <3>4
    <3>. QED
      BY <1>1, <3>1, <3>5, GiveUpCInv
  <2>. QED
    BY <2>1, <2>2
<1>. QED
  BY <1>15, <1>16, Zenon

-------------------------------------------------------------------------------
(***************************************************************************)
(* The theorems                                                             *)
(***************************************************************************)

\* CInv is invariant.
THEOREM CInvHolds == Spec => []CInv
<1>1. Init => CInv
  BY InitCInv
<1>2. CInv /\ [Next]_vars => CInv'
  <2>. SUFFICES ASSUME CInv, [Next]_vars
                PROVE  CInv'
    OBVIOUS
  <2>1. CASE EncodeTLV
    BY <2>1, EncodeTLVCInv
  <2>2. CASE BuildCoAPHeader
    BY <2>2, HeaderCInv
  <2>3. CASE EncodeCoAPOption
    BY <2>3, EncodeOptionCInv
  <2>4. CASE FinalizePacket
    BY <2>4, FinalizeCInv
  <2>5. CASE StartFinder
    BY <2>5, StartFinderCInv
  <2>6. CASE FindOption
    BY <2>6, FindOptionCInv
  <2>7. CASE FindPayload
    BY <2>7, FindPayloadCInv
  <2>8. CASE InjectBadFrame
    BY <2>8, InjectCInv
  <2>9. CASE \E n \in CutLength \cup {Len(buffer)} : n <= Len(buffer) /\ Arrive(n)
    BY <2>9, ArriveCInv
  <2>10. CASE ExtractURIString
    BY <2>10, ExtractURICInv
  <2>11. CASE ParseSigNetOptions
    BY <2>11, ParseOptionsCInv
  <2>12. CASE ParseTLVBlock
    BY <2>12, ParseTLVCInv
  <2>13. CASE UNCHANGED vars
    BY <2>13 DEF vars, CInv, CodecTypeOK, FieldsOK, OptionsLaid, ValuesLaid, NothingRead,
                 PayloadBuilt, PacketBuilt, HmacSpoilt, FinderFollows, FinderAgrees, UriRead,
                 OptionsRead, TlvsRead, Arrived, HighestLevel, FailedForAReason, End, Encoded,
                 StandsAtOption, ReadSoFar, Blocks, UriLength, DatagramSize
  <2>. QED
    BY <2>1, <2>2, <2>3, <2>4, <2>5, <2>6, <2>7, <2>8, <2>9, <2>10, <2>11, <2>12, <2>13
    DEF Next
<1>. QED
  BY <1>1, <1>2, PTL DEF Spec

\* Types, and neither buffer is ever longer than a datagram may be: HasSpace is
\* asked before every Encode of sig-net-coap.cpp and sig-net-tlv.cpp.
THEOREM CodecTypeCorrect == Spec => []CodecTypeOK
<1>1. CInv => CodecTypeOK
  BY DEF CInv
<1>. QED
  BY <1>1, CInvHolds, PTL

\* Every datagram is exactly as large as its parts and at the highest query level
\* that fits, and none is given up that had a chance: whatever the message and
\* MAX_UDP_PAYLOAD, SendPollReplyWithQueryLevel stops at the first level that fits.
THEOREM EveryBuildFitsOrFails == Spec => []FitsOrFails
<1>1. CInv => FitsOrFails
  <2>. SUFFICES ASSUME CInv
                PROVE  FitsOrFails
    OBVIOUS
  <2>1. ASSUME phase \in {"built", "find", "found"} \cup Reading
        PROVE  /\ Len(buffer) = DatagramSize(level) /\ UriLength < UriStringSize
               /\ level = Len(message.payloads) \/ DatagramSize(level + 1) > MAX_UDP_PAYLOAD
    <3>1. phase \in Complete /\ phase \notin {"payload", "failed"}
      BY <2>1 DEF Complete, Reading
    <3>2. /\ IsMessage(message) /\ PacketBuilt /\ FieldsOK
          /\ level \in 1 .. Len(message.payloads) /\ Len(payload) \in Nat
      BY <3>1, CompleteTypes DEF CInv, CodecTypeOK
    <3>3. /\ End = 4 + Total(OptionSizes(message.options))
          /\ Len(buffer) = End + (IF payload = <<>> THEN 0 ELSE 1 + Len(payload))
      BY <3>1, <3>2 DEF PacketBuilt
    <3>4. Encoded(Len(Blocks(level))) /\ UriLength < UriStringSize
      BY <3>1 DEF CInv, PayloadBuilt
    <3>5. Len(payload) = Total(TlvSizes(Blocks(level)))
      <4>1. Total(TlvSizes(Blocks(level)))
              = Sums(TlvSizes(Blocks(level)))[Len(Blocks(level))]
        BY <3>2, TlvSumsAre
      <4>. QED
        BY <3>4, <4>1 DEF Encoded
    <3>6. payload = <<>> <=> Blocks(level) = <<>>
      <4>1. payload \in Seq(Int) /\ Blocks(level) \in Seq(Int)
        BY <3>2, TlvSumsAre DEF FieldsOK
      <4>2. /\ Blocks(level) = <<>> => Total(TlvSizes(Blocks(level))) = 0
            /\ Len(Blocks(level)) > 0 => Total(TlvSizes(Blocks(level))) > 0
        BY <3>2, DatagramSizeIs
      <4>3. (Len(payload) = 0 <=> payload = <<>>)
            /\ (Len(Blocks(level)) = 0 <=> Blocks(level) = <<>>)
            /\ Len(Blocks(level)) \in Nat
        BY <4>1
      <4>4. Len(Blocks(level)) = 0 \/ Len(Blocks(level)) > 0
        BY <4>3
      <4>5. Total(TlvSizes(Blocks(level))) > 0 => Len(payload) # 0
        BY <3>2, <3>5
      <4>. QED
        BY <3>5, <4>2, <4>3, <4>4, <4>5, Zenon
    <3>7. Len(buffer) = DatagramSize(level)
      BY <3>3, <3>5, <3>6, Zenon DEF DatagramSize
    <3>8. HighestLevel
      BY DEF CInv
    <3>. QED
      BY <3>4, <3>7, <3>8 DEF HighestLevel
  <2>2. ASSUME phase = "failed"
        PROVE  \/ UriLength >= UriStringSize
               \/ Contains(Blocks(level), Unencodable)
               \/ DatagramSize(1) > MAX_UDP_PAYLOAD
    BY <2>2 DEF CInv, FailedForAReason
  <2>. QED
    BY <2>1, <2>2, Zenon DEF FitsOrFails
<1>. QED
  BY <1>1, CInvHolds, PTL

\* The node reads what was built, wherever a datagram is cut: options in their
\* places while it reads, all of them and the TLVs when it accepts; it accepts
\* whole datagrams only, and a damaged one fails at its HMAC.
THEOREM EveryReadIsAsBuilt == Spec => []ParsedAsBuilt
<1>1. CInv => ParsedAsBuilt
  <2>. SUFFICES ASSUME CInv, phase \in Reading
                PROVE  /\ IsPrefix(parsed, written)
                       /\ pos <= size \/ phase = "rejected"
                       /\ phase = "accepted" =>
                             /\ size = Len(buffer) /\ ~damaged
                             /\ parsed = written /\ blocks = Blocks(level)
                             /\ uri_length = UriLength
                       /\ phase = "rejected" => size < Len(buffer) \/ payload = <<>>
                       /\ phase = "hmac_failed" => size < Len(buffer) \/ damaged
    BY DEF ParsedAsBuilt
  <2>1. /\ FieldsOK /\ PacketBuilt /\ IsMessage(message) /\ phase \in Complete
        /\ level \in 1 .. Len(message.payloads)
        /\ Len(parsed) \in Nat /\ Len(written) \in Nat /\ Len(parsed) <= Len(written)
        /\ \A i \in 1 .. Len(parsed) : parsed[i] = written[i]
        /\ parsed \in Seq(Field) /\ written \in Seq(Field) /\ blocks \in Seq(Int)
        /\ Len(buffer) \in Nat /\ Len(payload) \in Nat
    <3>1. FieldsOK /\ CodecTypeOK
      BY DEF CInv
    <3>. QED
      BY <3>1, ReadingTypes DEF FieldsOK, CodecTypeOK
  <2>2. IsPrefix(parsed, written)
    <3>. DEFINE s == SubSeq(parsed, 1, Len(parsed))
                t == SubSeq(written, 1, Len(parsed))
    <3>1. /\ s \in Seq(Field) /\ Len(s) = Len(parsed)
          /\ \A i \in 1 .. Len(parsed) : s[i] = parsed[i]
      BY <2>1
    <3>2. /\ t \in Seq(Field) /\ Len(t) = Len(parsed)
          /\ \A i \in 1 .. Len(parsed) : t[i] = written[i]
      BY <2>1
    <3>. HIDE DEF s, t
    <3>3. s = t
      BY <2>1, <3>1, <3>2, SeqEqual
    <3>. QED
      BY <2>1, <3>3 DEF IsPrefix, s, t
  <2>3. phase \in {"tlvs", "accepted"} =>
           /\ size = Len(buffer) /\ ~damaged /\ uri_length = UriLength /\ payload # <<>>
           /\ Len(parsed) = Len(written) /\ Len(blocks) <= Len(Blocks(level))
           /\ \A i \in 1 .. Len(blocks) : blocks[i] = Blocks(level)[i]
           /\ pos = End + 1 + Sums(TlvSizes(Blocks(level)))[Len(blocks)]
           /\ phase = "accepted" => Len(blocks) = Len(Blocks(level))
    BY DEF CInv, TlvsRead
  <2>4. pos <= size \/ phase = "rejected"
    <3>1. CASE phase = "uri"
      BY <3>1 DEF CInv, UriRead
    <3>2. CASE phase = "options"
      BY <3>2 DEF CInv, OptionsRead
    <3>3. CASE phase = "hmac_failed"
      BY <3>3 DEF CInv, Arrived
    <3>4. CASE phase \in {"tlvs", "accepted"}
      <4>1. Encoded(Len(Blocks(level)))
        BY <3>4 DEF CInv, PayloadBuilt
      <4>2. Len(buffer) = End + (IF payload = <<>> THEN 0 ELSE 1 + Len(payload))
        BY <2>1 DEF PacketBuilt
      <4>3. End \in Nat
        BY <2>1, CompleteTypes
      <4>. DEFINE f == Sums(TlvSizes(Blocks(level)))
                  k == Len(blocks)
                  N == Len(Blocks(level))
                  P == Len(payload)
      <4>4. k \in Nat /\ k <= N /\ N \in Nat
        BY <2>1, <2>3, <3>4, TlvSumsAre
      <4>5. f[k] <= f[N] /\ f[k] \in Nat
        BY <2>1, <4>4, TlvSumsAre
      <4>6. /\ P = f[N] /\ P \in Nat /\ size = End + (1 + P) /\ pos = End + 1 + f[k]
        BY <2>1, <2>3, <3>4, <4>1, <4>2, Zenon DEF Encoded
      <4>. HIDE DEF f, k, N, P
      <4>7. End + 1 + f[k] <= End + (1 + P)
        BY <4>3, <4>5, <4>6
      <4>. QED
        BY <4>6, <4>7, Zenon
    <3>. QED
      BY <3>1, <3>2, <3>3, <3>4 DEF Reading
  <2>5. ASSUME phase = "accepted"
        PROVE  parsed = written /\ blocks = Blocks(level)
    <3>1. parsed = written
      BY <2>1, <2>3, <2>5, SeqEqual
    <3>2. Blocks(level) \in Seq(Int)
      BY <2>1, TlvSumsAre
    <3>3. /\ Len(blocks) = Len(Blocks(level))
          /\ \A i \in 1 .. Len(blocks) : blocks[i] = Blocks(level)[i]
      BY <2>3, <2>5
    <3>4. blocks = Blocks(level)
      BY <2>1, <3>2, <3>3, SeqEqual
    <3>. QED
      BY <3>1, <3>4
  <2>6. /\ phase = "rejected" => size < Len(buffer) \/ payload = <<>>
        /\ phase = "hmac_failed" => size < Len(buffer) \/ damaged
    BY DEF CInv, Arrived
  <2>. QED
    BY <2>2, <2>3, <2>4, <2>5, <2>6
<1>. QED
  BY <1>1, CInvHolds, PTL

\* FindCoapOptionAndPayload finds the HMAC and the payload where the builder put
\* them, whatever the options' numbers and lengths.
THEOREM FinderFindsBuilt == Spec => []FinderAgrees
<1>1. CInv => FinderAgrees
  BY DEF CInv
<1>. QED
  BY <1>1, CInvHolds, PTL

===============================================================================

-------------------------------- MODULE Wire --------------------------------
(***************************************************************************)
(* How octets become requests: a TZSP datagram or a captured frame is      *)
(* unwrapped (internal/capture, internal/tzsp), the synth engine builds    *)
(* packets of its own (radiusdecode/build.go), and the forwarder parses    *)
(* what it is given (radiusdecode/packet.go), to go on with Packets.       *)
(*                                                                         *)
(* Positions are those of the sequences, from 1; the offsets of the code   *)
(* count from 0, so an offset is the number of octets before it.           *)
(***************************************************************************)
EXTENDS Packets, SequencesExt

CONSTANT Input   \* what arrives, or what the synth engine is asked for (WireAssumption)

VARIABLES input,  \* the Input in hand, or None
          event   \* the event that was made of it: octets and source, or None

wireVars == <<input, event>>
allVars == <<vars, wireVars>>
----------------------------------------------------------------------------
(* RADIUS. *)
Byte == 0 .. 255
Bytes == Seq(Byte)
Uint16(hi, lo) == 256 * hi + lo
PutUint16(n) == <<(n \div 256) % 256, n % 256>>
Uint32(n) == PutUint16(n \div 65536) \o PutUint16(n % 65536)

Attribute(typ, v) == [type |-> typ, value |-> Octets(Len(v), v)]

\* Mutant: the header is not counted.
EncodeAVPShort(a) == <<a.type, Len(a.value.octets) % 256>> \o a.value.octets

(* The length is cut to eight bits. *)
EncodeAVP(a) == <<a.type, (2 + Len(a.value.octets)) % 256>> \o a.value.octets
EncodeAVPs(attrs) == FlattenSeq([i \in DOMAIN attrs |-> EncodeAVP(attrs[i])])

(* The length of the packet is cut to sixteen bits. *)
EncodePacket(p) ==
    LET body == p.auth.octets \o EncodeAVPs(p.attrs)
    IN  <<p.code, p.ident>> \o PutUint16(4 + Len(body)) \o body

Length(raw) == Uint16(raw[3], raw[4])

(* The attribute at offset, if it is whole. *)
NextAVP(body, offset) == offset + body[offset + 2]
IsWhole(body, offset) ==
    offset + 2 <= Len(body) /\ NextAVP(body, offset) \in offset + 2 .. Len(body)
AVPAt(body, offset) ==
    Attribute(body[offset + 1], SubSeq(body, offset + 3, NextAVP(body, offset)))

\* Mutant: what does not fill the packet ends the attributes.
AVPsFromStops(body, offset, parse) ==
    IF ~IsWhole(body, offset) THEN <<>>
    ELSE <<AVPAt(body, offset)>> \o parse[NextAVP(body, offset)]

(* The attributes from offset on, or None if they do not fill the body;    *)
(* parse gives those of the later offsets.                                 *)
AVPsFrom(body, offset, parse) ==
    IF offset = Len(body) THEN <<>>
    ELSE IF ~IsWhole(body, offset) THEN None
    ELSE IF parse[NextAVP(body, offset)] = None THEN None
    ELSE <<AVPAt(body, offset)>> \o parse[NextAVP(body, offset)]
ParseAVPs(body) ==
    LET parse[offset \in 20 .. Len(body)] == AVPsFrom(body, offset, parse)
    IN  parse[20]

(* What follows the length is not looked at. *)
LooksLikeRadius(raw) == Len(raw) >= 20 /\ Length(raw) \in 20 .. Len(raw)
PacketIn(body) ==
    [code |-> body[1], ident |-> body[2],
     auth |-> Octets(16, SubSeq(body, 5, 20)), attrs |-> ParseAVPs(body)]
ParsePacket(raw) ==
    IF ~LooksLikeRadius(raw) THEN None
    ELSE LET p == PacketIn(SubSeq(raw, 1, Length(raw)))
         IN  IF p.attrs = None THEN None ELSE p
----------------------------------------------------------------------------
(* Packets that are built.  An attribute that is not asked for is left     *)
(* out.  Nothing is built if the address of the NAS is none, or not IPv4   *)
(* (None), if a session has no name, or if the packet would be too long.   *)
Optional(typ, v) == IF v = <<>> THEN <<>> ELSE <<Attribute(typ, v)>>
Counter(n) == IF n > 0 THEN Uint32(n) ELSE <<>>
Identity(a) ==
    <<Attribute(1, a.userName), Attribute(4, a.nasIP)>>
    \o Optional(31, a.callingStation) \o Optional(32, a.nasIdentifier)
Session(a) ==
    <<Attribute(44, a.sessionID), Attribute(40, Uint32(a.statusType))>>
    \o Optional(46, Counter(a.sessionTime)) \o Optional(42, Counter(a.inputOctets))
    \o Optional(43, Counter(a.outputOctets)) \o Optional(49, Counter(a.terminateCause))

BuildPacket(code, a, attrs) ==
    LET raw == EncodePacket([code |-> code, ident |-> a.ident,
                             auth |-> Octets(16, a.auth), attrs |-> attrs])
    IN  IF Len(raw) > 65535 THEN <<>> ELSE raw
BuildAccessRequest(a) ==
    IF a.nasIP = None THEN <<>> ELSE BuildPacket(AccessRequest, a, Identity(a))
BuildAccountingRequest(a) ==
    IF a.nasIP = None \/ a.sessionID = <<>> THEN <<>>
    ELSE BuildPacket(AccountingRequest, a, Identity(a) \o Session(a))
----------------------------------------------------------------------------
(* TZSP: four octets, tags, the payload.  The tag 1 ends the tags; any     *)
(* other has a length.                                                     *)
NextTag(d, offset) == offset + 2 + d[offset + 2]

\* Mutant: the octet of the length is not skipped.
TagsFromShort(d, offset, skip) ==
    IF offset = Len(d) THEN offset
    ELSE IF d[offset + 1] = 1 THEN offset + 1
    ELSE IF offset + 1 = Len(d) \/ NextTag(d, offset) - 1 \notin offset + 1 .. Len(d) THEN None
    ELSE skip[NextTag(d, offset) - 1]

(* Where the tags from offset on end, or None if they are cut off; skip    *)
(* gives it for the later offsets.                                         *)
TagsFrom(d, offset, skip) ==
    IF offset = Len(d) THEN offset
    ELSE IF d[offset + 1] = 1 THEN offset + 1
    ELSE IF offset + 1 = Len(d) THEN None
    ELSE IF NextTag(d, offset) > Len(d) THEN None
    ELSE skip[NextTag(d, offset)]
AfterTags(d) ==
    LET skip[offset \in 4 .. Len(d)] == TagsFrom(d, offset, skip)
    IN  skip[4]
ParseTZSP(d) ==
    IF Len(d) < 4 THEN None
    ELSE IF AfterTags(d) = None THEN None
    ELSE SubSeq(d, AfterTags(d) + 1, Len(d))

(* What gopacket makes of a frame: UDP in IPv4 in Ethernet, or nothing.    *)
IsUDP(frame) == Len(frame) >= 42 /\ SubSeq(frame, 13, 14) = <<8, 0>> /\ frame[24] = 17
Ports(frame) == {Uint16(frame[35], frame[36]), Uint16(frame[37], frame[38])}
Carried(frame) == SubSeq(frame, 43, Len(frame))
UDP(frame) == [octets |-> Carried(frame), src |-> SubSeq(frame, 27, 30)]

RadiusPorts == {1812, 1813}
Nothing == [octets |-> <<>>, src |-> None]

(* The RADIUS packet in the payload of a TZSP datagram: the payload itself *)
(* if it looks like one, else what a frame carries to or from its ports.   *)
ExtractUDPPayload(payload) ==
    IF LooksLikeRadius(payload) THEN [octets |-> payload, src |-> None]
    ELSE IF IsUDP(payload) /\ Ports(payload) \cap RadiusPorts # {} THEN UDP(payload)
    ELSE Nothing

(* A sniffed frame needs no port, but must look like RADIUS. *)
SniffedPayload(frame) ==
    IF IsUDP(frame) /\ LooksLikeRadius(Carried(frame)) THEN UDP(frame) ELSE Nothing

(* What an input gives.  A datagram that is no TZSP, or carries no RADIUS, *)
(* gives nothing.                                                          *)
Mirrored(d) == IF ParseTZSP(d) = None THEN Nothing ELSE ExtractUDPPayload(ParseTZSP(d))
Built(i) ==
    [octets |-> IF i.kind = "access" THEN BuildAccessRequest(i.params)
                                     ELSE BuildAccountingRequest(i.params),
     src |-> i.params.nasIP]
----------------------------------------------------------------------------
(* What may arrive: any octets, and what is known of the packet they       *)
(* carry (of, or None), in a datagram after tags, as it is or in a frame.  *)
Tag == {t \in Bytes : Len(t) >= 2 /\ t[1] # 1 /\ t[2] = Len(t) - 2}
Carries(frame, p) == IsUDP(frame) /\ LooksLikeRadius(p) /\ Carried(frame) = p
Datagrams ==
    {i \in [kind : {"tzsp"}, octets : Bytes, tags : Seq(Tag), frame : Bytes, of : {None} \cup Bytes] :
       i.of # None =>
         /\ Len(i.octets) >= 4
         /\ SubSeq(i.octets, 5, Len(i.octets)) = FlattenSeq(i.tags) \o <<1>> \o i.frame
         /\ \/ i.frame = i.of /\ LooksLikeRadius(i.of)
            \/ Carries(i.frame, i.of) /\ Ports(i.frame) \cap RadiusPorts # {}}
Frames ==
    {i \in [kind : {"sniffed"}, octets : Bytes, of : {None} \cup Bytes] :
       i.of # None => Carries(i.octets, i.of)}

(* Packets of octets, and events. *)
OctetValue == {v \in [len : Nat, octets : Bytes] : v.len = Len(v.octets)}
OctetAVP == [type : Byte, value : OctetValue]
OctetPacket ==
    {p \in [code : Byte, ident : Byte, auth : OctetValue, attrs : Seq(OctetAVP)] : p.auth.len = 16}
Event == [octets : Bytes, src : {None} \cup Bytes]

(* What the synth engine may be asked for. *)
Params ==
    [userName : Bytes, nasIP : {None} \cup {n \in Bytes : Len(n) = 4}, callingStation : Bytes,
     nasIdentifier : Bytes, ident : Byte, auth : {n \in Bytes : Len(n) = 16},
     sessionID : Bytes, statusType : Nat, sessionTime : Nat,
     inputOctets : Nat, outputOctets : Nat, terminateCause : Nat]

ASSUME WireAssumption ==
    /\ \A i \in Input :
         \/ i \in Datagrams \/ i \in Frames
         \/ i \in [kind : {"access", "accounting"}, params : Params]
    /\ None \notin Nat \cup Bytes \cup Input \cup Event \cup OctetPacket \cup Seq(OctetAVP)
----------------------------------------------------------------------------
Emit(i, e) ==
    /\ input' = i /\ event' = (IF e.octets = <<>> THEN None ELSE e)
    /\ UNCHANGED vars

ReceiveTZSP(i) == i.kind = "tzsp" /\ Emit(i, Mirrored(i.octets))
Sniff(i) == i.kind = "sniffed" /\ Emit(i, SniffedPayload(i.octets))

(* The synth engine goes on if nothing could be built. *)
Synthesize(i) == i.kind \in {"access", "accounting"} /\ Emit(i, Built(i))

(* The forwarder parses the event; what it cannot parse it does not send.  *)
Decode ==
    /\ event # None /\ IsRequest(event.octets[1])
    /\ ParsePacket(event.octets) # None
    /\ Capture(ParsePacket(event.octets), event.src)
    /\ event' = None /\ input' = None

WireInit == Init /\ input = None /\ event = None

(* Bound: what arrives is the first thing that happens, and is dealt with  *)
(* before anything else does.                                              *)
WireNext ==
    \/ /\ input = None /\ request = None
       /\ \E i \in Input : ReceiveTZSP(i) \/ Sniff(i) \/ Synthesize(i)
    \/ Decode
    \/ input = None /\ Next /\ UNCHANGED wireVars

WireSpec == WireInit /\ [][WireNext]_allVars
----------------------------------------------------------------------------
(* A packet that parses is the one that was read: encoding it again gives  *)
(* the same octets, less what follows its length.  PrepareForward relies   *)
(* on it for every attribute it does not touch.                            *)
OctetsKept ==
    event # None =>
        LET p == ParsePacket(event.octets)
        IN  p # None => EncodePacket(p) = SubSeq(event.octets, 1, Length(event.octets))

(* A packet that is built parses, and says what it was asked to say, as    *)
(* long as every value fits its attribute: of a longer one the length      *)
(* wraps, and nothing in the code prevents it.                             *)
Fits(a) ==
    \A v \in {a.userName, a.callingStation, a.nasIdentifier, a.sessionID} : Len(v) <= 253
Asked(i) ==
    LET a == i.params
    IN  {<<1, a.userName>>, <<4, a.nasIP>>, <<31, a.callingStation>>, <<32, a.nasIdentifier>>}
        \cup IF i.kind = "access" THEN {}
             ELSE {<<44, a.sessionID>>, <<40, Uint32(a.statusType)>>,
                   <<46, Counter(a.sessionTime)>>, <<42, Counter(a.inputOctets)>>,
                   <<43, Counter(a.outputOctets)>>, <<49, Counter(a.terminateCause)>>}
ValueOf(p, typ) == IF HasAttribute(p, typ) THEN AttributeValue(p, typ).octets ELSE <<>>
BuiltAsAsked ==
    event # None /\ input.kind \in {"access", "accounting"} /\ Fits(input.params) =>
        LET p == ParsePacket(event.octets)
        IN  /\ p # None
            /\ p.code = IF input.kind = "access" THEN AccessRequest ELSE AccountingRequest
            /\ p.ident = input.params.ident /\ p.auth.octets = input.params.auth
            /\ \A x \in Asked(input) : ValueOf(p, x[1]) = x[2]

(* A datagram or frame gives the packet it carries (of), whatever its tags *)
(* and however it is wrapped, except that a mirrored frame whose own first *)
(* octets look like RADIUS is taken for a packet itself.                   *)
Unwraps ==
    input # None /\ input.kind \in {"tzsp", "sniffed"} /\ input.of # None =>
        /\ event # None
        /\ \/ event.octets = input.of
           \/ input.kind = "tzsp" /\ LooksLikeRadius(input.frame) /\ event.octets = input.frame
----------------------------------------------------------------------------
(* The inductive invariant: the event in hand is what was made of the      *)
(* input in hand.                                                          *)
EventOf(i) ==
    CASE i.kind = "tzsp" -> Mirrored(i.octets)
      [] i.kind = "sniffed" -> SniffedPayload(i.octets)
      [] OTHER -> Built(i)

EventIsMade ==
    /\ input = None => event = None
    /\ input # None =>
         /\ input \in Input
         /\ event = IF EventOf(input).octets = <<>> THEN None ELSE EventOf(input)
=============================================================================

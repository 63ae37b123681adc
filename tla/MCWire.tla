------------------------------- MODULE MCWire -------------------------------
(* Instances of Wire, and so of Packets, for TLC. *)
EXTENDS Wire, TLC

CONSTANTS s1, s2, user, random

NAS == <<10, 0, 0, 1>>
Other == <<10, 0, 0, 2>>
Self == <<10, 0, 0, 9>>
----------------------------------------------------------------------------
(* Requests with digests.  The NAS is named or not, or twice; a signature  *)
(* is in the middle or at the end, or one of the wrong length before it.   *)
User == [type |-> 1, value |-> Octets(3, user)]
NAS4(a) == [type |-> NASIPAddress, value |-> Octets(4, a)]
NAS6(a) == [type |-> NASIPv6Address, value |-> Octets(16, a)]
Signed == [type |-> MessageAuthenticator, value |-> Zeroed]
Malformed == [type |-> MessageAuthenticator, value |-> Octets(3, random)]

Attributes ==
    {<<User>>, <<User, NAS4(NAS)>>, <<NAS6(NAS), User>>, <<NAS4(NAS), NAS6(Self), NAS4(Other)>>,
     <<User, Signed>>, <<Signed, NAS4(NAS), User>>, <<NAS6(NAS), Malformed, Signed>>,
     <<Malformed, NAS4(Other)>>}

Unsigned ==
    [code : {AccessRequest, AccountingRequest}, ident : {0},
     auth : {Octets(16, random)}, attrs : Attributes]

(* As a NAS signs: the signature first, then the Authenticator. *)
SignedBy(p, s) ==
    SetAuthenticator(SetSignature(p, HMAC(SetSignature(p, Zeroed), s)), s)

MCCaptured == Unsigned \cup {SignedBy(p, s1) : p \in Unsigned}
MCAddress == {NAS, Self}
MCLocal == {None, Octets(4, Self), Octets(16, Self)}
----------------------------------------------------------------------------
(* Octets. *)
Auth == [i \in 1 .. 16 |-> i]
Long(n) == [i \in 1 .. n |-> 7]
Radius(code, length, body) == <<code, 5>> \o PutUint16(length) \o Auth \o body

(* Every body of up to three octets that may be types, lengths and values, *)
(* with the length of the packet right, one too short and one too long.    *)
Bodies == UNION {[1 .. n -> {0, 1, 2, 3, 80}] : n \in 0 .. 3}
Answers == {Radius(2, 20 + Len(b) + d, b) : b \in Bodies, d \in {-1, 0, 1}}

Requests ==
    {Radius(code, 20 + Len(b), b) :
       code \in {AccessRequest, AccountingRequest},
       b \in {<<>>, <<1, 3, 65>>, <<4, 6>> \o NAS, <<80, 18>> \o Auth \o <<4, 6>> \o Other}}

(* The tags of a datagram: none, one with or without data, two. *)
Tags == {<<>>, <<<<10, 0>>>>, <<<<10, 1, 1>>>>, <<<<41, 2, 9, 9>>, <<10, 1, 1>>>>}
TZSP(tags, payload) == <<1, 0, 0, 1>> \o FlattenSeq(tags) \o <<1>> \o payload

(* A frame to a station whose address begins with mac. *)
Ethernet(mac, src, port, payload) ==
    mac \o <<1, 1>> \o <<2, 2, 2, 2, 2, 2>> \o <<8, 0>>
    \o <<69, 0, 0, 0, 0, 0, 0, 0, 64, 17, 0, 0>> \o src \o Other
    \o PutUint16(1024) \o PutUint16(port) \o <<0, 0, 0, 0>> \o payload

Datagram(tags, frame, of) ==
    [kind |-> "tzsp", octets |-> TZSP(tags, frame), tags |-> tags, frame |-> frame, of |-> of]
Sniffed(frame, of) == [kind |-> "sniffed", octets |-> frame, of |-> of]

Wrapped(r) ==
    {Ethernet(mac, NAS, port, r) : mac \in {<<2, 2, 200, 1>>, <<2, 2, 0, 40>>}, port \in RadiusPorts}

MCDatagrams ==
    {Datagram(<<>>, a, None) : a \in Answers}
    \cup UNION {{Datagram(tags, r, r) : tags \in Tags} : r \in Requests}
    \cup UNION {{Datagram(tags, f, r) : f \in Wrapped(r), tags \in Tags} : r \in Requests}
    \cup {[kind |-> "tzsp", octets |-> o, tags |-> <<>>, frame |-> <<>>, of |-> None] :
            o \in {<<>>, <<1, 0, 0, 1>>, <<1, 0, 0, 1, 10>>, <<1, 0, 0, 1, 10, 9, 1>>,
                   TZSP(<<>>, <<9, 9>>), TZSP(<<>>, Ethernet(<<2, 2, 200, 1>>, NAS, 53, <<9, 9>>))}}

MCFrames ==
    UNION {{Sniffed(f, r) : f \in Wrapped(r)} : r \in Requests}
    \cup {Sniffed(Ethernet(<<2, 2, 2, 2>>, Self, 1645, r), r) : r \in Requests}
    \cup {Sniffed(Ethernet(<<2, 2, 2, 2>>, NAS, 1812, <<9, 9>>), None), Sniffed(<<9>>, None)}

(* Values that are missing, short, as long as an attribute can hold, and   *)
(* one longer, which wraps.                                                *)
AskedFor ==
    [userName |-> <<65>>, nasIP |-> NAS, callingStation |-> <<66>>, nasIdentifier |-> <<67>>,
     ident |-> 3, auth |-> Auth, sessionID |-> <<68>>, statusType |-> 2,
     sessionTime |-> 66051, inputOctets |-> 1, outputOctets |-> 1, terminateCause |-> 1]
MCParams ==
    {[AskedFor EXCEPT !.userName = u, !.nasIdentifier = n] :
       u \in {<<>>, Long(253), Long(254)}, n \in {<<>>, Long(253)}}
    \cup {[AskedFor EXCEPT !.sessionTime = t, !.inputOctets = i, !.callingStation = <<>>] :
            t \in {0, 66051}, i \in {0, 1}}
    \cup {[AskedFor EXCEPT !.sessionID = Long(n)] : n \in {253, 254}}
    \cup {[AskedFor EXCEPT !.nasIP = None], [AskedFor EXCEPT !.sessionID = <<>>]}

MCInput ==
    MCDatagrams \cup MCFrames
    \cup {[kind |-> k, params |-> a] : k \in {"access", "accounting"}, a \in MCParams}
=============================================================================

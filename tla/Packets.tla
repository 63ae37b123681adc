------------------------------ MODULE Packets ------------------------------
(***************************************************************************)
(* internal/radiusdecode, as the forwarder uses it: a request that was     *)
(* captured is rewritten so that the server answers this host, and signed  *)
(* anew if the secret of its NAS is known.                                 *)
(*                                                                         *)
(* A packet is its fields and its attributes in order.  The digests are    *)
(* symbolic: MD5 and HMAC-MD5 give values that are equal exactly if what   *)
(* they were computed from is, and that no other value equals.             *)
(***************************************************************************)
EXTENDS Naturals, Sequences, FiniteSetsExt

CONSTANTS None,
          Address,   \* addresses, as the NAS catalog spells them
          Secret,    \* shared secrets
          Ident,     \* identifiers
          Captured,  \* the packets that may be captured
          Local      \* addresses of sockets, as values; None if unspecified

VARIABLES secretOf,  \* Address -> the secret in its row, or None
          request,   \* the request in hand, parsed, or None
          source,    \* the host it came from, or None
          sent       \* what was made of it, or None

vars == <<secretOf, request, source, sent>>

ValuesOf(p) == {p.auth} \cup {p.attrs[i].value : i \in DOMAIN p.attrs}
AVP(V) == [type : Nat, value : V]
PacketOf(V) == [code : Nat, ident : Nat, auth : V, attrs : Seq(AVP(V))]
IsPacket(p) == p \in PacketOf(ValuesOf(p))

ASSUME PacketsAssumption ==
    /\ None \notin Secret /\ Ident \subseteq Nat
    /\ \A p \in Captured : p # None /\ IsPacket(p)
    /\ \A local \in Local \ {None} : local.len \in {4, 16}
----------------------------------------------------------------------------
(* Types of attributes that the rewriting knows, and codes of requests. *)
NASIPAddress == 4
MessageAuthenticator == 80
NASIPv6Address == 95
AccessRequest == 1
AccountingRequest == 4

IsRequest(code) == code \in {AccessRequest, AccountingRequest}

(* Values: of an attribute, or of the Authenticator. *)
Octets(n, x) == [len |-> n, octets |-> x]
MD5(p, s) == [len |-> 16, md5 |-> p, key |-> s]
HMAC(p, s) == [len |-> 16, hmac |-> p, key |-> s]
Zeroed == [len |-> 16, zeroed |-> TRUE]

At(p, typ) == {i \in DOMAIN p.attrs : p.attrs[i].type = typ}
HasAttribute(p, typ) == At(p, typ) # {}
AttributeValue(p, typ) == p.attrs[Min(At(p, typ))].value

\* Mutant: the attribute is always added.
SetAttributeAppends(p, typ, v) ==
    [p EXCEPT !.attrs = Append(@, [type |-> typ, value |-> v])]

(* The first attribute of the type is replaced; if there is none, it is    *)
(* added at the end.                                                       *)
SetAttribute(p, typ, v) ==
    IF HasAttribute(p, typ)
    THEN [p EXCEPT !.attrs[Min(At(p, typ))].value = v]
    ELSE [p EXCEPT !.attrs = Append(@, [type |-> typ, value |-> v])]

(* The address a packet gives for its NAS.  net.IP prints a mapped IPv4    *)
(* address as the IPv4 address, so both lengths may spell one address.     *)
HasNASIP(p, typ, n) == HasAttribute(p, typ) /\ AttributeValue(p, typ).len = n
NASIPString(p) ==
    CASE HasNASIP(p, NASIPAddress, 4) -> AttributeValue(p, NASIPAddress).octets
      [] ~HasNASIP(p, NASIPAddress, 4) /\ HasNASIP(p, NASIPv6Address, 16) ->
             AttributeValue(p, NASIPv6Address).octets
      [] OTHER -> None
----------------------------------------------------------------------------
(* Signing. *)
Signatures(p) == {i \in At(p, MessageAuthenticator) : p.attrs[i].value.len = 16}
Signature(p) == p.attrs[Min(Signatures(p))].value
SetSignature(p, v) ==
    IF Signatures(p) = {} THEN p
    ELSE [p EXCEPT !.attrs[Min(Signatures(p))].value = v]

(* The Authenticator of an Accounting-Request is computed while the        *)
(* Message-Authenticator is still zero, which is filled in last.           *)
SetAuthenticator(p, s) ==
    IF p.code = AccountingRequest
    THEN [p EXCEPT !.auth = MD5([p EXCEPT !.auth = Zeroed], s)]
    ELSE p
SignPacket(p, s) ==
    LET unsigned == SetAuthenticator(SetSignature(p, Zeroed), s)
    IN  SetSignature(unsigned, HMAC(unsigned, s))

(* What a server that has the secret checks. *)
AuthenticatorIsMD5(p, s) ==
    p.code = AccountingRequest => p.auth = MD5([p EXCEPT !.auth = Zeroed], s)
SignatureIsHMAC(p, s) ==
    Signatures(p) # {} => Signature(p) = HMAC(SetSignature(p, Zeroed), s)
Authentic(p, s) == AuthenticatorIsMD5(p, s) /\ SignatureIsHMAC(p, s)
----------------------------------------------------------------------------
(* Rewriting. *)

\* Mutant: a signature is not looked for.
CanRewriteSigned(p) == p.code = AccessRequest
CanRewrite(p) == p.code = AccessRequest /\ ~HasAttribute(p, MessageAuthenticator)

NeedsSignature(p) ==
    p.code = AccountingRequest \/ HasAttribute(p, MessageAuthenticator)

(* The NAS is said to be at local, the address of the socket, if that is   *)
(* specified.                                                              *)
SetNAS(p, local) ==
    CASE local # None /\ local.len = 4 -> SetAttribute(p, NASIPAddress, local)
      [] local # None /\ local.len = 16 -> SetAttribute(p, NASIPv6Address, local)
      [] OTHER -> p

PrepareForward(p, local, ident, secret) ==
    IF ~CanRewrite(p) /\ secret = None
    THEN [packet |-> p, rewritten |-> FALSE, identifier |-> p.ident]
    ELSE LET q == SetNAS([p EXCEPT !.ident = ident], local)
         IN  [packet |-> IF secret # None /\ NeedsSignature(q)
                         THEN SignPacket(q, secret) ELSE q,
              rewritten |-> TRUE, identifier |-> ident]

(* The secret is that of the NAS the packet names, else of the host that   *)
(* sent it; src is None if the packet comes from a file or an engine.      *)
NASOf(p, src) == IF NASIPString(p) # None THEN NASIPString(p) ELSE src
LookupSecret(p, src) ==
    IF NASOf(p, src) \in Address THEN secretOf[NASOf(p, src)] ELSE None
----------------------------------------------------------------------------
Init ==
    /\ secretOf \in [Address -> Secret \cup {None}]
    /\ request = None /\ source = None
    /\ sent = None

(* A user edits a NAS. *)
UpdateNAS(a, s) ==
    /\ secretOf' = [secretOf EXCEPT ![a] = s]
    /\ UNCHANGED <<request, source, sent>>

(* A request is captured on its way from src, or comes from an engine. *)
Capture(p, src) ==
    /\ IsRequest(p.code)
    /\ request' = p /\ source' = src /\ sent' = None
    /\ UNCHANGED secretOf

(* The forwarder's own request is seen on the network, and taken for one   *)
(* of a NAS.                                                               *)
CaptureOwn ==
    /\ sent # None /\ sent.local # None
    /\ Capture(sent.prep.packet, sent.local.octets)

Forward(src, local, ident) ==
    /\ request # None
    /\ LET secret == LookupSecret(request, src)
       IN  sent' = [prep |-> PrepareForward(request, local, ident, secret),
                    local |-> local, secret |-> secret]
    /\ UNCHANGED <<secretOf, request, source>>

(* The calls differ in what they know of the sender. *)
MaybeForward(local, ident) == Forward(source, local, ident)
ForwardBytes(local, ident) == Forward(None, local, ident)
----------------------------------------------------------------------------
Next ==
    \/ \E a \in Address, s \in Secret \cup {None} : UpdateNAS(a, s)
    \/ \E p \in Captured, src \in Address \cup {None} : Capture(p, src)
    \/ CaptureOwn
    \/ \E local \in Local, ident \in Ident :
         MaybeForward(local, ident) \/ ForwardBytes(local, ident)

Spec == Init /\ [][Next]_vars
----------------------------------------------------------------------------
(* What the forwarder makes of a request, the server it is for accepts:    *)
(* with the secret of the NAS it is signed by that secret, and without it  *)
(* every secret that verified the original verifies what is sent.  The     *)
(* Authenticator of a packet that has a signature too is another matter    *)
(* (SignedAsSaid).                                                         *)
StillAuthentic ==
    sent # None =>
        LET p == sent.prep.packet
        IN  IF sent.secret = None
            THEN \A s \in Secret : Authentic(request, s) => Authentic(p, s)
            ELSE /\ SignatureIsHMAC(p, sent.secret)
                 /\ Signatures(p) = {} => AuthenticatorIsMD5(p, sent.secret)

(* internal/radiusdecode/sign.go:9: the Authenticator of an                *)
(* Accounting-Request is MD5(packet with zero authenticator + secret).     *)
SignedAsSaid ==
    sent # None /\ sent.secret # None => AuthenticatorIsMD5(sent.prep.packet, sent.secret)

(* The answer comes back to this host, and finds its conversation: the     *)
(* packet carries the identifier under which it is tracked; if rewritten,  *)
(* it names this host as its NAS.  Nothing else in it has changed.         *)
Rewritable(typ) == typ \in {NASIPAddress, NASIPv6Address, MessageAuthenticator}
AnswerComesBack ==
    sent # None =>
        LET p == sent.prep.packet
            last == Len(request.attrs)
            typ == IF sent.local.len = 4 THEN NASIPAddress ELSE NASIPv6Address
        IN  /\ p.ident = sent.prep.identifier /\ p.code = request.code
            /\ p.code = AccessRequest => p.auth = request.auth
            /\ Len(p.attrs) \in {last, last + 1}
            /\ \A i \in 1 .. last :
                 /\ p.attrs[i].type = request.attrs[i].type
                 /\ ~Rewritable(p.attrs[i].type) => p.attrs[i] = request.attrs[i]
            /\ IF sent.prep.rewritten
               THEN sent.local # None =>
                      HasAttribute(p, typ) /\ AttributeValue(p, typ) = sent.local
               ELSE p = request
=============================================================================

--------------------------- MODULE PacketsProofs ---------------------------
(***************************************************************************)
(* What rewriting and signing do to a packet, for all packets, addresses   *)
(* and secrets; that parsing, building and unwrapping lose nothing, for    *)
(* all octets; and so what Wire promises.                                  *)
(*                                                                         *)
(* Hypotheses and conclusions that hold a quantifier are predicates with   *)
(* a name (Joined, Written, Laid, Ends...), expanded where they are used.  *)
(***************************************************************************)
EXTENDS Wire, DataLemmas

(* The attributes of a type are positions, of which the first is one. *)
LEMMA AtPositions ==
  ASSUME NEW V, NEW p \in PacketOf(V), NEW typ
  PROVE  /\ At(p, typ) \subseteq 1 .. Len(p.attrs)
         /\ Signatures(p) \subseteq At(p, MessageAuthenticator)
         /\ At(p, typ) # {} => Min(At(p, typ)) \in At(p, typ)
         /\ Signatures(p) # {} => Min(Signatures(p)) \in Signatures(p)
<1>1. At(p, typ) \subseteq 1 .. Len(p.attrs) /\ At(p, typ) \in SUBSET Nat
  BY DEF PacketOf, At
<1>2. Signatures(p) \subseteq 1 .. Len(p.attrs) /\ Signatures(p) \in SUBSET Nat
  BY DEF PacketOf, At, Signatures
<1>3. Signatures(p) \subseteq At(p, MessageAuthenticator)
  BY DEF Signatures
<1> QED BY <1>1, <1>2, <1>3, MinNat

(* A packet of values of V, among others, is a packet. *)
LEMMA PacketOfIsPacket ==
  ASSUME NEW V, NEW p \in PacketOf(V)
  PROVE  IsPacket(p)
<1> DEFINE W == ValuesOf(p)
<1>1. p.auth \in W
  BY DEF ValuesOf
<1>2. \A i \in 1 .. Len(p.attrs) : p.attrs[i] \in AVP(W)
  <2> SUFFICES ASSUME NEW i \in 1 .. Len(p.attrs)
               PROVE  p.attrs[i] \in AVP(W)
    OBVIOUS
  <2>1. p.attrs[i] \in [type : Nat, value : V]
    <3>1. p.attrs \in Seq(AVP(V))
      BY DEF PacketOf
    <3>2. p.attrs[i] \in AVP(V)
      BY <3>1
    <3> QED BY <3>2 DEF AVP
  <2>2. p.attrs[i].value \in W
    BY DEF PacketOf, ValuesOf
  <2> QED BY <2>1, <2>2 DEF AVP
<1> HIDE DEF W
<1>3. p.attrs \in Seq(AVP(W))
  BY <1>2 DEF PacketOf
<1>4. p \in PacketOf(W)
  BY <1>1, <1>3 DEF PacketOf
<1> QED BY <1>4 DEF IsPacket, W

(* The value of one attribute is replaced. *)
LEMMA ReplaceValue ==
  ASSUME NEW V, NEW s \in Seq(AVP(V)),
         NEW n \in 1 .. Len(s), NEW v \in V
  PROVE  LET r == [s EXCEPT ![n] = [s[n] EXCEPT !.value = v]]
         IN  /\ r \in Seq(AVP(V))
             /\ Len(r) = Len(s) /\ DOMAIN r = 1 .. Len(s) /\ DOMAIN s = 1 .. Len(s)
             /\ \A i \in 1 .. Len(s) : r[i].type = s[i].type /\ (i # n => r[i] = s[i])
             /\ r[n].value = v
<1> DEFINE a == [s[n] EXCEPT !.value = v]
           r == [s EXCEPT ![n] = a]
<1>1. s[n] \in AVP(V)
  OBVIOUS
<1>2. a \in AVP(V) /\ a.type = s[n].type /\ a.value = v
  BY <1>1 DEF AVP
<1> HIDE DEF a
<1>4. r \in Seq(AVP(V)) /\ Len(r) = Len(s) /\ DOMAIN r = 1 .. Len(s) /\ DOMAIN s = 1 .. Len(s)
  BY <1>2
<1>5. \A i \in 1 .. Len(s) : r[i] = IF i = n THEN a ELSE s[i]
  OBVIOUS
<1> HIDE DEF r
<1>6. /\ \A i \in 1 .. Len(s) : r[i].type = s[i].type /\ (i # n => r[i] = s[i])
      /\ r[n].value = v
  BY <1>2, <1>5
<1> QED BY <1>4, <1>6 DEF a, r

(* SetAttribute sets the first attribute of its type and no other. *)
LEMMA SetAttributeSets ==
  ASSUME NEW V, NEW p \in PacketOf(V), NEW typ \in Nat, NEW v \in V
  PROVE  LET q == SetAttribute(p, typ, v)
         IN  /\ q \in PacketOf(V)
             /\ q.code = p.code /\ q.ident = p.ident /\ q.auth = p.auth
             /\ Len(q.attrs) \in {Len(p.attrs), Len(p.attrs) + 1}
             /\ \A i \in 1 .. Len(p.attrs) :
                  /\ q.attrs[i].type = p.attrs[i].type
                  /\ p.attrs[i].type # typ => q.attrs[i] = p.attrs[i]
             /\ HasAttribute(q, typ) /\ AttributeValue(q, typ) = v
             /\ \A t \in Nat \ {typ} : At(q, t) = At(p, t)
<1> DEFINE q == SetAttribute(p, typ, v)
<1>0. p.attrs \in Seq(AVP(V)) /\ Len(p.attrs) \in Nat /\ DOMAIN p.attrs = 1 .. Len(p.attrs)
  BY DEF PacketOf
<1>1. CASE HasAttribute(p, typ)
  <2> DEFINE n == Min(At(p, typ))
  <2>1. n \in At(p, typ) /\ n \in 1 .. Len(p.attrs) /\ p.attrs[n].type = typ
    BY <1>1, AtPositions DEF HasAttribute, At
  <2>2. q = [p EXCEPT !.attrs = [p.attrs EXCEPT ![n] = [p.attrs[n] EXCEPT !.value = v]]]
    BY <1>1 DEF SetAttribute
  <2> HIDE DEF n
  <2>4. q.attrs = [p.attrs EXCEPT ![n] = [p.attrs[n] EXCEPT !.value = v]]
    BY <2>2 DEF PacketOf
  <2>5. /\ q.attrs \in Seq(AVP(V)) /\ Len(q.attrs) = Len(p.attrs)
        /\ DOMAIN q.attrs = 1 .. Len(p.attrs)
        /\ \A i \in 1 .. Len(p.attrs) :
             q.attrs[i].type = p.attrs[i].type /\ (i # n => q.attrs[i] = p.attrs[i])
        /\ q.attrs[n].value = v
    BY <1>0, <2>1, <2>4, ReplaceValue
  <2> HIDE DEF q
  <2>6. q \in PacketOf(V) /\ q.code = p.code /\ q.ident = p.ident /\ q.auth = p.auth
    BY <2>2, <2>4, <2>5 DEF PacketOf
  <2>9. \A t : At(q, t) = At(p, t)
    BY <1>0, <2>5 DEF At
  <2>10. HasAttribute(q, typ) /\ AttributeValue(q, typ) = v
    BY <1>1, <2>5, <2>9 DEF HasAttribute, AttributeValue, n
  <2> QED BY <2>1, <2>5, <2>6, <2>9, <2>10 DEF q
<1>2. CASE ~HasAttribute(p, typ)
  <2> DEFINE a == [type |-> typ, value |-> v]
             n == Len(p.attrs) + 1
  <2>1. q = [p EXCEPT !.attrs = Append(p.attrs, a)]
    BY <1>2 DEF SetAttribute
  <2>2. a \in AVP(V)
    BY DEF AVP
  <2>3. q.attrs = Append(p.attrs, a)
    BY <2>1 DEF PacketOf
  <2>a. a.type = typ /\ a.value = v
    OBVIOUS
  <2> HIDE DEF q, a
  <2>4. /\ q.attrs \in Seq(AVP(V)) /\ Len(q.attrs) = n /\ DOMAIN q.attrs = 1 .. n
        /\ q.attrs[n] = a
        /\ \A i \in 1 .. Len(p.attrs) : q.attrs[i] = p.attrs[i]
    BY <1>0, <2>2, <2>3
  <2>5. q \in PacketOf(V) /\ q.code = p.code /\ q.ident = p.ident /\ q.auth = p.auth
    BY <2>1, <2>3, <2>4 DEF PacketOf
  <2>6. At(p, typ) = {}
    BY <1>2 DEF HasAttribute
  <2>7. At(q, typ) = {n}
    <3>1. \A i \in 1 .. Len(p.attrs) : q.attrs[i].type # typ
      BY <1>0, <2>4, <2>6 DEF At
    <3>2. \A i \in 1 .. n : i = n \/ i \in 1 .. Len(p.attrs)
      BY <1>0
    <3>3. n \in 1 .. n /\ q.attrs[n].type = typ
      BY <1>0, <2>4, <2>a
    <3> HIDE DEF n
    <3> QED BY <2>4, <3>1, <3>2, <3>3 DEF At
  <2>8. HasAttribute(q, typ) /\ AttributeValue(q, typ) = v
    <3>1. {n} \in SUBSET Nat /\ {n} # {}
      BY <1>0
    <3> HIDE DEF n
    <3>2. Min({n}) = n
      BY <3>1, MinNat
    <3> QED BY <2>4, <2>7, <2>a, <3>2 DEF HasAttribute, AttributeValue
  <2>9. \A t \in Nat \ {typ} : At(q, t) = At(p, t)
    BY <1>0, <2>4, <2>a DEF At
  <2> QED BY <1>0, <2>4, <2>5, <2>8, <2>9 DEF q
<1> QED BY <1>1, <1>2

(* SetSignature replaces the value of the signature, if there is one, and  *)
(* can be undone: of two values, the second stands.                        *)
LEMMA SetSignatureSets ==
  ASSUME NEW V, NEW p \in PacketOf(V), NEW v \in V, v.len = 16
  PROVE  LET q == SetSignature(p, v)
         IN  /\ q \in PacketOf(V)
             /\ q.code = p.code /\ q.ident = p.ident /\ q.auth = p.auth
             /\ Len(q.attrs) = Len(p.attrs)
             /\ \A i \in 1 .. Len(p.attrs) :
                  /\ q.attrs[i].type = p.attrs[i].type
                  /\ p.attrs[i].type # MessageAuthenticator => q.attrs[i] = p.attrs[i]
             /\ \A t : At(q, t) = At(p, t)
             /\ Signatures(q) = Signatures(p)
             /\ Signatures(p) # {} => Signature(q) = v
             /\ \A w : SetSignature(q, w) = SetSignature(p, w)
<1> DEFINE q == SetSignature(p, v)
<1>0. p.attrs \in Seq(AVP(V)) /\ Len(p.attrs) \in Nat /\ DOMAIN p.attrs = 1 .. Len(p.attrs)
  BY DEF PacketOf
<1>1. CASE Signatures(p) = {}
  BY <1>0, <1>1 DEF SetSignature
<1>2. CASE Signatures(p) # {}
  <2> DEFINE n == Min(Signatures(p))
  <2>1. /\ n \in Signatures(p) /\ n \in 1 .. Len(p.attrs)
        /\ p.attrs[n].type = MessageAuthenticator
    <3>1. n \in Signatures(p)
      BY <1>2, AtPositions
    <3> HIDE DEF n
    <3>2. n \in At(p, MessageAuthenticator)
      BY <3>1 DEF Signatures
    <3> QED BY <1>0, <3>1, <3>2 DEF At
  <2>2. \A w : SetSignature(p, w) =
          [p EXCEPT !.attrs = [p.attrs EXCEPT ![n] = [p.attrs[n] EXCEPT !.value = w]]]
    BY <1>2 DEF SetSignature
  <2> HIDE DEF n
  <2>3. q.attrs = [p.attrs EXCEPT ![n] = [p.attrs[n] EXCEPT !.value = v]]
    BY <2>2 DEF PacketOf
  <2>4. /\ q.attrs \in Seq(AVP(V)) /\ Len(q.attrs) = Len(p.attrs)
        /\ DOMAIN q.attrs = 1 .. Len(p.attrs)
        /\ \A i \in 1 .. Len(p.attrs) :
             q.attrs[i].type = p.attrs[i].type /\ (i # n => q.attrs[i] = p.attrs[i])
        /\ q.attrs[n].value = v
    BY <1>0, <2>1, <2>3, ReplaceValue
  <2>5. q = [p EXCEPT !.attrs = q.attrs]
    BY <2>2, <2>3
  <2> HIDE DEF q
  <2>6. q \in PacketOf(V) /\ q.code = p.code /\ q.ident = p.ident /\ q.auth = p.auth
    BY <2>4, <2>5 DEF PacketOf
  <2>7. \A t : At(q, t) = At(p, t)
    BY <1>0, <2>4 DEF At
  <2>8. Signatures(q) = Signatures(p)
    <3> SUFFICES ASSUME NEW i \in At(p, MessageAuthenticator)
                 PROVE  q.attrs[i].value.len = 16 <=> p.attrs[i].value.len = 16
      BY <2>7 DEF Signatures
    <3>1. CASE i = n
      BY <2>1, <2>4, <3>1 DEF Signatures
    <3>2. CASE i # n
      BY <1>0, <2>4, <3>2 DEF At
    <3> QED BY <3>1, <3>2
  <2>9. Signature(q) = v
    BY <2>4, <2>8 DEF Signature, n
  <2>10. ASSUME NEW w
         PROVE  SetSignature(q, w) = SetSignature(p, w)
    <3>1. SetSignature(q, w) =
            [q EXCEPT !.attrs = [q.attrs EXCEPT ![n] = [q.attrs[n] EXCEPT !.value = w]]]
      BY <1>2, <2>8 DEF SetSignature, n
    <3>2. p.attrs[n] \in AVP(V) /\ q.attrs[n] \in AVP(V)
      BY <1>0, <2>1, <2>4
    <3>3. [q.attrs[n] EXCEPT !.value = w] = [p.attrs[n] EXCEPT !.value = w]
      BY <2>1, <2>4, <3>2 DEF AVP
    <3> DEFINE a == [p.attrs[n] EXCEPT !.value = w]
    <3> HIDE DEF a
    <3>4. [q.attrs EXCEPT ![n] = a] = [p.attrs EXCEPT ![n] = a]
      BY <1>0, <2>1, <2>4
    <3>5. \A s : [q EXCEPT !.attrs = s] = [p EXCEPT !.attrs = s]
      BY <2>5
    <3> QED BY <2>2, <3>1, <3>3, <3>4, <3>5 DEF a
  <2> QED BY <1>0, <2>1, <2>4, <2>6, <2>7, <2>8, <2>9, <2>10 DEF q
<1> QED BY <1>1, <1>2

(* A packet of some values is one of more. *)
LEMMA PacketOfMore ==
  ASSUME NEW V, NEW W, V \subseteq W, NEW p \in PacketOf(V)
  PROVE  p \in PacketOf(W)
<1>1. AVP(V) \subseteq AVP(W)
  BY DEF AVP
<1>2. p.attrs \in Seq(AVP(W))
  <2>1. p.attrs \in Seq(AVP(V))
    BY DEF PacketOf
  <2> QED BY <1>1, <2>1
<1> QED BY <1>2 DEF PacketOf

(* The Authenticator of an Accounting-Request is set, and nothing else. *)
LEMMA SetAuthenticatorSets ==
  ASSUME NEW V, NEW p \in PacketOf(V), NEW s,
         MD5([p EXCEPT !.auth = Zeroed], s) \in V
  PROVE  LET q == SetAuthenticator(p, s)
         IN  /\ q \in PacketOf(V)
             /\ q.code = p.code /\ q.ident = p.ident /\ q.attrs = p.attrs
             /\ p.code # AccountingRequest => q = p
             /\ AuthenticatorIsMD5(q, s)
<1> DEFINE m == MD5([p EXCEPT !.auth = Zeroed], s)
           q == SetAuthenticator(p, s)
<1>1. CASE p.code = AccountingRequest
  <2>1. q = [p EXCEPT !.auth = m]
    BY <1>1 DEF SetAuthenticator
  <2>2. [q EXCEPT !.auth = Zeroed] = [p EXCEPT !.auth = Zeroed]
    BY <2>1 DEF PacketOf
  <2>3. q.auth = m
    BY <2>1 DEF PacketOf
  <2>4. AuthenticatorIsMD5(q, s)
    BY <2>2, <2>3 DEF AuthenticatorIsMD5
  <2> HIDE DEF m
  <2>5. m \in V
    BY DEF m
  <2>6. q \in PacketOf(V) /\ q.code = p.code /\ q.ident = p.ident /\ q.attrs = p.attrs
    BY <2>1, <2>5 DEF PacketOf
  <2> QED BY <1>1, <2>4, <2>6
<1>2. CASE p.code # AccountingRequest
  BY <1>2 DEF SetAuthenticator, AuthenticatorIsMD5
<1> QED BY <1>1, <1>2

(* A packet that is signed carries a signature that verifies if it has     *)
(* room for one, and an Authenticator that verifies if it has not.         *)
LEMMA SignPacketSigns ==
  ASSUME NEW V, NEW p \in PacketOf(V), NEW s
  PROVE  LET r == SignPacket(p, s)
         IN  /\ IsPacket(r)
             /\ r.code = p.code /\ r.ident = p.ident
             /\ p.code # AccountingRequest => r.auth = p.auth
             /\ Len(r.attrs) = Len(p.attrs)
             /\ \A i \in 1 .. Len(p.attrs) :
                  /\ r.attrs[i].type = p.attrs[i].type
                  /\ p.attrs[i].type # MessageAuthenticator => r.attrs[i] = p.attrs[i]
             /\ \A t : At(r, t) = At(p, t)
             /\ SignatureIsHMAC(r, s)
             /\ Signatures(r) = {} => AuthenticatorIsMD5(r, s)
<1> DEFINE z == SetSignature(p, Zeroed)
           m == MD5([z EXCEPT !.auth = Zeroed], s)
           u == SetAuthenticator(z, s)
           h == HMAC(u, s)
           r == SetSignature(u, h)
           W == V \cup {Zeroed, m, h}
<1>1. Zeroed.len = 16 /\ h.len = 16
  BY DEF Zeroed, HMAC
<1>2. r = SignPacket(p, s)
  BY DEF SignPacket
<1>3. p \in PacketOf(W) /\ Zeroed \in W /\ m \in W /\ h \in W
  BY PacketOfMore
<1> HIDE DEF W
<1>4. /\ z \in PacketOf(W)
      /\ z.code = p.code /\ z.ident = p.ident /\ z.auth = p.auth
      /\ Len(z.attrs) = Len(p.attrs)
      /\ \A i \in 1 .. Len(p.attrs) :
           /\ z.attrs[i].type = p.attrs[i].type
           /\ p.attrs[i].type # MessageAuthenticator => z.attrs[i] = p.attrs[i]
      /\ \A t : At(z, t) = At(p, t)
      /\ Signatures(z) = Signatures(p)
      /\ Signatures(p) # {} => Signature(z) = Zeroed
      /\ \A w : SetSignature(z, w) = SetSignature(p, w)
  BY <1>1, <1>3, SetSignatureSets
<1> HIDE DEF z
<1>5. /\ u \in PacketOf(W)
      /\ u.code = z.code /\ u.ident = z.ident /\ u.attrs = z.attrs
      /\ z.code # AccountingRequest => u = z
      /\ AuthenticatorIsMD5(u, s)
  BY <1>3, <1>4, SetAuthenticatorSets
<1>6. Signatures(u) = Signatures(z) /\ \A t : At(u, t) = At(z, t)
  BY <1>5 DEF Signatures, At
<1> HIDE DEF u
<1>7. /\ r \in PacketOf(W)
      /\ r.code = u.code /\ r.ident = u.ident /\ r.auth = u.auth
      /\ Len(r.attrs) = Len(u.attrs)
      /\ \A i \in 1 .. Len(u.attrs) :
           /\ r.attrs[i].type = u.attrs[i].type
           /\ u.attrs[i].type # MessageAuthenticator => r.attrs[i] = u.attrs[i]
      /\ \A t : At(r, t) = At(u, t)
      /\ Signatures(r) = Signatures(u)
      /\ Signatures(u) # {} => Signature(r) = h
      /\ \A w : SetSignature(r, w) = SetSignature(u, w)
  BY <1>1, <1>3, <1>5, SetSignatureSets
<1>8. SetSignature(u, Zeroed) = u
  <2>1. CASE Signatures(u) = {}
    BY <2>1 DEF SetSignature
  <2>2. CASE Signatures(u) # {}
    <3> DEFINE n == Min(Signatures(u))
    <3>1. n \in Signatures(u)
      BY <1>5, <2>2, AtPositions
    <3>2. u.attrs[n].value = Zeroed
      BY <1>4, <1>5, <1>6, <2>2 DEF Signature
    <3>3. SetSignature(u, Zeroed) =
            [u EXCEPT !.attrs = [u.attrs EXCEPT ![n] = [u.attrs[n] EXCEPT !.value = Zeroed]]]
      BY <2>2 DEF SetSignature
    <3> HIDE DEF n
    <3>4. u.attrs \in Seq(AVP(W)) /\ n \in 1 .. Len(u.attrs)
      <4>1. n \in At(u, MessageAuthenticator)
        BY <3>1 DEF Signatures
      <4> QED BY <1>5, <4>1 DEF At, PacketOf
    <3>5. u.attrs[n] \in AVP(W)
      BY <3>4
    <3>6. [u.attrs[n] EXCEPT !.value = Zeroed] = u.attrs[n]
      BY <3>2, <3>5 DEF AVP
    <3>7. [u.attrs EXCEPT ![n] = u.attrs[n]] = u.attrs
      BY <3>4
    <3>8. [u EXCEPT !.attrs = u.attrs] = u
      BY <1>5 DEF PacketOf
    <3> QED BY <3>3, <3>6, <3>7, <3>8
  <2> QED BY <2>1, <2>2
<1>9. SignatureIsHMAC(r, s)
  BY <1>7, <1>8 DEF SignatureIsHMAC
<1>10. Signatures(r) = {} => AuthenticatorIsMD5(r, s)
  <2> SUFFICES ASSUME Signatures(r) = {} PROVE AuthenticatorIsMD5(r, s)
    OBVIOUS
  <2>1. r = u
    BY <1>7 DEF SetSignature
  <2> QED BY <1>5, <2>1
<1>11. IsPacket(r)
  BY <1>7, PacketOfIsPacket
<1> HIDE DEF r
<1> QED BY <1>2, <1>4, <1>5, <1>6, <1>7, <1>9, <1>10, <1>11

(* SetNAS names the NAS, if there is an address to name, and leaves the    *)
(* signature and everything else alone.                                    *)
LEMMA SetNASSets ==
  ASSUME NEW V, NEW p \in PacketOf(V), NEW local \in Local \cap (V \cup {None})
  PROVE  LET q == SetNAS(p, local)
             typ == IF local.len = 4 THEN NASIPAddress ELSE NASIPv6Address
         IN  /\ q \in PacketOf(V)
             /\ q.code = p.code /\ q.ident = p.ident /\ q.auth = p.auth
             /\ Len(q.attrs) \in {Len(p.attrs), Len(p.attrs) + 1}
             /\ \A i \in 1 .. Len(p.attrs) :
                  /\ q.attrs[i].type = p.attrs[i].type
                  /\ ~Rewritable(p.attrs[i].type) => q.attrs[i] = p.attrs[i]
             /\ At(q, MessageAuthenticator) = At(p, MessageAuthenticator)
             /\ local # None => HasAttribute(q, typ) /\ AttributeValue(q, typ) = local
<1>1. CASE local = None
  <2>1. SetNAS(p, local) = p
    BY <1>1 DEF SetNAS
  <2> QED BY <1>1, <2>1 DEF PacketOf
<1>2. CASE local # None
  <2> DEFINE typ == IF local.len = 4 THEN NASIPAddress ELSE NASIPv6Address
             q == SetAttribute(p, typ, local)
  <2>1. local.len \in {4, 16} /\ local \in V
    BY <1>2, PacketsAssumption
  <2>2. SetNAS(p, local) = q
    BY <1>2, <2>1 DEF SetNAS
  <2>3. /\ typ \in Nat /\ MessageAuthenticator \in Nat \ {typ}
        /\ \A t : ~Rewritable(t) => t # typ
    BY DEF NASIPAddress, NASIPv6Address, MessageAuthenticator, Rewritable
  <2>4. /\ q \in PacketOf(V)
        /\ q.code = p.code /\ q.ident = p.ident /\ q.auth = p.auth
        /\ Len(q.attrs) \in {Len(p.attrs), Len(p.attrs) + 1}
        /\ \A i \in 1 .. Len(p.attrs) :
             /\ q.attrs[i].type = p.attrs[i].type
             /\ p.attrs[i].type # typ => q.attrs[i] = p.attrs[i]
        /\ HasAttribute(q, typ) /\ AttributeValue(q, typ) = local
        /\ \A t \in Nat \ {typ} : At(q, t) = At(p, t)
    <3> HIDE DEF typ
    <3> QED BY <2>1, <2>3, SetAttributeSets
  <2> HIDE DEF q
  <2> QED BY <2>2, <2>3, <2>4
<1> QED BY <1>1, <1>2

(* What may be said of a prepared request, given the original. *)
Prepared(p, prep, local, secret) ==
    LET q == prep.packet
        last == Len(p.attrs)
        typ == IF local.len = 4 THEN NASIPAddress ELSE NASIPv6Address
    IN  /\ IsPacket(q)
        /\ q.ident = prep.identifier /\ q.code = p.code
        /\ q.code = AccessRequest => q.auth = p.auth
        /\ Len(q.attrs) \in {last, last + 1}
        /\ \A i \in 1 .. last :
             /\ q.attrs[i].type = p.attrs[i].type
             /\ ~Rewritable(q.attrs[i].type) => q.attrs[i] = p.attrs[i]
        /\ IF prep.rewritten
           THEN local # None => HasAttribute(q, typ) /\ AttributeValue(q, typ) = local
           ELSE q = p
        /\ secret = None => \A s \in Secret : Authentic(p, s) => Authentic(q, s)
        /\ secret # None => /\ SignatureIsHMAC(q, secret)
                            /\ Signatures(q) = {} => AuthenticatorIsMD5(q, secret)

LEMMA PrepareForwardPrepares ==
  ASSUME NEW p, IsPacket(p), NEW local \in Local, NEW ident \in Ident, NEW secret
  PROVE  Prepared(p, PrepareForward(p, local, ident, secret), local, secret)
<1> DEFINE prep == PrepareForward(p, local, ident, secret)
           V == ValuesOf(p) \cup {local}
           b == [p EXCEPT !.ident = ident]
           q == SetNAS(b, local)
<1> SUFFICES Prepared(p, prep, local, secret)
  OBVIOUS
<1>0. p \in PacketOf(V)
  BY PacketOfMore DEF IsPacket
<1>1. CASE ~CanRewrite(p) /\ secret = None
  <2>1. prep.packet = p /\ ~prep.rewritten /\ prep.identifier = p.ident
    BY <1>1 DEF PrepareForward
  <2> QED BY <1>0, <1>1, <2>1 DEF Prepared, PacketOf
<1>2. CASE CanRewrite(p) \/ secret # None
  <2>1. local \in Local \cap (V \cup {None})
    OBVIOUS
  <2> HIDE DEF V
  <2>2. /\ b \in PacketOf(V)
        /\ b.code = p.code /\ b.ident = ident /\ b.auth = p.auth /\ b.attrs = p.attrs
    BY <1>0, PacketsAssumption DEF PacketOf
  <2> HIDE DEF b
  <2>3. /\ q \in PacketOf(V)
        /\ q.code = b.code /\ q.ident = b.ident /\ q.auth = b.auth
        /\ Len(q.attrs) \in {Len(b.attrs), Len(b.attrs) + 1}
        /\ \A i \in 1 .. Len(b.attrs) :
             /\ q.attrs[i].type = b.attrs[i].type
             /\ ~Rewritable(b.attrs[i].type) => q.attrs[i] = b.attrs[i]
        /\ At(q, MessageAuthenticator) = At(b, MessageAuthenticator)
        /\ LET typ == IF local.len = 4 THEN NASIPAddress ELSE NASIPv6Address
           IN  local # None => HasAttribute(q, typ) /\ AttributeValue(q, typ) = local
    BY <2>1, <2>2, SetNASSets
  <2>4. /\ prep.packet = IF secret # None /\ NeedsSignature(q) THEN SignPacket(q, secret) ELSE q
        /\ prep.rewritten /\ prep.identifier = ident
    BY <1>2 DEF PrepareForward, b
  <2> HIDE DEF q, prep
  <2>5. At(q, MessageAuthenticator) = At(p, MessageAuthenticator)
    BY <2>2, <2>3 DEF At
  <2>6. IsPacket(q)
    BY <2>3, PacketOfIsPacket
  <2>7. Len(p.attrs) \in Nat /\ Len(q.attrs) \in Nat
    BY <1>0, <2>3 DEF PacketOf
  <2>8. CASE secret # None /\ NeedsSignature(q)
    <3> DEFINE r == SignPacket(q, secret)
    <3>1. /\ IsPacket(r)
          /\ r.code = q.code /\ r.ident = q.ident
          /\ q.code # AccountingRequest => r.auth = q.auth
          /\ Len(r.attrs) = Len(q.attrs)
          /\ \A i \in 1 .. Len(q.attrs) :
               /\ r.attrs[i].type = q.attrs[i].type
               /\ q.attrs[i].type # MessageAuthenticator => r.attrs[i] = q.attrs[i]
          /\ \A t : At(r, t) = At(q, t)
          /\ SignatureIsHMAC(r, secret)
          /\ Signatures(r) = {} => AuthenticatorIsMD5(r, secret)
      BY <2>3, SignPacketSigns
    <3> HIDE DEF r
    <3>2. prep.packet = r
      BY <2>4, <2>8 DEF r
    <3>3. \A i \in 1 .. Len(p.attrs) :
            /\ r.attrs[i].type = p.attrs[i].type
            /\ ~Rewritable(r.attrs[i].type) => r.attrs[i] = p.attrs[i]
      BY <2>2, <2>3, <2>7, <3>1 DEF Rewritable
    <3>4. ASSUME local # None, NEW t \in {NASIPAddress, NASIPv6Address},
                 HasAttribute(q, t), AttributeValue(q, t) = local
          PROVE  HasAttribute(r, t) /\ AttributeValue(r, t) = local
      <4>1. Min(At(q, t)) \in At(q, t) /\ At(q, t) \subseteq 1 .. Len(q.attrs)
        BY <2>3, <3>4, AtPositions DEF HasAttribute
      <4> DEFINE n == Min(At(q, t))
      <4>2. n \in 1 .. Len(q.attrs) /\ q.attrs[n].type = t
        BY <4>1 DEF At
      <4>3. q.attrs[n].type # MessageAuthenticator
        BY <4>2 DEF NASIPAddress, NASIPv6Address, MessageAuthenticator
      <4>4. r.attrs[n] = q.attrs[n]
        BY <3>1, <4>2, <4>3
      <4> QED BY <3>1, <3>4, <4>4 DEF HasAttribute, AttributeValue
    <3>5. r.code = AccessRequest => r.auth = p.auth
      BY <2>2, <2>3, <3>1 DEF AccessRequest, AccountingRequest
    <3>6. /\ IsPacket(r) /\ r.ident = prep.identifier /\ r.code = p.code
          /\ Len(r.attrs) \in {Len(p.attrs), Len(p.attrs) + 1}
      BY <2>2, <2>3, <2>4, <3>1
    <3>7. LET typ == IF local.len = 4 THEN NASIPAddress ELSE NASIPv6Address
          IN  local # None => HasAttribute(r, typ) /\ AttributeValue(r, typ) = local
      BY <2>3, <3>4
    <3> QED BY <2>4, <2>8, <3>1, <3>2, <3>3, <3>5, <3>6, <3>7, Zenon DEF Prepared
  <2>9. CASE ~(secret # None /\ NeedsSignature(q))
    <3>1. prep.packet = q
      BY <2>4, <2>9
    <3>2. /\ q.code # AccountingRequest
          /\ Signatures(q) = {}
      <4>1. CASE secret = None
        <5>1. p.code = AccessRequest /\ At(p, MessageAuthenticator) = {}
          BY <1>2, <4>1 DEF CanRewrite, HasAttribute
        <5> QED BY <2>2, <2>3, <2>5, <5>1 DEF Signatures, AccessRequest, AccountingRequest
      <4>2. CASE secret # None
        BY <2>9, <4>2 DEF NeedsSignature, HasAttribute, Signatures
      <4> QED BY <4>1, <4>2
    <3>3. \A s : SignatureIsHMAC(q, s) /\ AuthenticatorIsMD5(q, s)
      BY <3>2 DEF SignatureIsHMAC, AuthenticatorIsMD5
    <3>4. \A i \in 1 .. Len(p.attrs) :
            /\ q.attrs[i].type = p.attrs[i].type
            /\ ~Rewritable(q.attrs[i].type) => q.attrs[i] = p.attrs[i]
      BY <2>2, <2>3
    <3>5. /\ q.ident = prep.identifier /\ q.code = p.code /\ q.auth = p.auth
          /\ Len(q.attrs) \in {Len(p.attrs), Len(p.attrs) + 1}
      BY <2>2, <2>3, <2>4
    <3> QED BY <2>3, <2>4, <2>6, <3>1, <3>3, <3>4, <3>5, Zenon DEF Prepared, Authentic
  <2> QED BY <2>8, <2>9
<1> QED BY <1>1, <1>2
----------------------------------------------------------------------------
(* The request in hand is a packet, and what was sent was made of it. *)
SentWasPrepared ==
    /\ request # None => IsPacket(request)
    /\ sent # None =>
         /\ request # None
         /\ sent.local \in Local
         /\ Prepared(request, sent.prep, sent.local, sent.secret)

LEMMA SentStaysPrepared == SentWasPrepared /\ [Next]_vars => SentWasPrepared'
<1> SUFFICES ASSUME SentWasPrepared, [Next]_vars
             PROVE  SentWasPrepared'
  OBVIOUS
<1>1. ASSUME NEW a, NEW s, UpdateNAS(a, s)
      PROVE  SentWasPrepared'
  BY <1>1 DEF UpdateNAS, SentWasPrepared
<1>2. ASSUME NEW p \in Captured, NEW src, Capture(p, src)
      PROVE  SentWasPrepared'
  BY <1>2, PacketsAssumption DEF Capture, SentWasPrepared
<1>3. CASE CaptureOwn
  BY <1>3 DEF CaptureOwn, Capture, SentWasPrepared, Prepared
<1>4. ASSUME NEW src, NEW local \in Local, NEW ident \in Ident,
             Forward(src, local, ident)
      PROVE  SentWasPrepared'
  <2> DEFINE secret == LookupSecret(request, src)
             prep == PrepareForward(request, local, ident, secret)
  <2>1. /\ request # None /\ IsPacket(request) /\ request' = request
        /\ sent' = [prep |-> prep, local |-> local, secret |-> secret]
    BY <1>4 DEF Forward, SentWasPrepared
  <2>2. Prepared(request, prep, local, secret)
    BY <2>1, PrepareForwardPrepares
  <2> HIDE DEF prep, secret
  <2>3. sent'.prep = prep /\ sent'.local = local /\ sent'.secret = secret
    BY <2>1
  <2> QED BY <2>1, <2>2, <2>3 DEF SentWasPrepared
<1>5. CASE UNCHANGED vars
  BY <1>5 DEF vars, SentWasPrepared
<1> QED BY <1>1, <1>2, <1>3, <1>4, <1>5 DEF Next, MaybeForward, ForwardBytes

LEMMA SentWasPreparedInvariant == Spec => []SentWasPrepared
<1>1. Init => SentWasPrepared
  BY DEF Init, SentWasPrepared
<1> QED BY <1>1, SentStaysPrepared, PTL DEF Spec

(* The server accepts what is sent if it accepts what was captured. *)
THEOREM SentIsAuthentic == Spec => []StillAuthentic
<1>1. SentWasPrepared => StillAuthentic
  BY DEF SentWasPrepared, Prepared, StillAuthentic
<1> QED BY <1>1, SentWasPreparedInvariant, PTL

(* Its answer comes back to this host under the identifier that is waited  *)
(* for, and the rest of the request is as it was captured.                 *)
THEOREM AnswersComeBack == Spec => []AnswerComesBack
<1>1. SentWasPrepared => AnswerComesBack
  BY DEF SentWasPrepared, Prepared, AnswerComesBack
<1> QED BY <1>1, SentWasPreparedInvariant, PTL
----------------------------------------------------------------------------
(* Octets. *)

LEMMA CutToByte ==
  ASSUME NEW n \in Nat
  PROVE  n % 256 \in Byte
BY DEF Byte

LEMMA PutUint16Puts ==
  ASSUME NEW n \in Nat
  PROVE  /\ PutUint16(n) \in Bytes /\ Len(PutUint16(n)) = 2
         /\ n < 65536 => Uint16(PutUint16(n)[1], PutUint16(n)[2]) = n
<1>1. (n \div 256) % 256 \in Byte /\ n % 256 \in Byte
  BY DEF Byte
<1>2. n < 65536 => 256 * ((n \div 256) % 256) + (n % 256) = n
  OBVIOUS
<1> QED BY <1>1, <1>2 DEF PutUint16, Bytes, Uint16

LEMMA Uint16Read ==
  ASSUME NEW hi \in Byte, NEW lo \in Byte
  PROVE  /\ Uint16(hi, lo) \in Nat /\ Uint16(hi, lo) < 65536
         /\ PutUint16(Uint16(hi, lo)) = <<hi, lo>>
<1>1. 256 * hi + lo \in Nat /\ 256 * hi + lo < 65536
  BY DEF Byte
<1>2. ((256 * hi + lo) \div 256) % 256 = hi /\ (256 * hi + lo) % 256 = lo
  BY DEF Byte
<1> QED BY <1>1, <1>2 DEF Uint16, PutUint16

LEMMA Uint32Octets ==
  ASSUME NEW n \in Nat
  PROVE  Uint32(n) \in Bytes /\ Len(Uint32(n)) = 4
<1>1. n \div 65536 \in Nat /\ n % 65536 \in Nat
  OBVIOUS
<1>2. /\ PutUint16(n \div 65536) \in Seq(Byte) /\ Len(PutUint16(n \div 65536)) = 2
      /\ PutUint16(n % 65536) \in Seq(Byte) /\ Len(PutUint16(n % 65536)) = 2
  BY <1>1, PutUint16Puts DEF Bytes
<1>3. ASSUME NEW hi \in Seq(Byte), Len(hi) = 2, NEW lo \in Seq(Byte), Len(lo) = 2
      PROVE  hi \o lo \in Seq(Byte) /\ Len(hi \o lo) = 4
  <2>1. Len(hi \o lo) = Len(hi) + Len(lo) /\ hi \o lo \in Seq(Byte)
    BY ConcatProperties
  <2>2. Len(hi) + Len(lo) = 4
    BY <1>3
  <2> QED BY <2>1, <2>2
<1>4. ASSUME NEW hi, NEW lo, hi = PutUint16(n \div 65536), lo = PutUint16(n % 65536)
      PROVE  hi \o lo \in Seq(Byte) /\ Len(hi \o lo) = 4
  <2>1. hi \in Seq(Byte) /\ Len(hi) = 2 /\ lo \in Seq(Byte) /\ Len(lo) = 2
    BY <1>2, <1>4
  <2> QED BY ONLY <1>3, <2>1
<1>5. PICK u : u = Uint32(n)
  OBVIOUS
<1>6. u \in Seq(Byte) /\ Len(u) = 4
  BY <1>4, <1>5 DEF Uint32
<1> QED BY <1>5, <1>6 DEF Bytes

LEMMA AttributeType ==
  ASSUME NEW typ \in Byte, NEW v \in Bytes
  PROVE  /\ Attribute(typ, v) \in OctetAVP
         /\ Attribute(typ, v).type = typ /\ Attribute(typ, v).value.octets = v
<1>1. Len(v) \in Nat
  BY DEF Bytes
<1> QED BY <1>1 DEF Attribute, OctetAVP, OctetValue, Octets

(* c is s, of length n, and then t. *)
Joined(c, s, n, t) ==
    /\ c \in Seq(Byte) /\ Len(c) = n + Len(t) /\ Len(t) \in Nat
    /\ \A i \in 1 .. n : c[i] = s[i]
    /\ \A i \in 1 .. Len(t) : c[i + n] = t[i]

LEMMA ConcatJoins ==
  ASSUME NEW s \in Seq(Byte), NEW t \in Seq(Byte), NEW n \in Nat, Len(s) = n
  PROVE  Joined(s \o t, s, n, t)
<1>1. /\ s \o t \in Seq(Byte) /\ Len(s \o t) = Len(s) + Len(t)
      /\ \A i \in 1 .. Len(s) + Len(t) : (s \o t)[i] = IF i <= Len(s) THEN s[i] ELSE t[i - Len(s)]
  BY ConcatProperties
<1> DEFINE c == s \o t
<1> HIDE DEF c
<1>2. Len(t) \in Nat
  OBVIOUS
<1>3. /\ c \in Seq(Byte) /\ Len(c) = n + Len(t)
      /\ \A i \in 1 .. n + Len(t) : c[i] = IF i <= n THEN s[i] ELSE t[i - n]
  BY <1>1 DEF c
<1>4. \A i \in 1 .. n : c[i] = s[i]
  BY <1>2, <1>3
<1>5. \A i \in 1 .. Len(t) : c[i + n] = t[i]
  <2>1. \A i \in 1 .. Len(t) : i + n \in 1 .. n + Len(t) /\ ~(i + n <= n) /\ (i + n) - n = i
    BY <1>2
  <2> QED BY <1>3, <2>1
<1> QED BY <1>2, <1>3, <1>4, <1>5 DEF c, Joined

(* What an attribute is written as. *)
Written(e, a, v) ==
    /\ e \in Seq(Byte) /\ Len(e) = 2 + Len(v) /\ e[1] = a.type /\ e[2] = (2 + Len(v)) % 256
    /\ \A i \in 1 .. Len(v) : e[i + 2] = v[i]
    /\ v \in Seq(Byte) /\ Len(v) \in Nat /\ a.type \in Byte /\ a = Attribute(a.type, v)

LEMMA EncodeAVPWrites ==
  ASSUME NEW a \in OctetAVP
  PROVE  Written(EncodeAVP(a), a, a.value.octets)
<1> DEFINE v == a.value.octets
           h == <<a.type, (2 + Len(v)) % 256>>
<1>1. v \in Seq(Byte) /\ Len(v) \in Nat /\ a.type \in Byte
  BY DEF OctetAVP, OctetValue, Bytes
<1>2. (2 + Len(v)) % 256 \in Byte
  <2>1. 2 + Len(v) \in Nat
    BY <1>1
  <2> QED BY <2>1, CutToByte
<1>3. h \in Seq(Byte) /\ Len(h) = 2 /\ h[1] = a.type /\ h[2] = (2 + Len(v)) % 256
  <2>1. PICK t \in Byte, m \in Byte : t = a.type /\ m = (2 + Len(v)) % 256
    BY <1>1, <1>2
  <2>2. h = <<t, m>>
    BY <2>1
  <2> HIDE DEF h
  <2>3. h \in Seq(Byte) /\ Len(h) = 2 /\ h[1] = t /\ h[2] = m
    BY <2>2
  <2> QED BY <2>1, <2>3
<1>4. EncodeAVP(a) = h \o v
  BY DEF EncodeAVP
<1>5. a = Attribute(a.type, v)
  BY DEF Attribute, OctetAVP, OctetValue, Octets
<1> HIDE DEF v, h
<1>6. PICK e : e = h \o v
  OBVIOUS
<1>7. Joined(e, h, 2, v)
  BY <1>1, <1>3, <1>6, ConcatJoins
<1>8. /\ e \in Seq(Byte) /\ Len(e) = 2 + Len(v) /\ e[1] = h[1] /\ e[2] = h[2]
      /\ \A i \in 1 .. Len(v) : e[i + 2] = v[i]
  BY <1>7 DEF Joined
<1>9. Written(e, a, v)
  BY <1>1, <1>3, <1>5, <1>8 DEF Written
<1> QED BY <1>4, <1>6, <1>9 DEF v

LEMMA EncodeAVPEncodes ==
  ASSUME NEW a \in OctetAVP
  PROVE  /\ EncodeAVP(a) \in Bytes /\ Len(EncodeAVP(a)) = 2 + Len(a.value.octets)
         /\ Len(a.value.octets) \in Nat
BY EncodeAVPWrites DEF Written, Bytes

LEMMA EncodeNone ==
  EncodeAVPs(<<>>) = <<>>
<1>1. [i \in DOMAIN <<>> |-> EncodeAVP(<<>>[i])] = <<>>
  OBVIOUS
<1>2. FlattenSeq(<<>>) = <<>>
  BY DEF FlattenSeq
<1> QED BY <1>1, <1>2 DEF EncodeAVPs

LEMMA EncodeFirst ==
  ASSUME NEW a \in OctetAVP, NEW attrs \in Seq(OctetAVP)
  PROVE  /\ EncodeAVPs(attrs) \in Bytes
         /\ EncodeAVPs(<<a>> \o attrs) = EncodeAVP(a) \o EncodeAVPs(attrs)
<1> DEFINE all == <<a>> \o attrs
           es == [i \in DOMAIN attrs |-> EncodeAVP(attrs[i])]
           eall == [i \in DOMAIN all |-> EncodeAVP(all[i])]
           n == Len(attrs)
           ea == EncodeAVP(a)
<1>1. n \in Nat /\ DOMAIN attrs = 1 .. n /\ \A i \in 1 .. n : attrs[i] \in OctetAVP
  BY LenProperties, ElementOfSeq
<1>2. all \in Seq(OctetAVP) /\ Len(all) = n + 1 /\ all[1] = a /\ \A i \in 1 .. n : all[i + 1] = attrs[i]
  <2>1. <<a>> \in Seq(OctetAVP) /\ Len(<<a>>) = 1 /\ <<a>>[1] = a
    OBVIOUS
  <2> QED BY <1>1, <2>1, ConcatProperties
<1>3. DOMAIN all = 1 .. n + 1 /\ \A i \in 1 .. n + 1 : all[i] \in OctetAVP
  BY <1>2, LenProperties, ElementOfSeq
<1> HIDE DEF all
<1>4. \A b \in OctetAVP : EncodeAVP(b) \in Seq(Byte)
  BY EncodeAVPEncodes DEF Bytes
<1>5. es \in Seq(Seq(Byte)) /\ Len(es) = n /\ \A i \in 1 .. n : es[i] = EncodeAVP(attrs[i])
  BY <1>1, <1>4
<1>6. /\ eall \in Seq(Seq(Byte)) /\ Len(eall) = n + 1
      /\ \A i \in 1 .. n + 1 : eall[i] = EncodeAVP(all[i])
  BY <1>1, <1>3, <1>4
<1>7. EncodeAVPs(attrs) = FlattenSeq(es) /\ EncodeAVPs(all) = FlattenSeq(eall)
  BY DEF EncodeAVPs
<1>8. ea \in Seq(Byte) /\ ea = EncodeAVP(a)
  BY <1>4
<1> HIDE DEF es, eall, ea
<1>9. eall = <<ea>> \o es
  <2>1. <<ea>> \in Seq(Seq(Byte)) /\ Len(<<ea>>) = 1 /\ <<ea>>[1] = ea
    BY <1>8
  <2>2. /\ <<ea>> \o es \in Seq(Seq(Byte)) /\ Len(<<ea>> \o es) = n + 1
        /\ (<<ea>> \o es)[1] = ea /\ \A i \in 1 .. n : (<<ea>> \o es)[i + 1] = es[i]
    BY <1>1, <1>5, <2>1, ConcatProperties
  <2> DEFINE c == <<ea>> \o es
  <2> HIDE DEF c
  <2>3. ASSUME NEW i \in 1 .. n + 1 PROVE eall[i] = c[i]
    <3>1. CASE i = 1
      BY <1>1, <1>2, <1>6, <1>8, <2>2, <3>1 DEF c
    <3>2. CASE i # 1
      <4>1. i - 1 \in 1 .. n /\ (i - 1) + 1 = i
        BY <1>1, <3>2
      <4>2. eall[i] = EncodeAVP(attrs[i - 1])
        BY <1>2, <1>6, <4>1
      <4>3. c[i] = es[i - 1]
        BY <2>2, <4>1 DEF c
      <4> QED BY <1>5, <4>1, <4>2, <4>3
    <3> QED BY <3>1, <3>2
  <2>4. c \in Seq(Seq(Byte)) /\ Len(c) = n + 1
    BY <2>2 DEF c
  <2>5. eall = c
    BY <1>6, <2>3, <2>4, SeqEqual
  <2> QED BY <2>5 DEF c
<1>10. FlattenSeq(es) \in Seq(Byte) /\ FlattenSeq(<<ea>> \o es) = ea \o FlattenSeq(es)
  BY <1>5, <1>8, FlattenType, FlattenFirst
<1> QED BY <1>7, <1>8, <1>9, <1>10 DEF all, Bytes
----------------------------------------------------------------------------
(* Parsing.  The function parse of ParseAVPs is the one that satisfies its *)
(* equation at every offset: it exists, since an attribute that is whole   *)
(* ends behind its offset.                                                 *)
Parses(parse, body, from) ==
    parse = [offset \in from .. Len(body) |-> AVPsFrom(body, offset, parse)]

LEMMA ParsesLater ==
  ASSUME NEW body, NEW offset \in Nat, NEW f, NEW g,
         \A k \in offset + 1 .. Len(body) : f[k] = g[k], Len(body) \in Nat
  PROVE  AVPsFrom(body, offset, f) = AVPsFrom(body, offset, g)
<1>1. CASE IsWhole(body, offset)
  <2>1. NextAVP(body, offset) \in offset + 1 .. Len(body)
    BY <1>1 DEF IsWhole
  <2>2. f[NextAVP(body, offset)] = g[NextAVP(body, offset)]
    BY <2>1
  <2> QED BY <2>2 DEF AVPsFrom
<1>2. CASE ~IsWhole(body, offset)
  BY <1>2 DEF AVPsFrom
<1> QED BY <1>1, <1>2

LEMMA ParsesExists ==
  ASSUME NEW body, Len(body) \in Nat
  PROVE  \A k \in Nat : k <= Len(body) => \E f : Parses(f, body, Len(body) - k)
<1> DEFINE n == Len(body)
           T == {k \in Nat : k <= n => \E f : Parses(f, body, n - k)}
<1>1. 0 \in T
  <2> DEFINE e == [offset \in n .. n |-> <<>>]
  <2>1. \A f : AVPsFrom(body, n, f) = <<>>
    BY DEF AVPsFrom
  <2>2. \A offset \in n .. n : offset = n
    OBVIOUS
  <2>3. [offset \in n .. n |-> AVPsFrom(body, offset, e)] = [offset \in n .. n |-> <<>>]
    BY <2>1, <2>2
  <2>4. Parses(e, body, n)
    BY <2>3 DEF Parses
  <2>5. n - 0 = n
    OBVIOUS
  <2> QED BY <2>4, <2>5
<1>2. ASSUME NEW k \in Nat, k \in T PROVE k + 1 \in T
  <2> SUFFICES ASSUME k + 1 <= n PROVE \E f : Parses(f, body, n - (k + 1))
    OBVIOUS
  <2> DEFINE m == n - (k + 1)
  <2>1. m \in Nat /\ m <= n /\ m + 1 = n - k
    OBVIOUS
  <2>2. PICK f : Parses(f, body, m + 1)
    BY <1>2, <2>1
  <2> SUFFICES \E g : Parses(g, body, m)
    OBVIOUS
  <2> HIDE DEF m, T
  <2>3. \A offset \in m + 1 .. n : f[offset] = AVPsFrom(body, offset, f)
    BY <2>2 DEF Parses
  <2> DEFINE g == [offset \in m .. n |-> IF offset = m THEN AVPsFrom(body, m, f) ELSE f[offset]]
  <2>4. (\A j \in m + 1 .. n : g[j] = f[j]) /\ g[m] = AVPsFrom(body, m, f)
    BY <2>1
  <2>5. g = [offset \in m .. n |-> g[offset]]
    OBVIOUS
  <2> HIDE DEF g
  <2>6. ASSUME NEW offset \in m .. n PROVE g[offset] = AVPsFrom(body, offset, g)
    <3>1. \A j \in offset + 1 .. n : f[j] = g[j]
      BY <2>1, <2>4
    <3>2. AVPsFrom(body, offset, f) = AVPsFrom(body, offset, g)
      <4>1. offset \in Nat /\ n \in Nat
        BY <2>1
      <4> QED BY <3>1, <4>1, ParsesLater
    <3>3. g[offset] = AVPsFrom(body, offset, f)
      BY <2>1, <2>3, <2>4
    <3> QED BY <3>2, <3>3
  <2>7. [offset \in m .. n |-> g[offset]] = [offset \in m .. n |-> AVPsFrom(body, offset, g)]
    BY <2>6
  <2> QED BY <2>5, <2>7 DEF Parses
<1> HIDE DEF T
<1>3. \A k \in Nat : k \in T
  BY <1>1, <1>2, NatSteps
<1> QED BY <1>3 DEF T

LEMMA ParseAVPsParses ==
  ASSUME NEW body, Len(body) \in Nat, Len(body) >= 20
  PROVE  \E f : /\ ParseAVPs(body) = f[20]
                /\ \A offset \in 20 .. Len(body) : f[offset] = AVPsFrom(body, offset, f)
<1> DEFINE g == CHOOSE f : f = [offset \in 20 .. Len(body) |-> AVPsFrom(body, offset, f)]
<1>1. \E f : Parses(f, body, 20)
  <2>1. Len(body) - 20 \in Nat /\ Len(body) - 20 <= Len(body) /\ Len(body) - (Len(body) - 20) = 20
    OBVIOUS
  <2>2. \E f : Parses(f, body, Len(body) - (Len(body) - 20))
    BY <2>1, ParsesExists
  <2> QED BY <2>1, <2>2
<1>2. g = [offset \in 20 .. Len(body) |-> AVPsFrom(body, offset, g)]
  <2>1. \E f : f = [offset \in 20 .. Len(body) |-> AVPsFrom(body, offset, f)]
    BY <1>1 DEF Parses
  <2> QED BY <2>1
<1>3. ParseAVPs(body) = g[20]
  BY DEF ParseAVPs
<1> HIDE DEF g
<1>4. \A offset \in 20 .. Len(body) : g[offset] = AVPsFrom(body, offset, g)
  BY <1>2
<1> QED BY <1>3, <1>4
----------------------------------------------------------------------------
(* What is read of octets is written again as the same octets. *)
LEMMA ReadAVP ==
  ASSUME NEW body \in Bytes, NEW offset \in Nat, IsWhole(body, offset)
  PROVE  /\ NextAVP(body, offset) \in offset + 2 .. Len(body)
         /\ AVPAt(body, offset) \in OctetAVP
         /\ EncodeAVP(AVPAt(body, offset)) = SubSeq(body, offset + 1, NextAVP(body, offset))
<1> DEFINE next == NextAVP(body, offset)
           v == SubSeq(body, offset + 3, next)
           a == AVPAt(body, offset)
<1>1. /\ body \in Seq(Byte) /\ Len(body) \in Nat /\ next \in offset + 2 .. Len(body)
      /\ next = offset + body[offset + 2]
  BY DEF IsWhole, NextAVP, Bytes
<1>2. body[offset + 1] \in Byte /\ body[offset + 2] \in Byte
  BY <1>1
<1> HIDE DEF next
<1>3. v \in Bytes /\ Len(v) = next - (offset + 2) /\ \A i \in 1 .. Len(v) : v[i] = body[offset + 2 + i]
  <2>1. \A i \in offset + 3 .. next : body[i] \in Byte
    BY <1>1
  <2>2. /\ v \in Seq(Byte)
        /\ Len(v) = IF offset + 3 <= next THEN next - (offset + 3) + 1 ELSE 0
        /\ \A i \in 1 .. next - (offset + 3) + 1 : v[i] = body[(offset + 3) + i - 1]
    BY <1>1, <2>1, SubSeqProperties
  <2>3. Len(v) = next - (offset + 2)
    BY <1>1, <2>2
  <2>4. \A i \in 1 .. Len(v) : v[i] = body[offset + 2 + i]
    <3>1. \A i \in 1 .. Len(v) : i \in 1 .. next - (offset + 3) + 1 /\ (offset + 3) + i - 1 = offset + 2 + i
      BY <1>1, <2>3
    <3> QED BY <2>2, <3>1
  <2> QED BY <2>2, <2>3, <2>4 DEF Bytes
<1> HIDE DEF v
<1>4. a = Attribute(body[offset + 1], v)
  BY DEF AVPAt, next, v
<1>5. a \in OctetAVP /\ a.type = body[offset + 1] /\ a.value.octets = v
  BY <1>2, <1>3, <1>4, AttributeType
<1> HIDE DEF a
<1>6. /\ EncodeAVP(a) \in Seq(Byte) /\ Len(EncodeAVP(a)) = 2 + Len(v)
      /\ EncodeAVP(a)[1] = body[offset + 1] /\ EncodeAVP(a)[2] = (2 + Len(v)) % 256
      /\ \A i \in 1 .. Len(v) : EncodeAVP(a)[i + 2] = v[i]
  <2>1. Written(EncodeAVP(a), a, v)
    BY <1>5, EncodeAVPWrites
  <2> QED BY <1>5, <2>1 DEF Written
<1> DEFINE e == EncodeAVP(a)
           s == SubSeq(body, offset + 1, next)
<1>7. s \in Seq(Byte) /\ Len(s) = next - offset /\ \A i \in 1 .. next - offset : s[i] = body[offset + i]
  <2>1. \A i \in offset + 1 .. next : body[i] \in Byte
    BY <1>1
  <2>2. /\ s \in Seq(Byte)
        /\ Len(s) = IF offset + 1 <= next THEN next - (offset + 1) + 1 ELSE 0
        /\ \A i \in 1 .. next - (offset + 1) + 1 : s[i] = body[(offset + 1) + i - 1]
    BY <1>1, <2>1, SubSeqProperties
  <2>3. \A i \in 1 .. next - offset : i \in 1 .. next - (offset + 1) + 1 /\ (offset + 1) + i - 1 = offset + i
    BY <1>1
  <2>4. Len(s) = next - offset
    BY <1>1, <2>2
  <2> QED BY <2>2, <2>3, <2>4
<1> HIDE DEF e, s
<1>8. Len(e) = next - offset /\ e \in Seq(Byte)
  BY <1>1, <1>3, <1>6 DEF e
<1>9. e[2] = body[offset + 2]
  <2>a. PICK b \in Byte : b = body[offset + 2]
    BY <1>2
  <2>1. 2 + Len(v) = b
    BY <1>1, <1>3, <2>a, SMTT(30) DEF Byte
  <2>2. \A o \in Byte : o % 256 = o
    BY DEF Byte
  <2> QED BY <1>6, <2>a, <2>1, <2>2 DEF e
<1>10. ASSUME NEW i \in 1 .. Len(e) PROVE e[i] = s[i]
  <2>1. i \in 1 .. next - offset
    BY <1>8
  <2>2. CASE i = 1
    BY <1>6, <1>7, <2>1, <2>2 DEF e
  <2>3. CASE i = 2
    BY <1>7, <1>9, <2>1, <2>3
  <2>4. CASE i > 2
    <3>1. i - 2 \in 1 .. Len(v) /\ (i - 2) + 2 = i /\ offset + 2 + (i - 2) = offset + i
      BY <1>1, <1>3, <2>1, <2>4
    <3>2. e[i] = v[i - 2]
      BY <1>6, <3>1 DEF e
    <3>3. v[i - 2] = body[offset + i]
      BY <1>3, <3>1
    <3> QED BY <1>7, <2>1, <3>2, <3>3
  <2> QED BY <1>1, <2>1, <2>2, <2>3, <2>4
<1>11. e = s
  BY <1>7, <1>8, <1>10, SeqEqual
<1> QED BY <1>1, <1>5, <1>11 DEF a, e, s, next

Kept(parse, body, offset) ==
    parse[offset] # None =>
      /\ parse[offset] \in Seq(OctetAVP)
      /\ EncodeAVPs(parse[offset]) = SubSeq(body, offset + 1, Len(body))

LEMMA ParsedIsKept ==
  ASSUME NEW body \in Bytes, Len(body) >= 20
  PROVE  LET attrs == ParseAVPs(body)
         IN  attrs # None => /\ attrs \in Seq(OctetAVP)
                             /\ EncodeAVPs(attrs) = SubSeq(body, 21, Len(body))
<1> DEFINE n == Len(body)
<1>1. body \in Seq(Byte) /\ n \in Nat /\ n >= 20
  BY DEF Bytes
<1>2. PICK f : /\ ParseAVPs(body) = f[20]
               /\ \A offset \in 20 .. Len(body) : f[offset] = AVPsFrom(body, offset, f)
  BY <1>1, ParseAVPsParses
<1> DEFINE Bad == {k \in Nat : k <= n - 20 /\ ~Kept(f, body, n - k)}
<1>3. Bad = {}
  <2> SUFFICES ASSUME Bad # {} PROVE FALSE
    OBVIOUS
  <2>1. PICK k \in Bad : \A j \in Bad : k <= j
    <3>1. Bad \in SUBSET Nat
      OBVIOUS
    <3> HIDE DEF Bad
    <3> QED BY <3>1, MinNat
  <2> DEFINE offset == n - k
             next == NextAVP(body, offset)
  <2>2. offset \in 20 .. n /\ ~Kept(f, body, offset) /\ k \in Nat /\ offset \in Nat
    BY <1>1, <2>1
  <2> SUFFICES Kept(f, body, offset)
    BY <2>2
  <2> HIDE DEF offset
  <2>3. f[offset] = AVPsFrom(body, offset, f)
    BY <1>2, <2>2
  <2>4. CASE offset = n
    <3>1. f[offset] = <<>>
      BY <2>3, <2>4 DEF AVPsFrom
    <3>2. SubSeq(body, offset + 1, n) = <<>>
      BY <1>1, <2>4, SubSeqEmpty
    <3>3. EncodeAVPs(<<>>) = <<>>
      BY EncodeNone
    <3>4. <<>> \in Seq(OctetAVP)
      BY EmptySeq
    <3> QED BY <3>1, <3>2, <3>3, <3>4 DEF Kept
  <2>5. CASE offset # n /\ IsWhole(body, offset) /\ f[next] # None
    <3> DEFINE a == AVPAt(body, offset)
    <3>1. /\ next \in offset + 2 .. n /\ a \in OctetAVP
          /\ EncodeAVP(a) = SubSeq(body, offset + 1, next)
      BY <2>2, <2>5, ReadAVP
    <3>2. f[offset] = <<a>> \o f[next]
      BY <2>3, <2>5 DEF AVPsFrom
    <3> HIDE DEF a, next
    <3>3. Kept(f, body, next)
      <4>1. n - next \in Nat /\ n - next < k /\ n - next <= n - 20 /\ n - (n - next) = next
        BY <1>1, <2>2, <3>1 DEF offset
      <4> QED BY <2>1, <4>1
    <3>4. f[next] \in Seq(OctetAVP) /\ EncodeAVPs(f[next]) = SubSeq(body, next + 1, n)
      BY <2>5, <3>3 DEF Kept, next
    <3>5. PICK rest \in Seq(OctetAVP) : rest = f[next]
      BY <3>4
    <3>6. <<a>> \o rest \in Seq(OctetAVP) /\ EncodeAVPs(<<a>> \o rest) = EncodeAVP(a) \o EncodeAVPs(rest)
      <4>1. <<a>> \in Seq(OctetAVP)
        BY <3>1
      <4> QED BY <3>1, <4>1, EncodeFirst, ConcatProperties
    <3>7. SubSeq(body, offset + 1, next) \o SubSeq(body, next + 1, n) = SubSeq(body, offset + 1, n)
      <4>1. offset + 1 \in 1 .. n + 1 /\ next \in (offset + 1) - 1 .. n /\ n \in next .. n
        BY <1>1, <2>2, <3>1
      <4> QED BY <1>1, <4>1, ConcatAdjacentSubSeq
    <3> QED BY <3>1, <3>2, <3>4, <3>5, <3>6, <3>7 DEF Kept
  <2>6. CASE offset # n /\ ~(IsWhole(body, offset) /\ f[next] # None)
    <3>1. f[offset] = None
      BY <2>3, <2>6 DEF AVPsFrom
    <3> QED BY <3>1 DEF Kept
  <2> QED BY <2>4, <2>5, <2>6
<1>4. n - 20 \in Nat /\ n - (n - 20) = 20 /\ n - 20 <= n - 20
  BY <1>1
<1>5. Kept(f, body, 20)
  <2>1. \A k \in Nat : k <= n - 20 => Kept(f, body, n - k)
    BY <1>3
  <2> HIDE DEF n, Bad
  <2> QED BY <1>4, <2>1
<1> QED BY <1>2, <1>5 DEF Kept
----------------------------------------------------------------------------
(* The layout of a packet. *)
Laid(e, p, avps) ==
    /\ e \in Seq(Byte) /\ Len(e) = 20 + Len(avps)
    /\ e[1] = p.code /\ e[2] = p.ident
    /\ e[3] = PutUint16(Len(e))[1] /\ e[4] = PutUint16(Len(e))[2]
    /\ \A i \in 1 .. 16 : e[i + 4] = p.auth.octets[i]
    /\ \A i \in 1 .. Len(avps) : e[i + 20] = avps[i]

LEMMA EncodePacketLays ==
  ASSUME NEW p \in OctetPacket
  PROVE  Laid(EncodePacket(p), p, EncodeAVPs(p.attrs))
<1>1. EncodeAVPs(p.attrs) \in Seq(Byte)
  <2>1. Attribute(0, <<>>) \in OctetAVP
    <3>1. 0 \in Byte /\ <<>> \in Bytes
      BY DEF Byte, Bytes
    <3> QED BY <3>1, AttributeType
  <2> QED BY <2>1, EncodeFirst DEF OctetPacket, Bytes
<1>2. /\ p.auth.octets \in Seq(Byte) /\ Len(p.auth.octets) = 16
      /\ p.code \in Byte /\ p.ident \in Byte
  BY DEF OctetPacket, OctetValue, Bytes
<1>3. PICK avps \in Seq(Byte), auth \in Seq(Byte), code \in Byte, ident \in Byte :
        avps = EncodeAVPs(p.attrs) /\ auth = p.auth.octets /\ code = p.code /\ ident = p.ident
  BY <1>1, <1>2
<1>4. PICK body : body = auth \o avps
  OBVIOUS
<1>5. Joined(body, auth, 16, avps)
  BY <1>2, <1>3, <1>4, ConcatJoins
<1>6. body \in Seq(Byte) /\ 4 + Len(body) = 20 + Len(avps) /\ 4 + Len(body) \in Nat /\ Len(avps) \in Nat
  BY <1>5 DEF Joined
<1>a. PICK l : l = PutUint16(4 + Len(body))
  OBVIOUS
<1>7. l \in Seq(Byte) /\ Len(l) = 2
  BY <1>6, <1>a, PutUint16Puts DEF Bytes
<1>b. PICK head : head = <<code, ident>>
  OBVIOUS
<1>8. head \in Seq(Byte) /\ Len(head) = 2 /\ head[1] = code /\ head[2] = ident
  BY <1>b
<1>9. PICK hl : hl = head \o l
  OBVIOUS
<1>10. Joined(hl, head, 2, l)
  BY <1>7, <1>8, <1>9, ConcatJoins
<1>11. hl \in Seq(Byte) /\ Len(hl) = 4
  BY <1>7, <1>10 DEF Joined
<1>12. PICK e : e = hl \o body
  OBVIOUS
<1>13. Joined(e, hl, 4, body)
  BY <1>6, <1>11, <1>12, ConcatJoins
<1>14. EncodePacket(p) = e
  BY <1>3, <1>4, <1>a, <1>b, <1>9, <1>12 DEF EncodePacket
<1>15. /\ hl[1] = code /\ hl[2] = ident /\ hl[1 + 2] = l[1] /\ hl[2 + 2] = l[2]
  <2>1. 1 \in 1 .. Len(l) /\ 2 \in 1 .. Len(l) /\ 1 \in 1 .. 2 /\ 2 \in 1 .. 2
    BY <1>7
  <2> QED BY <1>8, <1>10, <2>1 DEF Joined
<1>16. e[1] = code /\ e[2] = ident /\ e[3] = l[1] /\ e[4] = l[2]
  BY <1>13, <1>15 DEF Joined
<1>17. e \in Seq(Byte) /\ Len(e) = 20 + Len(avps) /\ l = PutUint16(Len(e))
  BY <1>6, <1>a, <1>13 DEF Joined
<1>18. ASSUME NEW i \in 1 .. 16 PROVE e[i + 4] = auth[i]
  <2>1. i \in 1 .. Len(body)
    BY <1>6
  <2> QED BY <1>5, <1>13, <2>1 DEF Joined
<1>19. ASSUME NEW i \in 1 .. Len(avps) PROVE e[i + 20] = avps[i]
  <2>1. i + 16 \in 1 .. Len(body) /\ (i + 16) + 4 = i + 20
    BY <1>6
  <2>2. e[(i + 16) + 4] = body[i + 16]
    BY <1>13, <2>1 DEF Joined
  <2>3. body[i + 16] = avps[i]
    BY <1>5 DEF Joined
  <2> QED BY <2>1, <2>2, <2>3
<1>20. Laid(e, p, avps)
  BY <1>3, <1>16, <1>17, <1>18, <1>19 DEF Laid
<1> QED BY <1>3, <1>14, <1>20

(* Two sequences that are laid out alike are the same. *)
LEMMA LaidOnce ==
  ASSUME NEW p, NEW avps \in Seq(Byte), NEW d, NEW e, Laid(d, p, avps), Laid(e, p, avps)
  PROVE  d = e
<1>1. d \in Seq(Byte) /\ e \in Seq(Byte) /\ Len(d) = Len(e) /\ Len(d) = 20 + Len(avps) /\ Len(avps) \in Nat
  BY DEF Laid
<1>2. ASSUME NEW i \in 1 .. Len(d) PROVE d[i] = e[i]
  <2>1. CASE i \in {1, 2, 3, 4}
    BY <1>1, <2>1 DEF Laid
  <2>2. CASE i \in 5 .. 20
    <3>1. i - 4 \in 1 .. 16 /\ (i - 4) + 4 = i
      BY <2>2
    <3>2. d[(i - 4) + 4] = p.auth.octets[i - 4] /\ e[(i - 4) + 4] = p.auth.octets[i - 4]
      BY <3>1 DEF Laid
    <3> QED BY <3>1, <3>2
  <2>3. CASE i > 20
    <3>1. i - 20 \in 1 .. Len(avps) /\ (i - 20) + 20 = i
      BY <1>1, <2>3
    <3>2. d[(i - 20) + 20] = avps[i - 20] /\ e[(i - 20) + 20] = avps[i - 20]
      BY <3>1 DEF Laid
    <3> QED BY <3>1, <3>2
  <2>4. i \in {1, 2, 3, 4} \/ i \in 5 .. 20 \/ i > 20
    BY <1>1
  <2> QED BY <2>1, <2>2, <2>3, <2>4
<1> QED BY <1>1, <1>2, SeqEqual
----------------------------------------------------------------------------
(* The octets behind the first m, up to the n-th. *)
Part(t, s, m, n) ==
    t \in Seq(Byte) /\ Len(t) = n - m /\ \A i \in 1 .. n - m : t[i] = s[m + i]

LEMMA SubSeqPart ==
  ASSUME NEW s \in Seq(Byte), NEW m \in Nat, NEW n \in Nat, m <= n, n <= Len(s),
         NEW k, k = m + 1
  PROVE  Part(SubSeq(s, k, n), s, m, n)
<1>1. \A i \in m + 1 .. n : s[i] \in Byte
  OBVIOUS
<1>2. /\ SubSeq(s, m + 1, n) \in Seq(Byte)
      /\ Len(SubSeq(s, m + 1, n)) = IF m + 1 <= n THEN n - (m + 1) + 1 ELSE 0
      /\ \A i \in 1 .. n - (m + 1) + 1 : SubSeq(s, m + 1, n)[i] = s[(m + 1) + i - 1]
  BY <1>1, SubSeqProperties
<1> DEFINE t == SubSeq(s, m + 1, n)
<1> HIDE DEF t
<1>3. Len(t) = n - m
  BY <1>2 DEF t
<1>4. \A i \in 1 .. n - m : i \in 1 .. n - (m + 1) + 1 /\ (m + 1) + i - 1 = m + i
  OBVIOUS
<1>5. \A i \in 1 .. n - m : t[i] = s[m + i]
  BY <1>2, <1>4 DEF t
<1> QED BY <1>2, <1>3, <1>5 DEF t, Part

LEMMA PacketIsKept ==
  ASSUME NEW body \in Bytes, Len(body) >= 20, Length(body) = Len(body), ParseAVPs(body) # None
  PROVE  PacketIn(body) \in OctetPacket /\ EncodePacket(PacketIn(body)) = body
<1> DEFINE n == Len(body)
<1>1. body \in Seq(Byte) /\ n \in Nat /\ n >= 20
  BY DEF Bytes
<1>2. PICK attrs : attrs = ParseAVPs(body)
  OBVIOUS
<1>3. attrs \in Seq(OctetAVP) /\ EncodeAVPs(attrs) = SubSeq(body, 21, n)
  BY <1>2, ParsedIsKept
<1>4. PICK auth : auth = SubSeq(body, 5, 20)
  OBVIOUS
<1>5. auth \in Seq(Byte) /\ Len(auth) = 16 /\ \A i \in 1 .. 16 : auth[i] = body[4 + i]
  <2>1. 4 \in Nat /\ 20 \in Nat /\ 4 <= 20 /\ 5 = 4 + 1 /\ 20 - 4 = 16
    OBVIOUS
  <2>2. Part(auth, body, 4, 20)
    BY <1>1, <1>4, <2>1, SubSeqPart
  <2> QED BY <2>1, <2>2 DEF Part
<1>6. PICK p : p = PacketIn(body)
  OBVIOUS
<1>7. /\ p = [code |-> body[1], ident |-> body[2], auth |-> Octets(16, auth), attrs |-> attrs]
  BY <1>2, <1>4, <1>6 DEF PacketIn
<1>8. /\ p.code = body[1] /\ p.ident = body[2] /\ p.attrs = attrs
      /\ p.auth = Octets(16, auth) /\ p.auth.octets = auth
  BY <1>7 DEF Octets
<1>9. \A i \in {1, 2, 3, 4} : body[i] \in Byte
  BY <1>1
<1>10. p \in OctetPacket
  <2>1. Octets(16, auth) \in OctetValue /\ Octets(16, auth).len = 16
    BY <1>5 DEF Octets, OctetValue, Bytes
  <2> QED BY <1>3, <1>7, <1>8, <1>9, <2>1 DEF OctetPacket
<1>11. PICK avps : avps = EncodeAVPs(attrs)
  OBVIOUS
<1>12. avps \in Seq(Byte) /\ Len(avps) = n - 20 /\ \A i \in 1 .. n - 20 : avps[i] = body[20 + i]
  <2>1. 20 \in Nat /\ 21 = 20 + 1
    OBVIOUS
  <2>2. Part(avps, body, 20, n)
    BY <1>1, <1>3, <1>11, <2>1, SubSeqPart
  <2> QED BY <2>2 DEF Part
<1>13. PutUint16(n) = <<body[3], body[4]>>
  BY <1>9, Uint16Read DEF Length
<1>14. Laid(body, p, avps)
  <2>1. n = 20 + Len(avps)
    BY <1>1, <1>12
  <2>2. \A i \in 1 .. 16 : body[i + 4] = auth[i]
    <3>1. \A i \in 1 .. 16 : 4 + i = i + 4
      OBVIOUS
    <3> QED BY <1>5, <3>1
  <2>3. \A i \in 1 .. Len(avps) : body[i + 20] = avps[i]
    <3>1. \A i \in 1 .. Len(avps) : 20 + i = i + 20 /\ i \in 1 .. n - 20
      BY <1>12
    <3> QED BY <1>12, <3>1
  <2>4. body[3] = PutUint16(n)[1] /\ body[4] = PutUint16(n)[2]
    BY <1>13
  <2> QED BY <1>1, <1>8, <2>1, <2>2, <2>3, <2>4 DEF Laid
<1>15. Laid(EncodePacket(p), p, avps)
  BY <1>8, <1>10, <1>11, EncodePacketLays
<1>16. EncodePacket(p) = body
  BY <1>12, <1>14, <1>15, LaidOnce
<1> QED BY <1>6, <1>10, <1>16

LEMMA ParsedPacketIsKept ==
  ASSUME NEW raw \in Bytes, ParsePacket(raw) # None
  PROVE  /\ ParsePacket(raw) \in OctetPacket
         /\ EncodePacket(ParsePacket(raw)) = SubSeq(raw, 1, Length(raw))
<1>1. LooksLikeRadius(raw)
  BY DEF ParsePacket
<1>2. PICK l : l = Length(raw)
  OBVIOUS
<1>3. raw \in Seq(Byte) /\ l \in Nat /\ l >= 20 /\ l <= Len(raw)
  BY <1>1, <1>2 DEF LooksLikeRadius, Bytes
<1>4. PICK body : body = SubSeq(raw, 1, l)
  OBVIOUS
<1>5. body \in Seq(Byte) /\ Len(body) = l /\ \A i \in 1 .. l : body[i] = raw[i]
  <2>1. 0 \in Nat /\ 1 = 0 + 1 /\ 0 <= l /\ l - 0 = l
    BY <1>3
  <2>2. Part(body, raw, 0, l)
    BY <1>3, <1>4, <2>1, SubSeqPart
  <2> QED BY <1>3, <2>2 DEF Part
<1>6. Length(body) = Len(body)
  <2>1. body[3] = raw[3] /\ body[4] = raw[4]
    BY <1>3, <1>5
  <2> QED BY <1>2, <1>5, <2>1 DEF Length
<1>7. ParsePacket(raw) = PacketIn(body) /\ ParseAVPs(body) # None
  BY <1>1, <1>2, <1>4 DEF ParsePacket, PacketIn
<1>8. body \in Bytes /\ Len(body) >= 20
  BY <1>3, <1>5 DEF Bytes
<1>9. PacketIn(body) \in OctetPacket /\ EncodePacket(PacketIn(body)) = body
  BY <1>6, <1>7, <1>8, PacketIsKept
<1> QED BY <1>2, <1>4, <1>7, <1>9
----------------------------------------------------------------------------
(* What is written is read again. *)
Ends(d, offset, s) ==
    /\ Len(d) = offset + Len(s)
    /\ \A i \in 1 .. Len(s) : d[offset + i] = s[i]

Follows(d, offset, s, t) ==
    /\ Ends(d, offset + Len(s), t)
    /\ offset + Len(s) \in Nat /\ offset + Len(s) <= Len(d)
    /\ \A i \in 1 .. Len(s) : d[offset + i] = s[i]

LEMMA EndsLater ==
  ASSUME NEW d \in Seq(Byte), NEW s \in Seq(Byte), NEW t \in Seq(Byte), NEW offset \in Nat,
         NEW st, st = s \o t, Ends(d, offset, st)
  PROVE  Follows(d, offset, s, t)
<1>1. PICK n \in Nat : n = Len(s)
  OBVIOUS
<1>2. Joined(st, s, n, t)
  BY <1>1, ConcatJoins
<1>3. /\ Len(st) = n + Len(t) /\ Len(t) \in Nat
      /\ \A i \in 1 .. n : st[i] = s[i]
      /\ \A i \in 1 .. Len(t) : st[i + n] = t[i]
  BY <1>2 DEF Joined
<1>4. Len(d) = offset + Len(st) /\ \A i \in 1 .. Len(st) : d[offset + i] = st[i]
  BY DEF Ends
<1>5. \A i \in 1 .. n : d[offset + i] = s[i]
  <2>1. \A i \in 1 .. n : i \in 1 .. Len(st)
    BY <1>3
  <2> QED BY <1>3, <1>4, <2>1
<1>6. Len(d) = (offset + n) + Len(t) /\ offset + n <= Len(d)
  BY <1>3, <1>4
<1>7. ASSUME NEW i \in 1 .. Len(t) PROVE d[(offset + n) + i] = t[i]
  <2>1. i + n \in 1 .. Len(st) /\ offset + (i + n) = (offset + n) + i
    BY <1>3
  <2>2. d[offset + (i + n)] = st[i + n]
    BY <1>4, <2>1
  <2> QED BY <1>3, <2>1, <2>2
<1>8. Ends(d, offset + n, t)
  BY <1>6, <1>7 DEF Ends
<1> QED BY <1>1, <1>5, <1>6, <1>8 DEF Follows

(* An attribute that fits is read as it was written. *)
ShortAVP == {a \in OctetAVP : Len(a.value.octets) <= 253}

LEMMA WrittenAVPRead ==
  ASSUME NEW body \in Bytes, NEW offset \in Nat, NEW a \in ShortAVP,
         offset + Len(EncodeAVP(a)) <= Len(body),
         \A i \in 1 .. Len(EncodeAVP(a)) : body[offset + i] = EncodeAVP(a)[i]
  PROVE  /\ IsWhole(body, offset) /\ offset # Len(body)
         /\ NextAVP(body, offset) = offset + Len(EncodeAVP(a))
         /\ AVPAt(body, offset) = a
<1>1. PICK v : v = a.value.octets
  OBVIOUS
<1>2. PICK e : e = EncodeAVP(a)
  OBVIOUS
<1>3. /\ e \in Seq(Byte) /\ Len(e) = 2 + Len(v) /\ e[1] = a.type /\ e[2] = (2 + Len(v)) % 256
      /\ \A i \in 1 .. Len(v) : e[i + 2] = v[i]
      /\ v \in Seq(Byte) /\ Len(v) \in Nat /\ Len(v) <= 253 /\ a = Attribute(a.type, v)
  <2>1. a \in OctetAVP /\ Len(v) <= 253
    BY <1>1 DEF ShortAVP
  <2>2. Written(e, a, v)
    BY <1>1, <1>2, <2>1, EncodeAVPWrites
  <2> QED BY <2>1, <2>2 DEF Written
<1>4. (2 + Len(v)) % 256 = 2 + Len(v)
  BY <1>3
<1>5. body \in Seq(Byte) /\ Len(body) \in Nat
  BY DEF Bytes
<1>6. /\ offset + Len(e) <= Len(body)
      /\ \A i \in 1 .. Len(e) : body[offset + i] = e[i]
  BY <1>2
<1>7. 1 \in 1 .. Len(e) /\ 2 \in 1 .. Len(e)
  BY <1>3
<1>8. body[offset + 1] = a.type /\ body[offset + 2] = 2 + Len(v)
  BY <1>3, <1>4, <1>6, <1>7
<1>9. PICK next \in Nat : next = NextAVP(body, offset) /\ next = offset + Len(e)
  BY <1>3, <1>8 DEF NextAVP
<1>10. IsWhole(body, offset) /\ offset # Len(body)
  BY <1>3, <1>5, <1>6, <1>9 DEF IsWhole
<1>11. PICK w : w = SubSeq(body, offset + 3, next)
  OBVIOUS
<1>12. w = v
  <2>1. /\ offset + 2 \in Nat /\ offset + 2 <= next /\ next <= Len(body)
        /\ offset + 3 = (offset + 2) + 1 /\ next - (offset + 2) = Len(v)
    BY <1>3, <1>5, <1>6, <1>9
  <2>2. Part(w, body, offset + 2, next)
    BY <1>5, <1>11, <2>1, SubSeqPart
  <2>3. w \in Seq(Byte) /\ Len(w) = Len(v) /\ \A i \in 1 .. Len(v) : w[i] = body[(offset + 2) + i]
    BY <2>1, <2>2 DEF Part
  <2>4. ASSUME NEW i \in 1 .. Len(v) PROVE w[i] = v[i]
    <3>1. i + 2 \in 1 .. Len(e) /\ offset + (i + 2) = (offset + 2) + i
      BY <1>3
    <3>2. body[offset + (i + 2)] = e[i + 2]
      BY <1>6, <3>1
    <3> QED BY <1>3, <2>3, <3>1, <3>2
  <2> QED BY <1>3, <2>3, <2>4, SeqEqual
<1>13. AVPAt(body, offset) = a
  BY <1>3, <1>8, <1>9, <1>11, <1>12, Zenon DEF AVPAt
<1> QED BY <1>2, <1>9, <1>10, <1>13

ReadAgain(parse, body, attrs) ==
    \A offset \in 20 .. Len(body) :
      Ends(body, offset, EncodeAVPs(attrs)) => parse[offset] = attrs

LEMMA NextOfSeq ==
  ASSUME NEW S, NEW k \in Nat, NEW s \in Seq(S), Len(s) = k + 1
  PROVE  \E x \in S, r \in Seq(S) : s = <<x>> \o r /\ Len(r) = k
<1>1. s # <<>> /\ Len(s) \in Nat /\ Len(s) - 1 = k
  BY EmptySeq
<1>2. Head(s) \in S /\ Tail(s) \in Seq(S) /\ Len(Tail(s)) = k
  BY <1>1, HeadTailProperties
<1>3. s = <<Head(s)>> \o Tail(s)
  <2>1. /\ SubSeq(s, 1, Len(s)) = <<s[1]>> \o SubSeq(s, 1 + 1, Len(s))
        /\ SubSeq(s, 1, Len(s)) = s
    BY <1>1, SubSeqRecursiveFirst, SubSeqFull
  <2>2. Tail(s) = SubSeq(s, 2, Len(s)) /\ Head(s) = s[1]
    BY <1>1, TailIsSubSeq
  <2> QED BY <2>1, <2>2
<1> QED BY <1>2, <1>3, Zenon

LEMMA WrittenIsRead ==
  ASSUME NEW body \in Bytes, Len(body) >= 20, NEW f,
         \A offset \in 20 .. Len(body) : f[offset] = AVPsFrom(body, offset, f)
  PROVE  \A attrs \in Seq(ShortAVP) : ReadAgain(f, body, attrs)
<1> DEFINE T == {k \in Nat : \A attrs \in Seq(ShortAVP) : Len(attrs) = k => ReadAgain(f, body, attrs)}
<1>0. body \in Seq(Byte) /\ Len(body) \in Nat
  BY DEF Bytes
<1>s. ASSUME NEW attrs \in Seq(ShortAVP) PROVE attrs \in Seq(OctetAVP) /\ Len(attrs) \in Nat
  <2>1. ShortAVP \subseteq OctetAVP
    BY DEF ShortAVP
  <2> QED BY <2>1, SeqMonotonic
<1>1. 0 \in T
  <2> SUFFICES ASSUME NEW attrs \in Seq(ShortAVP), Len(attrs) = 0
               PROVE  ReadAgain(f, body, attrs)
    OBVIOUS
  <2>1. attrs = <<>>
    BY EmptySeq
  <2> SUFFICES ASSUME NEW offset \in 20 .. Len(body), Ends(body, offset, EncodeAVPs(attrs))
               PROVE  f[offset] = <<>>
    BY <2>1 DEF ReadAgain
  <2>2. Ends(body, offset, <<>>)
    BY <2>1, EncodeNone
  <2>3. offset = Len(body)
    BY <2>2 DEF Ends
  <2> QED BY <2>3 DEF AVPsFrom
<1>2. ASSUME NEW k \in Nat, k \in T PROVE k + 1 \in T
  <2> SUFFICES ASSUME NEW attrs \in Seq(ShortAVP), Len(attrs) = k + 1
               PROVE  ReadAgain(f, body, attrs)
    OBVIOUS
  <2> SUFFICES ASSUME NEW offset \in 20 .. Len(body), Ends(body, offset, EncodeAVPs(attrs))
               PROVE  f[offset] = attrs
    BY DEF ReadAgain
  <2>1. PICK a \in ShortAVP, rest \in Seq(ShortAVP) : attrs = <<a>> \o rest /\ Len(rest) = k
    BY NextOfSeq, Zenon
  <2>2. a \in OctetAVP /\ rest \in Seq(OctetAVP)
    BY <1>s DEF ShortAVP
  <2>3. PICK e : e = EncodeAVP(a)
    OBVIOUS
  <2>4. PICK es : es = EncodeAVPs(rest)
    OBVIOUS
  <2>5. e \in Seq(Byte) /\ es \in Seq(Byte) /\ EncodeAVPs(attrs) = e \o es /\ Len(e) >= 2
    <3>1. EncodeAVPs(rest) \in Bytes /\ EncodeAVPs(<<a>> \o rest) = EncodeAVP(a) \o EncodeAVPs(rest)
      BY <2>2, EncodeFirst
    <3>2. /\ EncodeAVP(a) \in Bytes /\ Len(EncodeAVP(a)) = 2 + Len(a.value.octets)
          /\ Len(a.value.octets) \in Nat
      BY <2>2, EncodeAVPEncodes
    <3>3. Len(EncodeAVP(a)) >= 2
      BY <3>2
    <3> QED BY <2>1, <2>3, <2>4, <3>1, <3>2, <3>3 DEF Bytes
  <2>6. offset \in Nat /\ offset >= 20
    BY <1>0
  <2>7. PICK st : st = e \o es
    OBVIOUS
  <2>8. Ends(body, offset, st)
    BY <2>5, <2>7
  <2>9. /\ Ends(body, offset + Len(e), es)
        /\ offset + Len(e) \in Nat /\ offset + Len(e) <= Len(body)
        /\ \A i \in 1 .. Len(e) : body[offset + i] = e[i]
    <3>1. Follows(body, offset, e, es)
      BY <1>0, <2>5, <2>6, <2>7, <2>8, EndsLater
    <3> QED BY <3>1 DEF Follows
  <2>10. /\ IsWhole(body, offset) /\ offset # Len(body)
         /\ NextAVP(body, offset) = offset + Len(e)
         /\ AVPAt(body, offset) = a
    BY <2>3, <2>6, <2>9, WrittenAVPRead
  <2>11. PICK next \in 20 .. Len(body) : next = offset + Len(e)
    BY <1>0, <2>5, <2>6, <2>9
  <2>12. f[next] = rest
    <3>1. ReadAgain(f, body, rest)
      BY <1>2, <2>1
    <3> QED BY <2>4, <2>9, <2>11, <3>1 DEF ReadAgain
  <2>13. rest # None
    BY <2>2, WireAssumption
  <2>14. f[offset] = <<a>> \o rest
    BY <2>10, <2>11, <2>12, <2>13 DEF AVPsFrom
  <2> QED BY <2>1, <2>14
<1> HIDE DEF T
<1>3. \A k \in Nat : k \in T
  BY <1>1, <1>2, NatSteps
<1>4. ASSUME NEW attrs \in Seq(ShortAVP) PROVE ReadAgain(f, body, attrs)
  BY <1>3, <1>s DEF T
<1> QED BY <1>4

LEMMA LaidAttrsRead ==
  ASSUME NEW p, NEW attrs \in Seq(ShortAVP), NEW avps \in Seq(Byte), NEW e,
         avps = EncodeAVPs(attrs), Laid(e, p, avps)
  PROVE  ParseAVPs(e) = attrs
<1>1. e \in Seq(Byte) /\ e \in Bytes /\ Len(e) = 20 + Len(avps) /\ Len(avps) \in Nat /\ Len(e) >= 20
  BY DEF Laid, Bytes
<1>2. PICK f : /\ ParseAVPs(e) = f[20]
               /\ \A offset \in 20 .. Len(e) : f[offset] = AVPsFrom(e, offset, f)
  BY <1>1, ParseAVPsParses
<1>3. ReadAgain(f, e, attrs)
  BY <1>1, <1>2, WrittenIsRead
<1>4. Ends(e, 20, avps)
  <2>1. \A i \in 1 .. Len(avps) : e[i + 20] = avps[i] /\ i + 20 = 20 + i
    BY <1>1 DEF Laid
  <2>2. \A i \in 1 .. Len(avps) : e[20 + i] = avps[i]
    BY <2>1
  <2> QED BY <1>1, <2>2 DEF Ends
<1>5. 20 \in 20 .. Len(e)
  BY <1>1
<1> QED BY <1>2, <1>3, <1>4, <1>5 DEF ReadAgain

LEMMA LaidAuthRead ==
  ASSUME NEW p, NEW avps \in Seq(Byte), NEW e, Laid(e, p, avps),
         NEW o \in Seq(Byte), o = p.auth.octets, Len(o) = 16
  PROVE  SubSeq(e, 5, 20) = o
<1>1. e \in Seq(Byte) /\ Len(e) = 20 + Len(avps) /\ Len(avps) \in Nat /\ Len(e) >= 20
  BY DEF Laid
<1>2. PICK auth : auth = SubSeq(e, 5, 20)
  OBVIOUS
<1>3. 4 \in Nat /\ 20 \in Nat /\ 4 <= 20 /\ 5 = 4 + 1 /\ 20 - 4 = 16
  OBVIOUS
<1>4. Part(auth, e, 4, 20)
  BY <1>1, <1>2, <1>3, SubSeqPart
<1>5. auth \in Seq(Byte) /\ Len(auth) = 16 /\ \A i \in 1 .. 16 : auth[i] = e[4 + i]
  BY <1>3, <1>4 DEF Part
<1>6. ASSUME NEW i \in 1 .. 16 PROVE auth[i] = o[i]
  <2>1. e[i + 4] = o[i]
    BY DEF Laid
  <2>2. i + 4 = 4 + i
    OBVIOUS
  <2>3. e[4 + i] = o[i]
    BY ONLY <2>1, <2>2
  <2>4. auth[i] = e[4 + i]
    BY ONLY <1>5, i \in 1 .. 16
  <2> QED BY ONLY <2>3, <2>4
<1>7. auth = o
  BY ONLY <1>5, <1>6, o \in Seq(Byte), Len(o) = 16, SeqEqual
<1> QED BY <1>2, <1>7

ShortPacket(e) == Len(e) < 65536

(* Nothing is lost on the way from packet to octets and back, as long as   *)
(* values and packet are not too long.                                     *)
LEMMA EncodedPacketIsRead ==
  ASSUME NEW p \in OctetPacket, NEW attrs \in Seq(ShortAVP), attrs = p.attrs,
         NEW e, e = EncodePacket(p), ShortPacket(e)
  PROVE  e \in Bytes /\ ParsePacket(e) = p
<1>2. PICK avps : avps = EncodeAVPs(attrs)
  OBVIOUS
<1>3. Laid(e, p, avps)
  BY <1>2, EncodePacketLays
<1>4. PICK n : n = Len(e)
  OBVIOUS
<1>5. avps \in Seq(Byte)
  <2>1. Attribute(0, <<>>) \in OctetAVP
    <3>1. 0 \in Byte /\ <<>> \in Bytes
      BY ONLY DEF Byte, Bytes
    <3> QED BY ONLY <3>1, AttributeType
  <2>2. attrs \in Seq(OctetAVP)
    BY ONLY attrs = p.attrs, p \in OctetPacket DEF OctetPacket
  <2>3. EncodeAVPs(attrs) \in Bytes
    BY ONLY <2>1, <2>2, EncodeFirst
  <2> QED BY ONLY <1>2, <2>3 DEF Bytes
<1>6. e \in Seq(Byte) /\ n \in Nat /\ n >= 20 /\ n = 20 + Len(avps) /\ Len(avps) \in Nat
  <2>1. e \in Seq(Byte) /\ n = 20 + Len(avps)
    BY ONLY <1>3, <1>4 DEF Laid
  <2>2. Len(avps) \in Nat
    BY ONLY <1>5
  <2> QED BY ONLY <2>1, <2>2
<1>a. n < 65536
  BY ONLY <1>4, ShortPacket(e) DEF ShortPacket
<1>7. Length(e) = n
  <2>1. e[3] = PutUint16(n)[1] /\ e[4] = PutUint16(n)[2]
    BY ONLY <1>3, <1>4 DEF Laid
  <2>2. Uint16(PutUint16(n)[1], PutUint16(n)[2]) = n
    BY ONLY <1>6, <1>a, PutUint16Puts
  <2> QED BY ONLY <2>1, <2>2 DEF Length
<1>8. LooksLikeRadius(e)
  BY ONLY <1>4, <1>6, <1>7 DEF LooksLikeRadius
<1>9. SubSeq(e, 1, n) = e
  <2>1. e \in Seq(Byte)
    BY <1>6
  <2>2. SubSeq(e, 1, Len(e)) = e
    BY ONLY <2>1, SubSeqFull
  <2> QED BY ONLY <1>4, <2>2
<1>10. ParseAVPs(e) = attrs
  BY ONLY <1>2, <1>3, <1>5, LaidAttrsRead, attrs \in Seq(ShortAVP)
<1>11. Octets(16, SubSeq(e, 5, 20)) = p.auth
  <2>1. PICK o : o = p.auth.octets
    OBVIOUS
  <2>2. o \in Seq(Byte) /\ Len(o) = 16 /\ p.auth = Octets(16, o)
    BY ONLY <2>1, p \in OctetPacket DEF OctetPacket, OctetValue, Octets, Bytes
  <2>3. SubSeq(e, 5, 20) = o
    BY ONLY <1>3, <1>5, <2>1, <2>2, LaidAuthRead
  <2> QED BY ONLY <2>2, <2>3
<1>12. PacketIn(e) = p
  <2>1. e[1] = p.code /\ e[2] = p.ident
    BY ONLY <1>3 DEF Laid
  <2>2. PacketIn(e) = [code |-> p.code, ident |-> p.ident, auth |-> p.auth, attrs |-> p.attrs]
    BY ONLY <1>10, <1>11, <2>1, attrs = p.attrs DEF PacketIn
  <2> QED BY ONLY <2>2, p \in OctetPacket DEF OctetPacket
<1>13. p.attrs # None
  BY ONLY WireAssumption, p \in OctetPacket DEF OctetPacket
<1>14. ParsePacket(e) = p
  BY ONLY <1>4, <1>7, <1>8, <1>9, <1>12, <1>13 DEF ParsePacket
<1> QED BY ONLY <1>6, <1>14 DEF Bytes
----------------------------------------------------------------------------
(* What the attributes of a packet say, type by type. *)
Silent(attrs, typ) == \A i \in 1 .. Len(attrs) : attrs[i].type # typ
First(attrs, typ, w, i) ==
    /\ i \in 1 .. Len(attrs) /\ attrs[i].type = typ /\ attrs[i].value.octets = w
    /\ \A j \in 1 .. i - 1 : attrs[j].type # typ
Says(attrs, typ, w) == (w = <<>> /\ Silent(attrs, typ)) \/ \E i \in Nat : First(attrs, typ, w, i)

(* Of the types in T the attributes say v, and of others nothing. *)
Tells(attrs, S, v, T, n) ==
    /\ attrs \in Seq(S) /\ Len(attrs) <= n
    /\ \A typ \in T : Says(attrs, typ, v[typ])
    /\ \A typ \in Byte \ T : Silent(attrs, typ)

LEMMA SaysValue ==
  ASSUME NEW p, NEW attrs \in Seq(OctetAVP), p.attrs = attrs, NEW typ, NEW w, Says(attrs, typ, w)
  PROVE  ValueOf(p, typ) = w
<1>1. Len(attrs) \in Nat /\ DOMAIN attrs = 1 .. Len(attrs)
  OBVIOUS
<1>2. At(p, typ) = {i \in 1 .. Len(attrs) : attrs[i].type = typ}
  BY <1>1 DEF At
<1>3. CASE w = <<>> /\ Silent(attrs, typ)
  <2>1. At(p, typ) = {}
    BY <1>2, <1>3 DEF Silent
  <2> QED BY <1>3, <2>1 DEF ValueOf, HasAttribute
<1>4. CASE \E i \in Nat : First(attrs, typ, w, i)
  <2>1. PICK i \in Nat : First(attrs, typ, w, i)
    BY <1>4
  <2>2. i \in At(p, typ) /\ \A j \in At(p, typ) : i <= j
    BY <1>1, <1>2, <2>1 DEF First
  <2>3. At(p, typ) \in SUBSET Nat /\ At(p, typ) # {}
    BY <1>1, <1>2, <2>2
  <2>4. PICK m : m = Min(At(p, typ))
    OBVIOUS
  <2>5. m \in At(p, typ) /\ m <= i
    BY <2>2, <2>3, <2>4, MinNat
  <2>6. m = i
    BY <1>1, <1>2, <2>2, <2>5
  <2>7. AttributeValue(p, typ).octets = w
    BY <2>1, <2>4, <2>6 DEF First, AttributeValue
  <2> QED BY <2>3, <2>7 DEF ValueOf, HasAttribute
<1> QED BY <1>3, <1>4 DEF Says

LEMMA TellsOne ==
  ASSUME NEW S, NEW v, NEW typ \in Byte, NEW w \in Bytes, v[typ] = w, Attribute(typ, w) \in S
  PROVE  /\ Tells(<<Attribute(typ, w)>>, S, v, {typ}, 1)
         /\ Tells(Optional(typ, w), S, v, {typ}, 1)
<1>1. PICK a \in S : a = Attribute(typ, w)
  OBVIOUS
<1>2. a.type = typ /\ a.value.octets = w
  BY <1>1, AttributeType
<1>3. PICK one : one = <<a>>
  OBVIOUS
<1>4. one \in Seq(S) /\ Len(one) = 1 /\ one[1] = a
  BY <1>3
<1>5. First(one, typ, w, 1)
  BY <1>2, <1>4 DEF First
<1>6. \A t \in Byte \ {typ} : Silent(one, t)
  BY <1>2, <1>4 DEF Silent
<1>7. Tells(one, S, v, {typ}, 1)
  BY <1>4, <1>5, <1>6 DEF Tells, Says
<1>8. CASE w = <<>>
  <2>1. PICK none : none = <<>>
    OBVIOUS
  <2>2. none \in Seq(S) /\ Len(none) = 0
    BY <2>1
  <2>3. \A t : Silent(none, t)
    BY <2>2 DEF Silent
  <2>4. Tells(none, S, v, {typ}, 1)
    BY <1>8, <2>2, <2>3 DEF Tells, Says
  <2> QED BY <1>1, <1>3, <1>7, <1>8, <2>1, <2>4 DEF Optional
<1>9. CASE w # <<>>
  BY <1>1, <1>3, <1>7, <1>9 DEF Optional
<1> QED BY <1>8, <1>9

Parted(W, T, U) == T \subseteq Byte /\ U \subseteq Byte /\ T \cap U = {} /\ W = T \cup U

LEMMA TellsJoin ==
  ASSUME NEW S, NEW v, NEW W, NEW T, NEW U, Parted(W, T, U),
         NEW m \in Nat, NEW n \in Nat, NEW k, k = m + n,
         NEW s, Tells(s, S, v, T, m), NEW t, Tells(t, S, v, U, n), NEW st, st = s \o t
  PROVE  Tells(st, S, v, W, k)
<1>1. s \in Seq(S) /\ t \in Seq(S) /\ Len(s) \in Nat /\ Len(t) \in Nat /\ Len(s) <= m /\ Len(t) <= n
  BY DEF Tells
<1>2. /\ st \in Seq(S) /\ Len(st) = Len(s) + Len(t)
      /\ \A i \in 1 .. Len(s) + Len(t) : st[i] = IF i <= Len(s) THEN s[i] ELSE t[i - Len(s)]
  BY <1>1, ConcatProperties
<1>3. Len(st) <= k
  BY <1>1, <1>2
<1>p. T \subseteq Byte /\ U \subseteq Byte /\ T \cap U = {} /\ W = T \cup U
  BY DEF Parted
<1>4. ASSUME NEW typ, Silent(s, typ), Silent(t, typ) PROVE Silent(st, typ)
  <2> SUFFICES ASSUME NEW i \in 1 .. Len(st) PROVE st[i].type # typ
    BY DEF Silent
  <2>1. CASE i <= Len(s)
    <3>1. i \in 1 .. Len(s) /\ st[i] = s[i]
      BY <1>1, <1>2, <2>1
    <3> QED BY <1>4, <3>1 DEF Silent
  <2>2. CASE ~(i <= Len(s))
    <3>1. i - Len(s) \in 1 .. Len(t) /\ st[i] = t[i - Len(s)]
      BY <1>1, <1>2, <2>2
    <3> QED BY <1>4, <3>1 DEF Silent
  <2> QED BY <2>1, <2>2
<1>5. ASSUME NEW typ, NEW w, NEW i \in Nat, First(s, typ, w, i) PROVE First(st, typ, w, i)
  <2>1. i \in 1 .. Len(st) /\ \A j \in 1 .. i : st[j] = s[j]
    BY <1>1, <1>2, <1>5 DEF First
  <2> QED BY <1>1, <1>5, <2>1 DEF First
<1>6. ASSUME NEW typ, NEW w, NEW i \in Nat, First(t, typ, w, i), Silent(s, typ)
      PROVE  First(st, typ, w, i + Len(s))
  <2>1. PICK l \in Nat : l = i + Len(s)
    BY <1>1
  <2>2. l \in 1 .. Len(st) /\ ~(l <= Len(s)) /\ l - Len(s) = i /\ i \in 1 .. Len(t)
    BY <1>1, <1>2, <1>6, <2>1 DEF First
  <2>3. st[l] = t[i]
    BY <1>2, <2>2
  <2>4. ASSUME NEW j \in 1 .. l - 1 PROVE st[j].type # typ
    <3>1. CASE j <= Len(s)
      <4>1. j \in 1 .. Len(s) /\ st[j] = s[j]
        BY <1>1, <1>2, <2>2, <3>1
      <4> QED BY <1>6, <4>1 DEF Silent
    <3>2. CASE ~(j <= Len(s))
      <4>1. j - Len(s) \in 1 .. i - 1 /\ st[j] = t[j - Len(s)]
        BY <1>1, <1>2, <2>1, <2>2, <3>2
      <4> QED BY <1>6, <4>1 DEF First
    <3> QED BY <3>1, <3>2
  <2>5. t[i].type = typ /\ t[i].value.octets = w
    BY <1>6 DEF First
  <2> QED BY <2>1, <2>2, <2>3, <2>4, <2>5 DEF First
<1>7. ASSUME NEW typ \in T PROVE Says(st, typ, v[typ])
  <2>1. Says(s, typ, v[typ]) /\ Silent(t, typ)
    BY <1>p DEF Tells
  <2> QED BY <1>4, <1>5, <2>1 DEF Says
<1>8. ASSUME NEW typ \in U PROVE Says(st, typ, v[typ])
  <2>1. Says(t, typ, v[typ]) /\ Silent(s, typ)
    BY <1>p DEF Tells
  <2>2. CASE v[typ] = <<>> /\ Silent(t, typ)
    BY <1>4, <2>1, <2>2 DEF Says
  <2>3. CASE \E i \in Nat : First(t, typ, v[typ], i)
    <3>1. PICK i \in Nat : First(t, typ, v[typ], i)
      BY <2>3
    <3>2. PICK l \in Nat : l = i + Len(s)
      BY <1>1
    <3>3. First(st, typ, v[typ], l)
      BY <1>6, <2>1, <3>1, <3>2
    <3> QED BY <3>3 DEF Says
  <2> QED BY <2>1, <2>2, <2>3 DEF Says
<1>9. \A typ \in Byte \ W : Silent(st, typ)
  BY <1>4, <1>p DEF Tells
<1> QED BY <1>2, <1>3, <1>p, <1>7, <1>8, <1>9 DEF Tells
----------------------------------------------------------------------------
(* The attributes that are asked for say what they were asked to say. *)
Wants(v, a) ==
    /\ v[1] = a.userName /\ v[4] = a.nasIP
    /\ v[31] = a.callingStation /\ v[32] = a.nasIdentifier
WantsSession(v, a) ==
    /\ v[44] = a.sessionID /\ v[40] = Uint32(a.statusType)
    /\ v[46] = Counter(a.sessionTime) /\ v[42] = Counter(a.inputOctets)
    /\ v[43] = Counter(a.outputOctets) /\ v[49] = Counter(a.terminateCause)
Holds(S, v) == \A typ \in Byte : v[typ] \in Bytes /\ Attribute(typ, v[typ]) \in S

LEMMA Pair ==
  ASSUME NEW x, NEW y
  PROVE  <<x, y>> = <<x>> \o <<y>>
<1> DEFINE S == {x, y}
<1>1. <<x>> \in Seq(S) /\ <<y>> \in Seq(S) /\ <<x, y>> \in Seq(S)
  OBVIOUS
<1>2. PICK c : c = <<x>> \o <<y>>
  OBVIOUS
<1>3. c \in Seq(S) /\ Len(c) = 2 /\ c[1] = x /\ c[2] = y
  <2>1. PICK s \in Seq(S), t \in Seq(S) : s = <<x>> /\ t = <<y>>
    BY <1>1
  <2>2. /\ s \o t \in Seq(S) /\ Len(s \o t) = Len(s) + Len(t)
        /\ \A i \in 1 .. Len(s) + Len(t) : (s \o t)[i] = IF i <= Len(s) THEN s[i] ELSE t[i - Len(s)]
    BY ConcatProperties
  <2>3. Len(s) = 1 /\ Len(t) = 1 /\ s[1] = x /\ t[1] = y
    BY <2>1
  <2> QED BY <1>2, <2>1, <2>2, <2>3
<1>4. PICK d : d = <<x, y>>
  OBVIOUS
<1>5. d \in Seq(S) /\ Len(d) = 2 /\ d[1] = x /\ d[2] = y
  BY <1>1, <1>4
<1>6. c = d
  <2> HIDE DEF S
  <2>1. Len(c) = Len(d) /\ \A i \in 1 .. Len(c) : c[i] = d[i]
    BY <1>3, <1>5
  <2> QED BY <1>3, <1>5, <2>1, SeqEqual
<1> QED BY <1>2, <1>4, <1>6

LEMMA PairTells ==
  ASSUME NEW S, NEW v, Holds(S, v), NEW t \in Byte, NEW u \in Byte, t # u,
         NEW x, x = v[t], NEW y, y = v[u]
  PROVE  Tells(<<Attribute(t, x), Attribute(u, y)>>, S, v, {t, u}, 2)
<1>1. x \in Bytes /\ Attribute(t, x) \in S /\ y \in Bytes /\ Attribute(u, y) \in S
  BY DEF Holds
<1>2. PICK s : s = <<Attribute(t, x)>>
  OBVIOUS
<1>3. PICK r : r = <<Attribute(u, y)>>
  OBVIOUS
<1>4. PICK st : st = s \o r
  OBVIOUS
<1>5. Tells(s, S, v, {t}, 1) /\ Tells(r, S, v, {u}, 1)
  BY <1>1, <1>2, <1>3, TellsOne
<1>6. Parted({t, u}, {t}, {u}) /\ 1 \in Nat /\ 2 = 1 + 1
  BY DEF Parted
<1>7. Tells(st, S, v, {t, u}, 2)
  BY <1>4, <1>5, <1>6, TellsJoin
<1> QED BY <1>2, <1>3, <1>4, <1>7, Pair

(* One more attribute, if it is asked for. *)
OneMore(W, k, T, n, t) ==
    /\ T \subseteq Byte /\ t \in Byte \ T /\ W = T \cup {t}
    /\ n \in Nat /\ k = n + 1

LEMMA OneMoreTells ==
  ASSUME NEW S, NEW v, Holds(S, v), NEW T, NEW n, NEW s, Tells(s, S, v, T, n),
         NEW t, NEW x, x = v[t], NEW W, NEW k, OneMore(W, k, T, n, t)
  PROVE  Tells(s \o Optional(t, x), S, v, W, k)
<1>0. T \subseteq Byte /\ t \in Byte \ T /\ W = T \cup {t} /\ n \in Nat /\ k = n + 1
  BY DEF OneMore
<1>1. x \in Bytes /\ Attribute(t, x) \in S
  BY <1>0 DEF Holds
<1>2. PICK o : o = Optional(t, x)
  OBVIOUS
<1>3. Tells(o, S, v, {t}, 1)
  BY <1>0, <1>1, <1>2, TellsOne
<1>4. PICK st : st = s \o o
  OBVIOUS
<1>5. PICK U : U = {t}
  OBVIOUS
<1>6. PICK m \in Nat : m = 1
  OBVIOUS
<1>7. Parted(W, T, U) /\ k = n + m /\ Tells(o, S, v, U, m)
  BY <1>0, <1>3, <1>5, <1>6 DEF Parted
<1>8. Tells(st, S, v, W, k)
  BY ONLY <1>0, <1>4, <1>7, TellsJoin, Tells(s, S, v, T, n), m \in Nat
<1> QED BY <1>2, <1>4, <1>8

LEMMA IdentityTells ==
  ASSUME NEW S, NEW v, Holds(S, v), NEW a, Wants(v, a)
  PROVE  Tells(Identity(a), S, v, {1, 4, 31, 32}, 4)
<1>1. PICK s : s = <<Attribute(1, a.userName), Attribute(4, a.nasIP)>>
  OBVIOUS
<1>2. PICK t : t = s \o Optional(31, a.callingStation)
  OBVIOUS
<1>3. PICK u : u = t \o Optional(32, a.nasIdentifier)
  OBVIOUS
<1>4. {1, 4, 31, 32} \subseteq Byte
  BY DEF Byte
<1>5. Tells(s, S, v, {1, 4}, 2)
  BY <1>1, <1>4, PairTells DEF Wants
<1>6. Tells(t, S, v, {1, 4, 31}, 3)
  <2>1. OneMore({1, 4, 31}, 3, {1, 4}, 2, 31)
    BY <1>4 DEF OneMore
  <2> QED BY <1>2, <1>5, <2>1, OneMoreTells DEF Wants
<1>7. Tells(u, S, v, {1, 4, 31, 32}, 4)
  <2>1. OneMore({1, 4, 31, 32}, 4, {1, 4, 31}, 3, 32)
    BY <1>4 DEF OneMore
  <2> QED BY <1>3, <1>6, <2>1, OneMoreTells DEF Wants
<1> QED BY <1>1, <1>2, <1>3, <1>7 DEF Identity

LEMMA SessionTells ==
  ASSUME NEW S, NEW v, Holds(S, v), NEW a, WantsSession(v, a)
  PROVE  Tells(Session(a), S, v, {44, 40, 46, 42, 43, 49}, 6)
<1>1. PICK s : s = <<Attribute(44, a.sessionID), Attribute(40, Uint32(a.statusType))>>
  OBVIOUS
<1>2. PICK t : t = s \o Optional(46, Counter(a.sessionTime))
  OBVIOUS
<1>3. PICK u : u = t \o Optional(42, Counter(a.inputOctets))
  OBVIOUS
<1>4. PICK w : w = u \o Optional(43, Counter(a.outputOctets))
  OBVIOUS
<1>5. PICK x : x = w \o Optional(49, Counter(a.terminateCause))
  OBVIOUS
<1>6. {44, 40, 46, 42, 43, 49} \subseteq Byte
  BY DEF Byte
<1>7. Tells(s, S, v, {44, 40}, 2)
  BY <1>1, <1>6, PairTells DEF WantsSession
<1>8. Tells(t, S, v, {44, 40, 46}, 3)
  <2>1. OneMore({44, 40, 46}, 3, {44, 40}, 2, 46)
    BY <1>6 DEF OneMore
  <2> QED BY <1>2, <1>7, <2>1, OneMoreTells DEF WantsSession
<1>9. Tells(u, S, v, {44, 40, 46, 42}, 4)
  <2>1. OneMore({44, 40, 46, 42}, 4, {44, 40, 46}, 3, 42)
    BY <1>6 DEF OneMore
  <2> QED BY <1>3, <1>8, <2>1, OneMoreTells DEF WantsSession
<1>10. Tells(w, S, v, {44, 40, 46, 42, 43}, 5)
  <2>1. OneMore({44, 40, 46, 42, 43}, 5, {44, 40, 46, 42}, 4, 43)
    BY <1>6 DEF OneMore
  <2> QED BY <1>4, <1>9, <2>1, OneMoreTells DEF WantsSession
<1>11. Tells(x, S, v, {44, 40, 46, 42, 43, 49}, 6)
  <2>1. OneMore({44, 40, 46, 42, 43, 49}, 6, {44, 40, 46, 42, 43}, 5, 49)
    BY <1>6 DEF OneMore
  <2> QED BY <1>5, <1>10, <2>1, OneMoreTells DEF WantsSession
<1> QED BY <1>1, <1>2, <1>3, <1>4, <1>5, <1>11 DEF Session

LEMMA AccountingTells ==
  ASSUME NEW S, NEW v, Holds(S, v), NEW a, Wants(v, a), WantsSession(v, a)
  PROVE  Tells(Identity(a) \o Session(a), S, v, {1, 4, 31, 32, 44, 40, 46, 42, 43, 49}, 10)
<1>1. PICK s : s = Identity(a)
  OBVIOUS
<1>2. PICK t : t = Session(a)
  OBVIOUS
<1>3. PICK st : st = s \o t
  OBVIOUS
<1>4. PICK T : T = {1, 4, 31, 32}
  OBVIOUS
<1>5. PICK U : U = {44, 40, 46, 42, 43, 49}
  OBVIOUS
<1>6. PICK W : W = {1, 4, 31, 32, 44, 40, 46, 42, 43, 49}
  OBVIOUS
<1>7. T \subseteq Byte /\ U \subseteq Byte /\ T \cap U = {}
  BY <1>4, <1>5 DEF Byte
<1>8. Parted(W, T, U)
  BY <1>4, <1>5, <1>6, <1>7 DEF Parted
<1>9. Tells(s, S, v, T, 4) /\ Tells(t, S, v, U, 6)
  BY <1>1, <1>2, <1>4, <1>5, IdentityTells, SessionTells
<1>10. PICK m \in Nat, n \in Nat, k \in Nat : m = 4 /\ n = 6 /\ k = 10
  OBVIOUS
<1>11. k = m + n /\ Tells(s, S, v, T, m) /\ Tells(t, S, v, U, n)
  BY <1>9, <1>10
<1>12. Tells(st, S, v, W, k)
  BY ONLY <1>3, <1>8, <1>11, TellsJoin, m \in Nat, n \in Nat
<1> QED BY <1>1, <1>2, <1>3, <1>6, <1>10, <1>12
----------------------------------------------------------------------------
(* Packets that are built. *)
LEMMA EncodedLength ==
  ASSUME NEW attrs \in Seq(ShortAVP)
  PROVE  EncodeAVPs(attrs) \in Seq(Byte) /\ Len(EncodeAVPs(attrs)) <= 255 * Len(attrs)
<1> DEFINE T == {k \in Nat : \A s \in Seq(ShortAVP) :
                   Len(s) = k => EncodeAVPs(s) \in Seq(Byte) /\ Len(EncodeAVPs(s)) <= 255 * k}
<1>s. ShortAVP \subseteq OctetAVP
  BY DEF ShortAVP
<1>1. 0 \in T
  <2> SUFFICES ASSUME NEW s \in Seq(ShortAVP), Len(s) = 0
               PROVE  EncodeAVPs(s) \in Seq(Byte) /\ Len(EncodeAVPs(s)) <= 255 * 0
    OBVIOUS
  <2>1. s = <<>>
    BY EmptySeq
  <2>2. PICK e : e = EncodeAVPs(s)
    OBVIOUS
  <2>3. e = <<>>
    BY <2>1, <2>2, EncodeNone
  <2>4. e \in Seq(Byte) /\ Len(e) = 0
    BY <2>3
  <2> QED BY <2>2, <2>4
<1>2. ASSUME NEW k \in Nat, k \in T PROVE k + 1 \in T
  <2> SUFFICES ASSUME NEW s \in Seq(ShortAVP), Len(s) = k + 1
               PROVE  EncodeAVPs(s) \in Seq(Byte) /\ Len(EncodeAVPs(s)) <= 255 * (k + 1)
    OBVIOUS
  <2>1. PICK a \in ShortAVP, rest \in Seq(ShortAVP) : s = <<a>> \o rest /\ Len(rest) = k
    BY NextOfSeq, Zenon
  <2>2. EncodeAVPs(rest) \in Seq(Byte) /\ Len(EncodeAVPs(rest)) <= 255 * k
    BY <1>2, <2>1
  <2>3. a \in OctetAVP /\ rest \in Seq(OctetAVP) /\ Len(a.value.octets) <= 253
    BY <1>s DEF ShortAVP
  <2>4. EncodeAVPs(s) = EncodeAVP(a) \o EncodeAVPs(rest)
    BY <2>1, <2>3, EncodeFirst
  <2>5. /\ EncodeAVP(a) \in Seq(Byte) /\ Len(EncodeAVP(a)) = 2 + Len(a.value.octets)
        /\ Len(a.value.octets) \in Nat
    BY <2>3, EncodeAVPEncodes DEF Bytes
  <2>6. Len(EncodeAVP(a)) <= 255
    BY <2>3, <2>5
  <2>7. PICK e \in Seq(Byte), es \in Seq(Byte) : e = EncodeAVP(a) /\ es = EncodeAVPs(rest)
    BY <2>2, <2>5
  <2>8. e \o es \in Seq(Byte) /\ Len(e \o es) = Len(e) + Len(es)
    BY ConcatProperties
  <2>9. PICK c : c = e \o es
    OBVIOUS
  <2>10. c \in Seq(Byte) /\ Len(c) = Len(e) + Len(es)
    BY <2>8, <2>9
  <2>11. Len(e) \in Nat /\ Len(es) \in Nat /\ Len(e) <= 255 /\ Len(es) <= 255 * k
    BY <2>2, <2>6, <2>7
  <2>12. Len(c) <= 255 * (k + 1)
    BY <2>10, <2>11
  <2>13. EncodeAVPs(s) = c
    BY <2>4, <2>7, <2>9
  <2> QED BY <2>10, <2>12, <2>13
<1> HIDE DEF T
<1>3. \A k \in Nat : k \in T
  BY <1>1, <1>2, NatSteps
<1>4. Len(attrs) \in Nat /\ Len(attrs) \in T
  BY <1>3
<1> QED BY <1>4 DEF T

Made(code, a, attrs) == [code |-> code, ident |-> a.ident, auth |-> Octets(16, a.auth), attrs |-> attrs]

LEMMA MadeType ==
  ASSUME NEW code \in Byte, NEW a \in Params, NEW attrs \in Seq(OctetAVP)
  PROVE  Made(code, a, attrs) \in OctetPacket
<1>1. a.ident \in Byte /\ a.auth \in Bytes /\ Len(a.auth) = 16
  BY DEF Params
<1>2. Octets(16, a.auth) \in OctetValue /\ Octets(16, a.auth).len = 16
  BY <1>1 DEF Octets, OctetValue
<1> QED BY <1>1, <1>2 DEF Made, OctetPacket

LEMMA BuildPacketType ==
  ASSUME NEW code \in Byte, NEW a \in Params, NEW attrs \in Seq(OctetAVP)
  PROVE  BuildPacket(code, a, attrs) \in Bytes
<1>1. PICK p : p = Made(code, a, attrs)
  OBVIOUS
<1>2. p \in OctetPacket
  BY <1>1, MadeType
<1>3. PICK avps : avps = EncodeAVPs(p.attrs)
  OBVIOUS
<1>4. PICK e : e = EncodePacket(p)
  OBVIOUS
<1>5. Laid(e, p, avps)
  BY <1>2, <1>3, <1>4, EncodePacketLays
<1>6. e \in Bytes
  BY <1>5 DEF Laid, Bytes
<1>7. <<>> \in Bytes
  BY DEF Bytes
<1>8. BuildPacket(code, a, attrs) = e \/ BuildPacket(code, a, attrs) = <<>>
  BY <1>1, <1>4 DEF BuildPacket, Made
<1> QED BY <1>6, <1>7, <1>8

LEMMA BuildPacketBuilds ==
  ASSUME NEW code \in Byte, NEW a \in Params, NEW attrs \in Seq(ShortAVP), Len(attrs) <= 10
  PROVE  ParsePacket(BuildPacket(code, a, attrs)) = Made(code, a, attrs)
<1>1. PICK p : p = Made(code, a, attrs)
  OBVIOUS
<1>s. attrs \in Seq(OctetAVP)
  BY DEF ShortAVP
<1>2. p \in OctetPacket /\ p.attrs = attrs
  BY <1>1, <1>s, MadeType DEF Made
<1>3. PICK avps : avps = EncodeAVPs(attrs)
  OBVIOUS
<1>4. PICK e : e = EncodePacket(p)
  OBVIOUS
<1>5. Laid(e, p, avps)
  BY <1>2, <1>3, <1>4, EncodePacketLays
<1>6. Len(avps) \in Nat /\ Len(avps) <= 2550
  <2>1. avps \in Seq(Byte) /\ Len(avps) <= 255 * Len(attrs)
    BY <1>3, EncodedLength
  <2>2. Len(attrs) \in Nat /\ Len(avps) \in Nat
    BY <2>1
  <2>3. 255 * Len(attrs) <= 2550
    BY <2>2
  <2> QED BY <2>1, <2>2, <2>3
<1>7. Len(e) \in Nat /\ Len(e) <= 2570
  BY <1>5, <1>6 DEF Laid
<1>8. ShortPacket(e)
  BY ONLY <1>7 DEF ShortPacket
<1>9. ParsePacket(e) = p
  BY <1>2, <1>4, <1>8, EncodedPacketIsRead
<1>10. ~(Len(e) > 65535)
  BY ONLY <1>7
<1>11. BuildPacket(code, a, attrs) = e
  BY ONLY <1>1, <1>4, <1>10 DEF BuildPacket, Made
<1> QED BY <1>1, <1>9, <1>11

LEMMA BuiltSays ==
  ASSUME NEW code \in Byte, NEW a \in Params, NEW v, NEW T, NEW attrs, Tells(attrs, ShortAVP, v, T, 10)
  PROVE  LET p == ParsePacket(BuildPacket(code, a, attrs))
         IN  /\ p # None /\ p.code = code /\ p.ident = a.ident /\ p.auth.octets = a.auth
             /\ \A typ \in T : ValueOf(p, typ) = v[typ]
<1>1. attrs \in Seq(ShortAVP) /\ Len(attrs) <= 10 /\ \A typ \in T : Says(attrs, typ, v[typ])
  BY DEF Tells
<1>s. attrs \in Seq(OctetAVP)
  BY <1>1 DEF ShortAVP
<1>2. PICK p : p = ParsePacket(BuildPacket(code, a, attrs))
  OBVIOUS
<1>3. p = Made(code, a, attrs)
  BY <1>1, <1>2, BuildPacketBuilds
<1>4. p.code = code /\ p.ident = a.ident /\ p.auth.octets = a.auth /\ p.attrs = attrs
  BY <1>3 DEF Made, Octets
<1>5. p # None
  BY <1>3, <1>s, MadeType, WireAssumption
<1>6. ASSUME NEW typ \in T PROVE ValueOf(p, typ) = v[typ]
  BY <1>1, <1>s, <1>4, SaysValue
<1> QED BY <1>2, <1>4, <1>5, <1>6

Wanted(a) ==
    [typ \in Byte |->
       CASE typ = 1 -> a.userName [] typ = 4 -> a.nasIP
         [] typ = 31 -> a.callingStation [] typ = 32 -> a.nasIdentifier
         [] typ = 44 -> a.sessionID [] typ = 40 -> Uint32(a.statusType)
         [] typ = 46 -> Counter(a.sessionTime) [] typ = 42 -> Counter(a.inputOctets)
         [] typ = 43 -> Counter(a.outputOctets) [] typ = 49 -> Counter(a.terminateCause)
         [] OTHER -> <<>>]

LEMMA CounterOctets ==
  ASSUME NEW n \in Nat
  PROVE  Counter(n) \in Bytes /\ Len(Counter(n)) <= 253
<1>1. PICK u : u = Uint32(n)
  OBVIOUS
<1>2. u \in Bytes /\ Len(u) = 4
  BY <1>1, Uint32Octets
<1>3. PICK none : none = <<>>
  OBVIOUS
<1>4. none \in Bytes /\ Len(none) = 0
  BY <1>3 DEF Bytes
<1>5. Counter(n) = u \/ Counter(n) = none
  BY <1>1, <1>3 DEF Counter
<1>6. Len(u) <= 253 /\ Len(none) <= 253
  BY <1>2, <1>4
<1>7. CASE Counter(n) = u
  BY <1>2, <1>6, <1>7
<1>8. CASE Counter(n) = none
  BY <1>4, <1>6, <1>8
<1> QED BY <1>5, <1>7, <1>8

LEMMA WantedIsWanted ==
  ASSUME NEW a
  PROVE  Wants(Wanted(a), a) /\ WantsSession(Wanted(a), a)
<1>1. PICK v : v = Wanted(a)
  OBVIOUS
<1>2. {1, 4, 31, 32, 44, 40, 46, 42, 43, 49} \subseteq Byte
  BY DEF Byte
<1>3. v[1] = a.userName /\ v[4] = a.nasIP /\ v[31] = a.callingStation /\ v[32] = a.nasIdentifier
  BY <1>1, <1>2 DEF Wanted
<1>4. v[44] = a.sessionID /\ v[40] = Uint32(a.statusType)
  BY <1>1, <1>2 DEF Wanted
<1>5. v[46] = Counter(a.sessionTime) /\ v[42] = Counter(a.inputOctets)
  BY <1>1, <1>2 DEF Wanted
<1>6. v[43] = Counter(a.outputOctets) /\ v[49] = Counter(a.terminateCause)
  BY <1>1, <1>2 DEF Wanted
<1> QED BY <1>1, <1>3, <1>4, <1>5, <1>6 DEF Wants, WantsSession

ShortValue(w) == w \in Bytes /\ Len(w) <= 253
Given(a) == {a.userName, a.nasIP, a.callingStation, a.nasIdentifier, a.sessionID}
Counted(a) ==
    {Uint32(a.statusType), Counter(a.sessionTime), Counter(a.inputOctets),
     Counter(a.outputOctets), Counter(a.terminateCause), <<>>}

LEMMA WantedOctets ==
  ASSUME NEW a \in Params, a.nasIP # None
  PROVE  /\ Holds(OctetAVP, Wanted(a))
         /\ Fits(a) => Holds(ShortAVP, Wanted(a))
<1>1. \A w \in Given(a) : w \in Bytes
  BY DEF Params, Given
<1>2. Len(a.nasIP) = 4
  BY DEF Params
<1>3. ASSUME NEW w \in Counted(a) PROVE ShortValue(w)
  <2>1. /\ a.statusType \in Nat /\ a.sessionTime \in Nat /\ a.inputOctets \in Nat
        /\ a.outputOctets \in Nat /\ a.terminateCause \in Nat
    BY DEF Params
  <2>2. PICK u : u = Uint32(a.statusType)
    OBVIOUS
  <2>3. ShortValue(u)
    <3>1. u \in Bytes /\ Len(u) = 4
      BY <2>1, <2>2, Uint32Octets
    <3> QED BY <3>1 DEF ShortValue
  <2>4. PICK none : none = <<>>
    OBVIOUS
  <2>5. ShortValue(none)
    BY <2>4 DEF Bytes, ShortValue
  <2>6. \A n \in Nat : ShortValue(Counter(n))
    BY CounterOctets DEF ShortValue
  <2> QED BY <2>1, <2>2, <2>3, <2>4, <2>5, <2>6 DEF Counted
<1>4. ASSUME NEW typ \in Byte PROVE Wanted(a)[typ] \in Given(a) \cup Counted(a)
  BY DEF Wanted, Given, Counted
<1>5. ASSUME NEW typ \in Byte PROVE Wanted(a)[typ] \in Bytes
  BY <1>1, <1>3, <1>4 DEF ShortValue
<1>6. Holds(OctetAVP, Wanted(a))
  BY <1>5, AttributeType DEF Holds
<1>7. ASSUME Fits(a) PROVE Holds(ShortAVP, Wanted(a))
  <2>0. PICK n : n = a.nasIP
    OBVIOUS
  <2>b. Len(n) = 4
    BY ONLY <1>2, <2>0
  <2>a. Len(n) <= 253
    BY ONLY <2>b
  <2>1. \A w \in Given(a) : Len(w) <= 253
    BY <1>7, <2>0, <2>a DEF Given, Fits
  <2>2. ASSUME NEW typ \in Byte PROVE Len(Wanted(a)[typ]) <= 253
    BY <1>3, <1>4, <2>1 DEF ShortValue
  <2>3. ASSUME NEW typ \in Byte PROVE Attribute(typ, Wanted(a)[typ]) \in ShortAVP
    BY <1>5, <2>2, AttributeType DEF ShortAVP
  <2> QED BY <1>5, <2>3 DEF Holds
<1> QED BY <1>6, <1>7

AccessTypes == {1, 4, 31, 32}
AccountingTypes == {1, 4, 31, 32, 44, 40, 46, 42, 43, 49}

LEMMA BuiltType ==
  ASSUME NEW a \in Params
  PROVE  BuildAccessRequest(a) \in Bytes /\ BuildAccountingRequest(a) \in Bytes
<1>1. PICK none : none = <<>>
  OBVIOUS
<1>2. none \in Bytes
  BY <1>1 DEF Bytes
<1>3. CASE a.nasIP = None
  BY <1>1, <1>2, <1>3 DEF BuildAccessRequest, BuildAccountingRequest
<1>4. CASE a.nasIP # None
  <2>1. Holds(OctetAVP, Wanted(a)) /\ Wants(Wanted(a), a) /\ WantsSession(Wanted(a), a)
    BY <1>4, WantedOctets, WantedIsWanted
  <2>2. Identity(a) \in Seq(OctetAVP)
    BY <2>1, IdentityTells DEF Tells
  <2>3. Identity(a) \o Session(a) \in Seq(OctetAVP)
    BY <2>1, AccountingTells DEF Tells
  <2>4. AccessRequest \in Byte /\ AccountingRequest \in Byte
    BY DEF AccessRequest, AccountingRequest, Byte
  <2>5. /\ BuildPacket(AccessRequest, a, Identity(a)) \in Bytes
        /\ BuildPacket(AccountingRequest, a, Identity(a) \o Session(a)) \in Bytes
    BY <2>2, <2>3, <2>4, BuildPacketType
  <2> QED BY <1>1, <1>2, <2>5 DEF BuildAccessRequest, BuildAccountingRequest
<1> QED BY <1>3, <1>4

LEMMA AccessRequestSays ==
  ASSUME NEW a \in Params, Fits(a), BuildAccessRequest(a) # <<>>
  PROVE  LET p == ParsePacket(BuildAccessRequest(a))
         IN  /\ p # None /\ p.code = AccessRequest /\ p.ident = a.ident /\ p.auth.octets = a.auth
             /\ \A typ \in AccessTypes : ValueOf(p, typ) = Wanted(a)[typ]
<1>1. a.nasIP # None /\ BuildAccessRequest(a) = BuildPacket(AccessRequest, a, Identity(a))
  BY DEF BuildAccessRequest
<1>2. Holds(ShortAVP, Wanted(a)) /\ Wants(Wanted(a), a)
  BY <1>1, WantedOctets, WantedIsWanted
<1>3. PICK attrs : attrs = Identity(a)
  OBVIOUS
<1>4. Tells(attrs, ShortAVP, Wanted(a), AccessTypes, 4)
  BY <1>2, <1>3, IdentityTells DEF AccessTypes
<1>5. Tells(attrs, ShortAVP, Wanted(a), AccessTypes, 10)
  <2>1. attrs \in Seq(ShortAVP) /\ Len(attrs) <= 4
    BY <1>4 DEF Tells
  <2>2. Len(attrs) <= 10
    BY <2>1
  <2> QED BY <1>4, <2>2 DEF Tells
<1>6. AccessRequest \in Byte
  BY DEF AccessRequest, Byte
<1> QED BY <1>1, <1>3, <1>5, <1>6, BuiltSays

LEMMA AccountingRequestSays ==
  ASSUME NEW a \in Params, Fits(a), BuildAccountingRequest(a) # <<>>
  PROVE  LET p == ParsePacket(BuildAccountingRequest(a))
         IN  /\ p # None /\ p.code = AccountingRequest /\ p.ident = a.ident
             /\ p.auth.octets = a.auth
             /\ \A typ \in AccountingTypes : ValueOf(p, typ) = Wanted(a)[typ]
<1>1. /\ a.nasIP # None
      /\ BuildAccountingRequest(a) = BuildPacket(AccountingRequest, a, Identity(a) \o Session(a))
  BY DEF BuildAccountingRequest
<1>2. Holds(ShortAVP, Wanted(a)) /\ Wants(Wanted(a), a) /\ WantsSession(Wanted(a), a)
  BY <1>1, WantedOctets, WantedIsWanted
<1>3. PICK attrs : attrs = Identity(a) \o Session(a)
  OBVIOUS
<1>4. Tells(attrs, ShortAVP, Wanted(a), AccountingTypes, 10)
  BY <1>2, <1>3, AccountingTells DEF AccountingTypes
<1>5. AccountingRequest \in Byte
  BY DEF AccountingRequest, Byte
<1> QED BY <1>1, <1>3, <1>4, <1>5, BuiltSays

LEMMA BuiltIsAsked ==
  ASSUME NEW i, i.kind \in {"access", "accounting"}, i.params \in Params, Fits(i.params),
         Built(i).octets # <<>>
  PROVE  LET p == ParsePacket(Built(i).octets)
         IN  /\ p # None
             /\ p.code = IF i.kind = "access" THEN AccessRequest ELSE AccountingRequest
             /\ p.ident = i.params.ident /\ p.auth.octets = i.params.auth
             /\ \A x \in Asked(i) : ValueOf(p, x[1]) = x[2]
<1>1. PICK a : a = i.params
  OBVIOUS
<1>2. PICK v : v = Wanted(a)
  OBVIOUS
<1>3. Wants(v, a) /\ WantsSession(v, a)
  BY <1>2, WantedIsWanted
<1>4. PICK p : p = ParsePacket(Built(i).octets)
  OBVIOUS
<1>5. CASE i.kind = "access"
  <2>1. Built(i).octets = BuildAccessRequest(a)
    BY <1>1, <1>5 DEF Built
  <2>2. /\ p # None /\ p.code = AccessRequest /\ p.ident = a.ident /\ p.auth.octets = a.auth
        /\ \A typ \in AccessTypes : ValueOf(p, typ) = v[typ]
    BY <1>1, <1>2, <1>4, <2>1, AccessRequestSays
  <2>3. Asked(i) = {<<1, a.userName>>, <<4, a.nasIP>>, <<31, a.callingStation>>, <<32, a.nasIdentifier>>}
    BY <1>1, <1>5 DEF Asked
  <2>4. \A x \in Asked(i) : ValueOf(p, x[1]) = x[2]
    BY <1>3, <2>2, <2>3 DEF AccessTypes, Wants
  <2> QED BY <1>1, <1>4, <1>5, <2>2, <2>4
<1>6. CASE i.kind # "access"
  <2>1. Built(i).octets = BuildAccountingRequest(a)
    BY <1>1, <1>6 DEF Built
  <2>2. /\ p # None /\ p.code = AccountingRequest /\ p.ident = a.ident /\ p.auth.octets = a.auth
        /\ \A typ \in AccountingTypes : ValueOf(p, typ) = v[typ]
    BY <1>1, <1>2, <1>4, <2>1, AccountingRequestSays
  <2>3. /\ ValueOf(p, 1) = a.userName /\ ValueOf(p, 4) = a.nasIP
        /\ ValueOf(p, 31) = a.callingStation /\ ValueOf(p, 32) = a.nasIdentifier
    BY <1>3, <2>2 DEF AccountingTypes, Wants
  <2>4. /\ ValueOf(p, 44) = a.sessionID /\ ValueOf(p, 40) = Uint32(a.statusType)
        /\ ValueOf(p, 46) = Counter(a.sessionTime) /\ ValueOf(p, 42) = Counter(a.inputOctets)
        /\ ValueOf(p, 43) = Counter(a.outputOctets) /\ ValueOf(p, 49) = Counter(a.terminateCause)
    BY <1>3, <2>2 DEF AccountingTypes, WantsSession
  <2>5. \A x \in Asked(i) : ValueOf(p, x[1]) = x[2]
    BY <1>1, <1>6, <2>3, <2>4 DEF Asked
  <2> QED BY <1>1, <1>4, <1>6, <2>2, <2>5
<1> QED BY <1>5, <1>6
----------------------------------------------------------------------------
(* The tags of TZSP. *)
Skips(skip, d, from) == skip = [offset \in from .. Len(d) |-> TagsFrom(d, offset, skip)]

LEMMA SkipsLater ==
  ASSUME NEW d \in Seq(Byte), NEW offset \in Nat, offset <= Len(d), NEW f, NEW g,
         \A k \in offset + 1 .. Len(d) : f[k] = g[k]
  PROVE  TagsFrom(d, offset, f) = TagsFrom(d, offset, g)
<1>1. CASE offset = Len(d) \/ d[offset + 1] = 1 \/ offset + 1 = Len(d)
  BY <1>1 DEF TagsFrom
<1>2. CASE offset # Len(d) /\ d[offset + 1] # 1 /\ offset + 1 # Len(d)
  <2>1. offset + 2 \in 1 .. Len(d)
    BY <1>2
  <2>2. d[offset + 2] \in Byte
    BY <2>1
  <2>3. PICK next : next = NextTag(d, offset)
    OBVIOUS
  <2>a. PICK b \in Byte : b = d[offset + 2]
    BY <2>2
  <2>b. next = (offset + 2) + b
    BY <2>3, <2>a DEF NextTag
  <2>4. next \in Nat /\ next >= offset + 1
    BY ONLY <2>b, offset \in Nat, b \in Byte DEF Byte
  <2>5. CASE next > Len(d)
    BY <1>2, <2>3, <2>5 DEF TagsFrom
  <2>6. CASE ~(next > Len(d))
    <3>1. f[next] = g[next]
      BY <2>4, <2>6
    <3> QED BY <1>2, <2>3, <2>6, <3>1 DEF TagsFrom
  <2> QED BY <2>5, <2>6
<1> QED BY <1>1, <1>2

LEMMA SkipsExists ==
  ASSUME NEW d \in Seq(Byte)
  PROVE  \A k \in Nat : k <= Len(d) => \E f : Skips(f, d, Len(d) - k)
<1> DEFINE n == Len(d)
           T == {k \in Nat : k <= n => \E f : Skips(f, d, n - k)}
<1>0. n \in Nat
  OBVIOUS
<1>1. 0 \in T
  <2> DEFINE e == [offset \in n .. n |-> offset]
  <2>1. \A f : TagsFrom(d, n, f) = n
    BY DEF TagsFrom
  <2>2. \A offset \in n .. n : offset = n
    OBVIOUS
  <2>3. [offset \in n .. n |-> TagsFrom(d, offset, e)] = [offset \in n .. n |-> offset]
    BY <2>1, <2>2
  <2>4. Skips(e, d, n)
    BY <2>3 DEF Skips
  <2>5. n - 0 = n
    OBVIOUS
  <2> QED BY <2>4, <2>5
<1>2. ASSUME NEW k \in Nat, k \in T PROVE k + 1 \in T
  <2> SUFFICES ASSUME k + 1 <= n PROVE \E f : Skips(f, d, n - (k + 1))
    OBVIOUS
  <2> DEFINE m == n - (k + 1)
  <2>1. m \in Nat /\ m <= n /\ m + 1 = n - k
    BY <1>0
  <2>2. PICK f : Skips(f, d, m + 1)
    BY <1>0, <1>2, <2>1
  <2> SUFFICES \E g : Skips(g, d, m)
    OBVIOUS
  <2> HIDE DEF m, T
  <2>3. \A offset \in m + 1 .. n : f[offset] = TagsFrom(d, offset, f)
    BY <2>2 DEF Skips
  <2> DEFINE g == [offset \in m .. n |-> IF offset = m THEN TagsFrom(d, m, f) ELSE f[offset]]
  <2>4. (\A j \in m + 1 .. n : g[j] = f[j]) /\ g[m] = TagsFrom(d, m, f)
    BY <1>0, <2>1
  <2>5. g = [offset \in m .. n |-> g[offset]]
    OBVIOUS
  <2> HIDE DEF g
  <2>6. ASSUME NEW offset \in m .. n PROVE g[offset] = TagsFrom(d, offset, g)
    <3>1. \A j \in offset + 1 .. n : f[j] = g[j]
      BY <1>0, <2>1, <2>4
    <3>2. TagsFrom(d, offset, f) = TagsFrom(d, offset, g)
      <4>1. offset \in Nat /\ offset <= n
        BY <1>0, <2>1
      <4> QED BY <3>1, <4>1, SkipsLater
    <3>3. g[offset] = TagsFrom(d, offset, f)
      BY <1>0, <2>1, <2>3, <2>4
    <3> QED BY <3>2, <3>3
  <2>7. [offset \in m .. n |-> g[offset]] = [offset \in m .. n |-> TagsFrom(d, offset, g)]
    BY <2>6
  <2> QED BY <2>5, <2>7 DEF Skips
<1> HIDE DEF T
<1>3. \A k \in Nat : k \in T
  BY <1>1, <1>2, NatSteps
<1> QED BY <1>3 DEF T

LEMMA AfterTagsSkips ==
  ASSUME NEW d \in Seq(Byte), Len(d) >= 4
  PROVE  \E f : /\ AfterTags(d) = f[4]
                /\ \A offset \in 4 .. Len(d) : f[offset] = TagsFrom(d, offset, f)
<1> DEFINE g == CHOOSE f : f = [offset \in 4 .. Len(d) |-> TagsFrom(d, offset, f)]
<1>1. \E f : Skips(f, d, 4)
  <2>1. Len(d) - 4 \in Nat /\ Len(d) - 4 <= Len(d) /\ Len(d) - (Len(d) - 4) = 4
    OBVIOUS
  <2>2. \E f : Skips(f, d, Len(d) - (Len(d) - 4))
    BY <2>1, SkipsExists
  <2> QED BY <2>1, <2>2
<1>2. g = [offset \in 4 .. Len(d) |-> TagsFrom(d, offset, g)]
  <2>1. \E f : f = [offset \in 4 .. Len(d) |-> TagsFrom(d, offset, f)]
    BY <1>1 DEF Skips
  <2> QED BY <2>1
<1>3. AfterTags(d) = g[4]
  BY DEF AfterTags
<1> HIDE DEF g
<1>4. \A offset \in 4 .. Len(d) : g[offset] = TagsFrom(d, offset, g)
  BY <1>2
<1> QED BY <1>3, <1>4

(* The tags end within the datagram. *)
LEMMA AfterTagsType ==
  ASSUME NEW d \in Seq(Byte), Len(d) >= 4
  PROVE  AfterTags(d) \in {None} \cup 4 .. Len(d)
<1> DEFINE n == Len(d)
<1>0. n \in Nat /\ n >= 4
  OBVIOUS
<1>1. PICK f : /\ AfterTags(d) = f[4]
               /\ \A offset \in 4 .. n : f[offset] = TagsFrom(d, offset, f)
  BY AfterTagsSkips
<1> DEFINE Bad == {k \in Nat : k <= n - 4 /\ f[n - k] \notin {None} \cup 4 .. n}
<1>2. Bad = {}
  <2> SUFFICES ASSUME Bad # {} PROVE FALSE
    OBVIOUS
  <2>1. PICK k \in Bad : \A j \in Bad : k <= j
    <3>1. Bad \in SUBSET Nat
      OBVIOUS
    <3> HIDE DEF Bad
    <3> QED BY <3>1, MinNat
  <2>2. PICK offset \in 4 .. n : offset = n - k
    BY <1>0, <2>1
  <2>3. offset \in Nat /\ offset <= n /\ f[offset] \notin {None} \cup 4 .. n /\ k \in Nat
    BY <1>0, <2>1, <2>2
  <2>4. f[offset] = TagsFrom(d, offset, f)
    BY <1>1
  <2>5. CASE offset = n \/ d[offset + 1] = 1 \/ offset + 1 = n
    BY <1>0, <2>3, <2>4, <2>5 DEF TagsFrom
  <2>6. CASE offset # n /\ d[offset + 1] # 1 /\ offset + 1 # n
    <3>1. offset + 2 \in 1 .. n
      BY <1>0, <2>3, <2>6
    <3>2. d[offset + 2] \in Byte
      BY <3>1
    <3>3. PICK next : next = NextTag(d, offset)
      OBVIOUS
    <3>a. PICK b \in Byte : b = d[offset + 2]
      BY <3>2
    <3>b. next = (offset + 2) + b
      BY <3>3, <3>a DEF NextTag
    <3>4. next \in Nat /\ next >= offset + 2
      BY <2>3, <3>b DEF Byte
    <3>5. CASE next > n
      BY <2>3, <2>4, <2>6, <3>3, <3>5 DEF TagsFrom
    <3>6. CASE ~(next > n)
      <4>1. f[offset] = f[next]
        BY <2>4, <2>6, <3>3, <3>6 DEF TagsFrom
      <4>2. PICK j \in Nat : j = n - next
        BY <1>0, <3>4, <3>6
      <4>3. j < k /\ j <= n - 4 /\ n - j = next
        BY <1>0, <2>2, <2>3, <3>4, <3>6, <4>2
      <4>4. j \notin Bad
        BY <2>1, <4>3
      <4>5. f[next] \in {None} \cup 4 .. n
        BY <4>3, <4>4
      <4> QED BY <2>3, <4>1, <4>5
    <3> QED BY <3>5, <3>6
  <2> QED BY <2>5, <2>6
<1>3. n - 4 \in Nat /\ n - (n - 4) = 4 /\ n - 4 <= n - 4
  BY <1>0
<1>4. f[4] \in {None} \cup 4 .. n
  <2>1. \A k \in Nat : k <= n - 4 => f[n - k] \in {None} \cup 4 .. n
    BY <1>2
  <2> HIDE DEF n, Bad
  <2> QED BY <1>3, <2>1
<1> QED BY <1>1, <1>4

LEMMA EndsSubSeq ==
  ASSUME NEW d \in Seq(Byte), NEW s \in Seq(Byte), NEW offset \in Nat, Ends(d, offset, s),
         NEW k, k = offset + 1
  PROVE  SubSeq(d, k, Len(d)) = s
<1>1. Len(d) = offset + Len(s) /\ Len(s) \in Nat /\ \A i \in 1 .. Len(s) : d[offset + i] = s[i]
  BY DEF Ends
<1>2. PICK t : t = SubSeq(d, k, Len(d))
  OBVIOUS
<1>3. PICK n \in Nat : n = Len(d)
  OBVIOUS
<1>4. offset <= n /\ n <= Len(d) /\ n - offset = Len(s)
  BY <1>1, <1>3
<1>5. Part(t, d, offset, n)
  BY <1>2, <1>3, <1>4, SubSeqPart
<1>6. t \in Seq(Byte) /\ Len(t) = Len(s) /\ \A i \in 1 .. Len(t) : t[i] = s[i]
  BY <1>1, <1>4, <1>5 DEF Part
<1>7. t = s
  BY <1>6, SeqEqual
<1> QED BY <1>2, <1>7

Skipped(skip, d, tags, rest) ==
    \A offset \in 4 .. Len(d) :
      Ends(d, offset, FlattenSeq(tags) \o rest) => skip[offset] = offset + Len(FlattenSeq(tags)) + 1

LEMMA TagsAreSkipped ==
  ASSUME NEW d \in Seq(Byte), Len(d) >= 4, NEW f,
         \A offset \in 4 .. Len(d) : f[offset] = TagsFrom(d, offset, f),
         NEW rest \in Seq(Byte), Len(rest) >= 1, rest[1] = 1
  PROVE  \A tags \in Seq(Tag) : Skipped(f, d, tags, rest)
<1> DEFINE T == {k \in Nat : \A tags \in Seq(Tag) : Len(tags) = k => Skipped(f, d, tags, rest)}
<1>0. Len(d) \in Nat /\ Len(rest) \in Nat
  OBVIOUS
<1>s. ASSUME NEW tags \in Seq(Tag)
      PROVE  tags \in Seq(Seq(Byte)) /\ FlattenSeq(tags) \in Seq(Byte)
  <2>1. Tag \subseteq Seq(Byte)
    BY DEF Tag, Bytes
  <2>2. tags \in Seq(Seq(Byte))
    BY <2>1, SeqMonotonic
  <2> QED BY <2>2, FlattenType
<1>1. 0 \in T
  <2> SUFFICES ASSUME NEW tags \in Seq(Tag), Len(tags) = 0
               PROVE  Skipped(f, d, tags, rest)
    OBVIOUS
  <2>1. tags = <<>>
    BY EmptySeq
  <2>2. PICK none : none = FlattenSeq(tags)
    OBVIOUS
  <2>3. none = <<>>
    BY <2>1, <2>2 DEF FlattenSeq
  <2>4. none \o rest = rest /\ Len(none) = 0
    BY <2>3, ConcatEmptySeq
  <2> SUFFICES ASSUME NEW offset \in 4 .. Len(d), Ends(d, offset, FlattenSeq(tags) \o rest)
               PROVE  f[offset] = offset + Len(FlattenSeq(tags)) + 1
    BY DEF Skipped
  <2>5. Ends(d, offset, rest)
    BY <2>2, <2>4
  <2>6. 1 \in 1 .. Len(rest) /\ offset # Len(d) /\ d[offset + 1] = 1
    BY <1>0, <2>5 DEF Ends
  <2>7. f[offset] = TagsFrom(d, offset, f)
    OBVIOUS
  <2>8. f[offset] = offset + 1
    BY <2>6, <2>7 DEF TagsFrom
  <2> QED BY <2>2, <2>4, <2>8
<1>2. ASSUME NEW k \in Nat, k \in T PROVE k + 1 \in T
  <2> SUFFICES ASSUME NEW tags \in Seq(Tag), Len(tags) = k + 1
               PROVE  Skipped(f, d, tags, rest)
    OBVIOUS
  <2> SUFFICES ASSUME NEW offset \in 4 .. Len(d), Ends(d, offset, FlattenSeq(tags) \o rest)
               PROVE  f[offset] = offset + Len(FlattenSeq(tags)) + 1
    BY DEF Skipped
  <2>1. PICK t \in Tag, more \in Seq(Tag) : tags = <<t>> \o more /\ Len(more) = k
    BY NextOfSeq, Zenon
  <2>2. /\ t \in Seq(Byte) /\ Len(t) \in Nat /\ Len(t) >= 2 /\ t[1] # 1 /\ t[2] = Len(t) - 2
        /\ more \in Seq(Seq(Byte)) /\ FlattenSeq(more) \in Seq(Byte)
    BY <1>s DEF Tag, Bytes
  <2>3. PICK flat \in Seq(Byte) : flat = FlattenSeq(more)
    BY <2>2
  <2>4. FlattenSeq(tags) = t \o flat
    BY <2>1, <2>2, <2>3, FlattenFirst
  <2>5. PICK l \in Nat : l = Len(t)
    BY <2>2
  <2>6. Len(t \o flat) = Len(t) + Len(flat) /\ Len(flat) \in Nat
    BY <2>2, ConcatProperties
  <2>7. PICK after : after = flat \o rest
    OBVIOUS
  <2>8. after \in Seq(Byte)
    BY <2>7, ConcatProperties
  <2>9. PICK all : all = t \o after
    OBVIOUS
  <2>10. (t \o flat) \o rest = all
    <3>1. t \in Seq(Byte)
      BY <2>2
    <3>2. PICK tf : tf = t \o flat
      OBVIOUS
    <3>3. tf \o rest = t \o after
      BY ONLY SMTT(30), <2>7, <3>1, <3>2, ConcatRight, flat \in Seq(Byte), rest \in Seq(Byte)
    <3> QED BY <2>9, <3>2, <3>3
  <2>11. Ends(d, offset, all)
    BY <2>4, <2>10
  <2>12. offset \in Nat /\ offset >= 4
    BY <1>0
  <2>13. Follows(d, offset, t, after)
    BY <2>2, <2>8, <2>9, <2>11, <2>12, EndsLater
  <2>14. PICK next : next = offset + l
    OBVIOUS
  <2>15. /\ Ends(d, next, after) /\ next \in Nat /\ next <= Len(d)
         /\ \A i \in 1 .. l : d[offset + i] = t[i]
    BY <2>5, <2>13, <2>14 DEF Follows
  <2>16. next \in 4 .. Len(d) /\ offset + 2 <= next
    BY <1>0, <2>2, <2>5, <2>12, <2>14, <2>15
  <2>17. 1 \in 1 .. l /\ 2 \in 1 .. l
    BY <2>2, <2>5
  <2>18. d[offset + 1] # 1 /\ d[offset + 2] = l - 2
    BY <2>2, <2>5, <2>15, <2>17
  <2>19. NextTag(d, offset) = next
    BY <2>12, <2>14, <2>18 DEF NextTag
  <2>20. offset # Len(d) /\ offset + 1 # Len(d) /\ ~(next > Len(d))
    BY <1>0, <2>12, <2>15, <2>16
  <2>21. f[offset] = f[next]
    <3>1. f[offset] = TagsFrom(d, offset, f)
      OBVIOUS
    <3> QED BY <2>18, <2>19, <2>20, <3>1 DEF TagsFrom
  <2>22. f[next] = next + Len(flat) + 1
    <3>1. Skipped(f, d, more, rest)
      BY <1>2, <2>1
    <3> QED BY <2>3, <2>7, <2>15, <2>16, <3>1 DEF Skipped
  <2>23. next + Len(flat) + 1 = offset + (Len(t) + Len(flat)) + 1
    BY <2>2, <2>5, <2>6, <2>12, <2>14
  <2> QED BY <2>4, <2>6, <2>21, <2>22, <2>23
<1> HIDE DEF T
<1>3. \A k \in Nat : k \in T
  BY <1>1, <1>2, NatSteps
<1>4. ASSUME NEW tags \in Seq(Tag) PROVE Skipped(f, d, tags, rest)
  <2>1. Len(tags) \in Nat
    OBVIOUS
  <2>2. Len(tags) \in T
    BY <1>3, <2>1
  <2> QED BY <2>2 DEF T
<1> QED BY <1>4

LEMMA TagsGiveTheFrame ==
  ASSUME NEW d \in Seq(Byte), Len(d) >= 4, NEW tags \in Seq(Tag), NEW frame \in Seq(Byte),
         SubSeq(d, 5, Len(d)) = FlattenSeq(tags) \o << 1 >> \o frame
  PROVE  AfterTags(d) # None /\ ParseTZSP(d) = frame
<1>1. PICK flat \in Seq(Byte) : flat = FlattenSeq(tags)
  <2>1. Tag \subseteq Seq(Byte)
    BY DEF Tag, Bytes
  <2>2. tags \in Seq(Seq(Byte))
    BY <2>1, SeqMonotonic
  <2> QED BY <2>2, FlattenType
<1>a. PICK end \in Byte : end = 1
  BY DEF Byte
<1>b. PICK one : one = <<end>>
  OBVIOUS
<1>2. one \in Seq(Byte) /\ one = <<1>> /\ Len(one) = 1 /\ one[1] = 1
  BY <1>a, <1>b
<1>3. PICK rest : rest = one \o frame
  OBVIOUS
<1>4. PICK tagged : tagged = flat \o one
  OBVIOUS
<1>5. PICK all : all = SubSeq(d, 5, Len(d))
  OBVIOUS
<1>6. all = tagged \o frame
  BY <1>1, <1>2, <1>4, <1>5
<1>7. tagged \o frame = flat \o rest
  BY ONLY <1>3, <1>4, ConcatRight, <1>2, flat \in Seq(Byte), frame \in Seq(Byte)
<1>8. rest \in Seq(Byte) /\ Len(rest) >= 1 /\ rest[1] = 1
  <2>1. PICK n \in Nat : n = 1
    OBVIOUS
  <2>2. Joined(rest, one, n, frame)
    BY <1>2, <1>3, <2>1, ConcatJoins
  <2> QED BY <1>2, <2>1, <2>2 DEF Joined
<1>9. Ends(d, 4, all)
  <2>1. PICK n \in Nat : n = Len(d)
    OBVIOUS
  <2>2. 4 \in Nat /\ 4 <= n /\ n <= Len(d) /\ 5 = 4 + 1
    BY <2>1
  <2>3. Part(all, d, 4, n)
    BY <1>5, <2>1, <2>2, SubSeqPart
  <2>4. Len(all) = n - 4 /\ \A i \in 1 .. Len(all) : all[i] = d[4 + i]
    BY <2>3 DEF Part
  <2> QED BY <2>1, <2>2, <2>4 DEF Ends
<1>10. PICK f : /\ AfterTags(d) = f[4]
                /\ \A offset \in 4 .. Len(d) : f[offset] = TagsFrom(d, offset, f)
  BY AfterTagsSkips
<1>11. AfterTags(d) = 4 + Len(flat) + 1
  <2>1. Skipped(f, d, tags, rest)
    BY <1>8, <1>10, TagsAreSkipped
  <2>2. 4 \in 4 .. Len(d)
    OBVIOUS
  <2>3. Ends(d, 4, flat \o rest)
    BY <1>6, <1>7, <1>9
  <2> QED BY <1>1, <1>10, <2>1, <2>2, <2>3 DEF Skipped
<1>12. PICK before \in Nat : before = 4 + Len(flat)
  OBVIOUS
<1>13. Ends(d, before, rest)
  <2>1. Follows(d, 4, flat, rest)
    BY <1>6, <1>7, <1>8, <1>9, EndsLater
  <2> QED BY <1>12, <2>1 DEF Follows
<1>14. PICK after \in Nat : after = before + 1
  OBVIOUS
<1>15. Ends(d, after, frame)
  <2>1. Follows(d, before, one, frame)
    BY <1>2, <1>3, <1>13, EndsLater
  <2> QED BY <1>2, <1>14, <2>1 DEF Follows
<1>16. SubSeq(d, after + 1, Len(d)) = frame
  BY <1>15, EndsSubSeq
<1>17. AfterTags(d) = after /\ after # None
  BY <1>11, <1>12, <1>14, WireAssumption
<1> QED BY <1>16, <1>17 DEF ParseTZSP

LEMMA ParseTZSPType ==
  ASSUME NEW d \in Bytes, ParseTZSP(d) # None
  PROVE  ParseTZSP(d) \in Bytes
<1>1. Len(d) >= 4 /\ AfterTags(d) # None /\ d \in Seq(Byte)
  BY DEF ParseTZSP, Bytes
<1>2. PICK m \in 4 .. Len(d) : m = AfterTags(d)
  BY <1>1, AfterTagsType
<1>3. PICK n \in Nat : n = Len(d)
  BY <1>1
<1>4. m \in Nat /\ m <= n /\ n <= Len(d)
  BY <1>1, <1>3
<1>5. PICK k : k = m + 1
  OBVIOUS
<1>6. Part(SubSeq(d, k, n), d, m, n)
  BY <1>1, <1>4, <1>5, SubSeqPart
<1>7. ParseTZSP(d) = SubSeq(d, k, n)
  BY <1>1, <1>2, <1>3, <1>5 DEF ParseTZSP
<1> QED BY <1>6, <1>7 DEF Part, Bytes

LEMMA UDPType ==
  ASSUME NEW frame \in Bytes, IsUDP(frame)
  PROVE  UDP(frame) \in Event
<1>1. frame \in Seq(Byte) /\ Len(frame) \in Nat /\ Len(frame) >= 42
  BY DEF IsUDP, Bytes
<1>2. PICK n \in Nat : n = Len(frame)
  BY <1>1
<1>3. 42 \in Nat /\ 43 = 42 + 1 /\ 42 <= n /\ n <= Len(frame)
  BY <1>1, <1>2
<1>4. Part(SubSeq(frame, 43, n), frame, 42, n)
  BY <1>1, <1>3, SubSeqPart
<1>5. 26 \in Nat /\ 27 = 26 + 1 /\ 30 \in Nat /\ 26 <= 30 /\ 30 <= Len(frame)
  BY <1>1
<1>6. Part(SubSeq(frame, 27, 30), frame, 26, 30)
  BY <1>1, <1>5, SubSeqPart
<1>7. SubSeq(frame, 43, Len(frame)) \in Bytes /\ SubSeq(frame, 27, 30) \in Bytes
  BY <1>2, <1>4, <1>6 DEF Part, Bytes
<1> QED BY <1>7 DEF UDP, Carried, Event

(* What an input is, by its kind. *)
LEMMA InputKinds ==
  ASSUME NEW i \in Input
  PROVE  /\ i.kind = "tzsp" => i \in Datagrams
         /\ i.kind = "sniffed" => i \in Frames
         /\ i.kind \notin {"tzsp", "sniffed"} => i.kind \in {"access", "accounting"} /\ i.params \in Params
<1>1. \/ i \in Datagrams \/ i \in Frames
      \/ i \in [kind : {"access", "accounting"}, params : Params]
  BY WireAssumption
<1>2. CASE i \in Datagrams
  <2>1. i.kind = "tzsp"
    BY <1>2 DEF Datagrams
  <2> QED BY <1>2, <2>1
<1>3. CASE i \in Frames
  <2>1. i.kind = "sniffed"
    BY <1>3 DEF Frames
  <2> QED BY <1>3, <2>1
<1>4. CASE i \in [kind : {"access", "accounting"}, params : Params]
  <2>1. i.kind \in {"access", "accounting"} /\ i.params \in Params
    BY <1>4
  <2> QED BY <2>1
<1> QED BY <1>1, <1>2, <1>3, <1>4

LEMMA EventOfType ==
  ASSUME NEW i \in Input
  PROVE  EventOf(i) \in Event
<1>1. Nothing \in Event
  BY DEF Nothing, Event, Bytes
<1>2. CASE i.kind = "tzsp"
  <2>1. i.octets \in Bytes
    BY <1>2, InputKinds DEF Datagrams
  <2>2. PICK d \in Bytes : d = i.octets
    BY <2>1
  <2>3. EventOf(i) = Mirrored(d)
    BY <1>2, <2>2 DEF EventOf
  <2>4. CASE ParseTZSP(d) = None
    BY <1>1, <2>3, <2>4 DEF Mirrored
  <2>5. CASE ParseTZSP(d) # None
    <3>1. PICK payload \in Bytes : payload = ParseTZSP(d)
      BY <2>5, ParseTZSPType
    <3>2. EventOf(i) = ExtractUDPPayload(payload)
      BY <2>3, <2>5, <3>1 DEF Mirrored
    <3>3. [octets |-> payload, src |-> None] \in Event
      BY DEF Event
    <3> QED BY <1>1, <3>2, <3>3, UDPType DEF ExtractUDPPayload
  <2> QED BY <2>4, <2>5
<1>3. CASE i.kind = "sniffed"
  <2>1. i.octets \in Bytes
    BY <1>3, InputKinds DEF Frames
  <2>2. EventOf(i) = SniffedPayload(i.octets)
    BY <1>3 DEF EventOf
  <2> QED BY <1>1, <2>1, <2>2, UDPType DEF SniffedPayload
<1>4. CASE i.kind \notin {"tzsp", "sniffed"}
  <2>1. i.params \in Params
    BY <1>4, InputKinds
  <2>2. EventOf(i) = Built(i)
    BY <1>4 DEF EventOf
  <2>3. BuildAccessRequest(i.params) \in Bytes /\ BuildAccountingRequest(i.params) \in Bytes
    BY <2>1, BuiltType
  <2>4. i.params.nasIP \in {None} \cup Bytes
    BY <2>1 DEF Params
  <2> QED BY <2>2, <2>3, <2>4 DEF Built, Event
<1> QED BY <1>2, <1>3, <1>4

(* The event at hand is what was made of the input at hand. *)
LEMMA EventIsMadeInvariant == WireSpec => []EventIsMade
<1>1. WireInit => EventIsMade
  BY DEF WireInit, EventIsMade
<1>2. EventIsMade /\ [WireNext]_allVars => EventIsMade'
  <2> SUFFICES ASSUME EventIsMade, [WireNext]_allVars PROVE EventIsMade'
    OBVIOUS
  <2>1. ASSUME NEW i \in Input, ReceiveTZSP(i) \/ Sniff(i) \/ Synthesize(i)
        PROVE  EventIsMade'
    <3>1. Emit(i, EventOf(i))
      <4>1. CASE ReceiveTZSP(i)
        BY <4>1 DEF ReceiveTZSP, EventOf
      <4>2. CASE Sniff(i)
        BY <4>2 DEF Sniff, EventOf
      <4>3. CASE Synthesize(i)
        BY <4>3 DEF Synthesize, EventOf
      <4> QED BY <2>1, <4>1, <4>2, <4>3
    <3>2. input' = i /\ event' = IF EventOf(i).octets = <<>> THEN None ELSE EventOf(i)
      BY <3>1 DEF Emit
    <3>3. i # None
      BY WireAssumption
    <3> QED BY <3>2, <3>3 DEF EventIsMade
  <2>2. CASE Decode
    BY <2>2 DEF Decode, EventIsMade
  <2>3. CASE UNCHANGED wireVars
    BY <2>3 DEF wireVars, EventIsMade
  <2> QED BY <2>1, <2>2, <2>3 DEF WireNext, allVars
<1> QED BY <1>1, <1>2, PTL DEF WireSpec
----------------------------------------------------------------------------
(* A packet that parses is written as it was read. *)
THEOREM ParsedOctetsAreKept == WireSpec => []OctetsKept
<1>1. EventIsMade => OctetsKept
  <2> SUFFICES ASSUME EventIsMade, event # None, ParsePacket(event.octets) # None
               PROVE  EncodePacket(ParsePacket(event.octets))
                        = SubSeq(event.octets, 1, Length(event.octets))
    BY DEF OctetsKept
  <2>1. event \in Event
    BY EventOfType DEF EventIsMade
  <2>2. event.octets \in Bytes
    BY <2>1 DEF Event
  <2> QED BY <2>2, ParsedPacketIsKept
<1> QED BY <1>1, EventIsMadeInvariant, PTL

(* A packet that is built says what it was asked to say. *)
THEOREM BuiltPacketsSayIt == WireSpec => []BuiltAsAsked
<1>1. EventIsMade => BuiltAsAsked
  <2> SUFFICES ASSUME EventIsMade, event # None, input.kind \in {"access", "accounting"},
                      Fits(input.params)
               PROVE  LET p == ParsePacket(event.octets)
                      IN  /\ p # None
                          /\ p.code = IF input.kind = "access" THEN AccessRequest ELSE AccountingRequest
                          /\ p.ident = input.params.ident /\ p.auth.octets = input.params.auth
                          /\ \A x \in Asked(input) : ValueOf(p, x[1]) = x[2]
    BY DEF BuiltAsAsked
  <2>1. input \in Input /\ event = EventOf(input) /\ EventOf(input).octets # <<>>
    BY DEF EventIsMade
  <2>2. input.kind \notin {"tzsp", "sniffed"}
    OBVIOUS
  <2>3. input.params \in Params
    BY <2>1, <2>2, InputKinds
  <2>4. EventOf(input) = Built(input)
    BY <2>2 DEF EventOf
  <2> QED BY <2>1, <2>3, <2>4, BuiltIsAsked
<1> QED BY <1>1, EventIsMadeInvariant, PTL

(* What is mirrored or sniffed is unwrapped to the packet it carries. *)
LEMMA MirroredIsUnwrapped ==
  ASSUME NEW i \in Datagrams, i.of # None
  PROVE  LET e == Mirrored(i.octets)
         IN  /\ e.octets # <<>>
             /\ e.octets = i.of \/ (LooksLikeRadius(i.frame) /\ e.octets = i.frame)
<1>1. /\ i.octets \in Bytes /\ i.tags \in Seq(Tag) /\ i.frame \in Bytes
      /\ Len(i.octets) >= 4
      /\ SubSeq(i.octets, 5, Len(i.octets)) = FlattenSeq(i.tags) \o <<1>> \o i.frame
      /\ \/ i.frame = i.of /\ LooksLikeRadius(i.of)
         \/ Carries(i.frame, i.of) /\ Ports(i.frame) \cap RadiusPorts # {}
  BY DEF Datagrams
<1>2. PICK d : d = i.octets
  OBVIOUS
<1>3. PICK tags : tags = i.tags
  OBVIOUS
<1>4. PICK frame : frame = i.frame
  OBVIOUS
<1>5. /\ d \in Seq(Byte) /\ tags \in Seq(Tag) /\ frame \in Seq(Byte) /\ Len(d) >= 4
      /\ SubSeq(d, 5, Len(d)) = FlattenSeq(tags) \o <<1>> \o frame
  BY <1>1, <1>2, <1>3, <1>4 DEF Bytes
<1>6. ParseTZSP(d) = frame /\ frame # None
  <2>1. ParseTZSP(d) = frame
    BY <1>5, TagsGiveTheFrame
  <2>2. frame \in Bytes
    BY <1>5 DEF Bytes
  <2> QED BY <2>1, <2>2, WireAssumption
<1>7. Mirrored(d) = ExtractUDPPayload(frame)
  BY <1>6 DEF Mirrored
<1>8. \A raw : LooksLikeRadius(raw) => raw # <<>>
  <2>1. PICK none : none = <<>>
    OBVIOUS
  <2>2. Len(none) = 0
    BY <2>1
  <2>3. ~LooksLikeRadius(none)
    BY <2>2 DEF LooksLikeRadius
  <2> QED BY <2>1, <2>3
<1>9. CASE LooksLikeRadius(frame)
  <2>1. Mirrored(d).octets = frame
    BY <1>7, <1>9 DEF ExtractUDPPayload
  <2> QED BY <1>2, <1>4, <1>8, <1>9, <2>1
<1>10. CASE ~LooksLikeRadius(frame)
  <2>1. Carries(frame, i.of) /\ Ports(frame) \cap RadiusPorts # {}
    BY <1>1, <1>4, <1>10
  <2>2. IsUDP(frame) /\ LooksLikeRadius(i.of) /\ Carried(frame) = i.of
    BY <2>1 DEF Carries
  <2>3. Mirrored(d).octets = i.of
    BY <1>7, <1>10, <2>1, <2>2 DEF ExtractUDPPayload, UDP
  <2> QED BY <1>2, <1>8, <2>2, <2>3
<1> QED BY <1>9, <1>10

(* Whatever carries a packet, in tags and frames, gives that packet.       *)
THEOREM CarriedPacketsAreUnwrapped == WireSpec => []Unwraps
<1>1. EventIsMade => Unwraps
  <2> SUFFICES ASSUME EventIsMade, input # None, input.kind \in {"tzsp", "sniffed"}, input.of # None
               PROVE  /\ event # None
                      /\ \/ event.octets = input.of
                         \/ /\ input.kind = "tzsp" /\ LooksLikeRadius(input.frame)
                            /\ event.octets = input.frame
    BY DEF Unwraps
  <2>1. input \in Input
    BY DEF EventIsMade
  <2>2. EventOf(input) # None
    BY <2>1, EventOfType, WireAssumption
  <2>3. CASE input.kind = "tzsp"
    <3>1. input \in Datagrams
      BY <2>1, <2>3, InputKinds
    <3>2. EventOf(input) = Mirrored(input.octets)
      BY <2>3 DEF EventOf
    <3>3. PICK e : e = EventOf(input)
      OBVIOUS
    <3>4. /\ e.octets # <<>>
          /\ e.octets = input.of \/ (LooksLikeRadius(input.frame) /\ e.octets = input.frame)
      BY <3>1, <3>2, <3>3, MirroredIsUnwrapped
    <3>5. event = e
      BY <3>3, <3>4 DEF EventIsMade
    <3> QED BY <2>2, <2>3, <3>3, <3>4, <3>5
  <2>4. CASE input.kind = "sniffed"
    <3>1. input \in Frames
      BY <2>1, <2>4, InputKinds
    <3>2. IsUDP(input.octets) /\ LooksLikeRadius(input.of) /\ Carried(input.octets) = input.of
      BY <3>1 DEF Frames, Carries
    <3>3. EventOf(input) = UDP(input.octets)
      BY <2>4, <3>2 DEF EventOf, SniffedPayload
    <3>4. EventOf(input).octets = input.of
      BY <3>2, <3>3 DEF UDP
    <3>5. input.of # <<>>
      <4>1. PICK none : none = <<>>
        OBVIOUS
      <4>2. Len(none) = 0
        BY <4>1
      <4>3. ~LooksLikeRadius(none)
        BY <4>2 DEF LooksLikeRadius
      <4> QED BY <3>2, <4>1, <4>3
    <3>6. event = EventOf(input)
      BY <3>4, <3>5 DEF EventIsMade
    <3> QED BY <2>2, <3>4, <3>6
  <2> QED BY <2>3, <2>4
<1> QED BY <1>1, EventIsMadeInvariant, PTL

(* What is parsed is a request of the kind Packets rewrites. *)
LEMMA OctetPacketIsPacket ==
  ASSUME NEW p \in OctetPacket
  PROVE  IsPacket(p)
<1>1. OctetAVP \subseteq AVP(OctetValue)
  BY DEF OctetAVP, AVP, Byte
<1>2. p.attrs \in Seq(AVP(OctetValue))
  <2>1. p.attrs \in Seq(OctetAVP)
    BY DEF OctetPacket
  <2> QED BY <1>1, <2>1, SeqMonotonic
<1>3. p.code \in Nat /\ p.ident \in Nat /\ p.auth \in OctetValue
  <2>1. p.code \in Byte /\ p.ident \in Byte /\ p.auth \in OctetValue
    BY DEF OctetPacket
  <2>2. \A b \in Byte : b \in Nat
    BY DEF Byte
  <2> QED BY <2>1, <2>2
<1>4. p = [code |-> p.code, ident |-> p.ident, auth |-> p.auth, attrs |-> p.attrs]
  BY DEF OctetPacket
<1>5. p \in PacketOf(OctetValue)
  BY <1>2, <1>3, <1>4 DEF PacketOf
<1> QED BY <1>5, PacketOfIsPacket

WireInvariant == EventIsMade /\ SentWasPrepared

LEMMA WireInvariantHolds == WireSpec => []WireInvariant
<1>1. WireInit => SentWasPrepared
  BY DEF WireInit, Init, SentWasPrepared
<1>2. EventIsMade /\ SentWasPrepared /\ [WireNext]_allVars => SentWasPrepared'
  <2> SUFFICES ASSUME EventIsMade, SentWasPrepared, [WireNext]_allVars PROVE SentWasPrepared'
    OBVIOUS
  <2>1. CASE [Next]_vars
    BY <2>1, SentStaysPrepared
  <2>2. CASE Decode
    <3>1. PICK p : p = ParsePacket(event.octets)
      OBVIOUS
    <3>2. p # None /\ Capture(p, event.src) /\ event # None
      BY <2>2, <3>1 DEF Decode
    <3>3. event \in Event
      BY <3>2, EventOfType DEF EventIsMade
    <3>4. event.octets \in Bytes
      BY <3>3 DEF Event
    <3>5. IsPacket(p)
      BY <3>1, <3>2, <3>4, ParsedPacketIsKept, OctetPacketIsPacket
    <3> QED BY <3>2, <3>5 DEF Capture, SentWasPrepared
  <2>3. ASSUME NEW i, ReceiveTZSP(i) \/ Sniff(i) \/ Synthesize(i) PROVE UNCHANGED vars
    BY <2>3 DEF ReceiveTZSP, Sniff, Synthesize, Emit
  <2> QED BY <2>1, <2>2, <2>3 DEF WireNext, allVars
<1> QED BY <1>1, <1>2, EventIsMadeInvariant, PTL DEF WireSpec, WireInvariant

(* A request that was parsed, rewritten and signed is as authentic as it   *)
(* was on the wire.                                                        *)
THEOREM ParsedIsAuthentic == WireSpec => []StillAuthentic
<1>1. WireInvariant => StillAuthentic
  BY DEF WireInvariant, SentWasPrepared, Prepared, StillAuthentic
<1> QED BY <1>1, WireInvariantHolds, PTL

(* The answer to a request that was parsed comes back to this host under   *)
(* the identifier that is waited for, and nothing else of it was changed.  *)
THEOREM ParsedComesBack == WireSpec => []AnswerComesBack
<1>1. WireInvariant => AnswerComesBack
  BY DEF WireInvariant, SentWasPrepared, Prepared, AnswerComesBack
<1> QED BY <1>1, WireInvariantHolds, PTL
=============================================================================

----------------------------- MODULE HubProofs -----------------------------
(***************************************************************************)
(* The inductive invariant of Hub and what follows from it, for any number *)
(* of clients and messages, any filters and any length of the queues.      *)
(***************************************************************************)
EXTENDS Hub, SequenceTheorems, TLAPS

(* The invariant is about one client at a time. *)
NoGap(c) ==
    c \notin missed /\ writer[c] # "gone" =>
        owed[c] = (IF got[c] = <<>> THEN <<>> ELSE Tail(got[c])) \o Line(c)
Increasing(s) == \A i, j \in DOMAIN s : i < j => s[i] < s[j]
ClientInv(c) ==
    /\ handler[c] \in {"none", "hello"} => writer[c] = "none"
    /\ writer[c] = "none" <=> got[c] = <<>>
    /\ Len(hand[c]) <= 1
    /\ Increasing(got[c]) /\ Increasing(Line(c))
    /\ \A i \in DOMAIN got[c], j \in DOMAIN Line(c) : got[c][i] < Line(c)[j]
    /\ \A i \in DOMAIN got[c] : got[c][i] <= published
    /\ \A i \in DOMAIN Line(c) : Line(c)[i] <= published
    /\ HelloFirst(c) /\ NoGap(c)

LEMMA HubInvParts ==
  HubInv <=> /\ TypeOK /\ published <= MaxMessages /\ HubOwnsQueues
             /\ \A c \in Client : ClientInv(c)
BY DEF HubInv, ClientInv, WriterAfterHello, QueuesInOrder, NothingLostSilently, NoGap,
       OneInHand, InOrder, Increasing

LEMMA HubInvNext ==
  ASSUME TypeOK', published' <= MaxMessages, HubOwnsQueues',
         \A c \in Client : ClientInv(c)'
  PROVE  HubInv'
BY DEF HubInv, ClientInv, WriterAfterHello, QueuesInOrder, NothingLostSilently, NoGap,
       OneInHand, InOrder, Increasing

LEMMA HubInitInv == Init => HubInv
<1> SUFFICES ASSUME Init PROVE HubInv
  OBVIOUS
<1>1. TypeOK
  <2>1. <<>> \in Seq(Message) /\ <<>> \in Seq(Message \cup {Hello})
    BY EmptySeq
  <2> QED BY <2>1 DEF Init, TypeOK
<1>2. published <= MaxMessages /\ HubOwnsQueues
  BY HubAssumption DEF Init, HubOwnsQueues
<1>3. <<>> \o <<>> = <<>>
  BY EmptySeq, ConcatEmptySeq
<1>4. ASSUME NEW c \in Client PROVE ClientInv(c)
  <2>1. /\ got[c] = <<>> /\ Line(c) = <<>> /\ owed[c] = <<>> /\ hand[c] = <<>>
        /\ handler[c] = "none" /\ writer[c] = "none"
    BY <1>3 DEF Init, Line
  <2>2. DOMAIN got[c] = {} /\ DOMAIN Line(c) = {} /\ Len(hand[c]) = 0
    BY <2>1
  <2>3. NoGap(c)
    BY <1>3, <2>1 DEF NoGap
  <2> QED BY <2>1, <2>2, <2>3 DEF ClientInv, Increasing, HelloFirst
<1> QED BY <1>1, <1>2, <1>4, HubInvParts
----------------------------------------------------------------------------
(* Queues. *)

(* A message that is put behind a line that stays below it keeps order. *)
LEMMA AppendIncreases ==
  ASSUME NEW S \in SUBSET Int, NEW s \in Seq(S), NEW x \in S,
         Increasing(s), \A i \in DOMAIN s : s[i] < x
  PROVE  /\ Append(s, x) \in Seq(S) /\ Append(s, x) # <<>>
         /\ Increasing(Append(s, x))
         /\ \A i \in DOMAIN Append(s, x) :
              Append(s, x)[i] = x \/ (i \in DOMAIN s /\ Append(s, x)[i] = s[i])
<1>1. /\ DOMAIN s = 1 .. Len(s) /\ DOMAIN Append(s, x) = 1 .. Len(s) + 1 /\ Len(s) \in Nat
      /\ Append(s, x)[Len(s) + 1] = x
      /\ \A i \in 1 .. Len(s) : Append(s, x)[i] = s[i]
      /\ Append(s, x) \in Seq(S) /\ Append(s, x) # <<>>
  BY AppendProperties
<1> QED BY <1>1 DEF Increasing

(* What is left when the first is taken is in order, and above the first. *)
LEMMA TailIncreases ==
  ASSUME NEW S \in SUBSET Int, NEW s \in Seq(S), s # <<>>, Increasing(s)
  PROVE  /\ Head(s) \in S /\ Tail(s) \in Seq(S)
         /\ Increasing(Tail(s))
         /\ 1 \in DOMAIN s /\ Head(s) = s[1]
         /\ \A i \in DOMAIN Tail(s) : i + 1 \in DOMAIN s /\ Tail(s)[i] = s[i + 1] /\ Head(s) < Tail(s)[i]
<1>1. /\ DOMAIN s = 1 .. Len(s) /\ DOMAIN Tail(s) = 1 .. Len(s) - 1 /\ Len(s) \in Nat \ {0}
      /\ \A i \in DOMAIN Tail(s) : Tail(s)[i] = s[i + 1]
      /\ Head(s) = s[1] /\ Head(s) \in S /\ Tail(s) \in Seq(S)
  BY HeadTailProperties, EmptySeq
<1> QED BY <1>1 DEF Increasing

(* What s and t are together they stay when the first of t moves behind s. *)
LEMMA MoveOne ==
  ASSUME NEW S, NEW s \in Seq(S), NEW t \in Seq(S), t # <<>>
  PROVE  s \o t = Append(s, Head(t)) \o Tail(t)
<1>1. Head(t) \in S /\ Tail(t) \in Seq(S)
  BY HeadTailProperties
<1>2. <<Head(t)>> \in Seq(S)
  BY <1>1
<1>3. t = <<Head(t)>> \o Tail(t)
  <2>1. <<Head(t)>> \o Tail(t) \in Seq(S)
    BY <1>1, <1>2, ConcatProperties
  <2>2. Len(t) = Len(<<Head(t)>> \o Tail(t))
    BY <1>1, <1>2, ConcatProperties, HeadTailProperties, EmptySeq
  <2>3. \A i \in 1 .. Len(t) : t[i] = (<<Head(t)>> \o Tail(t))[i]
    BY <1>1, <1>2, ConcatProperties, HeadTailProperties, EmptySeq
  <2> QED BY <2>1, <2>2, <2>3, SeqEqual
<1>4. Append(s, Head(t)) = s \o <<Head(t)>>
  BY <1>1, AppendIsConcat
<1> QED BY <1>1, <1>2, <1>3, <1>4, ConcatAssociative

LEMMA AppendBehind ==
  ASSUME NEW S, NEW s \in Seq(S), NEW t \in Seq(S), NEW x \in S
  PROVE  s \o Append(t, x) = Append(s \o t, x)
<1>1. <<x>> \in Seq(S) /\ s \o t \in Seq(S)
  BY ConcatProperties
<1>2. Append(s \o t, x) = (s \o t) \o <<x>> /\ Append(t, x) = t \o <<x>>
  BY <1>1, AppendIsConcat
<1> QED BY <1>1, <1>2, ConcatAssociative

LEMMA QueueTypes ==
  ASSUME TypeOK, NEW c \in Client
  PROVE  /\ Message \cup {Hello} \in SUBSET Int /\ Message \in SUBSET Int /\ Hello = 0
         /\ got[c] \in Seq(Message \cup {Hello})
         /\ send[c] \in Seq(Message) /\ hand[c] \in Seq(Message)
         /\ Line(c) \in Seq(Message) /\ Line(c) \in Seq(Message \cup {Hello})
         /\ owed[c] \in Seq(Message) /\ owed[c] \in Seq(Message \cup {Hello})
         /\ \A i \in DOMAIN got[c] : got[c][i] \in Int
         /\ \A i \in DOMAIN Line(c) : Line(c)[i] \in Int /\ 0 < Line(c)[i]
<1>1. Message \cup {Hello} \in SUBSET Int /\ Message \in SUBSET Int /\ Hello = 0
  BY HubAssumption DEF Message, Hello
<1>2. /\ got[c] \in Seq(Message \cup {Hello}) /\ owed[c] \in Seq(Message)
      /\ send[c] \in Seq(Message) /\ hand[c] \in Seq(Message)
  BY DEF TypeOK
<1>3. Line(c) \in Seq(Message)
  BY <1>2, ConcatProperties DEF Line
<1>4. Line(c) \in Seq(Message \cup {Hello}) /\ owed[c] \in Seq(Message \cup {Hello})
  <2>1. Message \subseteq Message \cup {Hello}
    OBVIOUS
  <2>2. \A s \in Seq(Message) : s \in Seq(Message \cup {Hello})
    BY <2>1, SeqMonotonic, Zenon
  <2> QED BY <1>2, <1>3, <2>2
<1>5. \A i \in DOMAIN got[c] : got[c][i] \in Message \cup {Hello}
  BY <1>2
<1>6. \A i \in DOMAIN Line(c) : Line(c)[i] \in Message
  BY <1>3
<1>7. \A m \in Message : 0 < m
  BY HubAssumption DEF Message
<1> QED BY <1>1, <1>2, <1>3, <1>4, <1>5, <1>6, <1>7

(* The message in the writer's hand is the first of the line.              *)
LEMMA HandIsFirst ==
  ASSUME NEW S, NEW h \in Seq(S), NEW t \in Seq(S), h # <<>>, Len(h) <= 1
  PROVE  /\ h \o t # <<>> /\ Head(h \o t) = Head(h) /\ Tail(h \o t) = t
         /\ <<>> \o t = t
<1>1. Len(h) = 1 /\ h[1] = Head(h) /\ Head(h) \in S
  <2>1. Len(h) \in Nat /\ Len(h) # 0
    BY LenProperties, EmptySeq
  <2>2. Head(h) \in S /\ Head(h) = h[1]
    BY HeadTailProperties
  <2>3. Len(h) = 1
    <3>1. PICK n : n = Len(h)
      OBVIOUS
    <3>2. n \in Nat /\ n # 0 /\ n <= 1
      BY <2>1, <3>1
    <3> QED BY <3>1, <3>2
  <2> QED BY <2>2, <2>3, Zenon
<1>2. /\ h \o t \in Seq(S) /\ Len(h \o t) = 1 + Len(t) /\ Len(t) \in Nat
      /\ (h \o t)[1] = h[1] /\ \A i \in 1 .. Len(t) : (h \o t)[i + 1] = t[i]
  BY <1>1, ConcatProperties
<1>3. h \o t # <<>> /\ Head(h \o t) = Head(h)
  BY <1>1, <1>2, HeadTailProperties, EmptySeq
<1>4. Tail(h \o t) = t
  <2>1. /\ Tail(h \o t) \in Seq(S) /\ Len(Tail(h \o t)) = Len(t)
        /\ \A i \in 1 .. Len(t) : Tail(h \o t)[i] = (h \o t)[i + 1]
    BY <1>2, <1>3, HeadTailProperties
  <2> QED BY <1>2, <2>1, SeqEqual
<1> QED BY <1>3, <1>4, ConcatEmptySeq

(* Taking a message leaves the line as it is.                              *)
LEMMA TakeMovesNothing ==
  ASSUME NEW S, NEW t \in Seq(S), t # <<>>
  PROVE  <<Head(t)>> \o Tail(t) = <<>> \o t
<1>1. Head(t) \in S /\ Tail(t) \in Seq(S) /\ <<>> \in Seq(S)
  BY HeadTailProperties, EmptySeq
<1>2. <<>> \o t = Append(<<>>, Head(t)) \o Tail(t)
  BY <1>1, MoveOne
<1>3. Append(<<>>, Head(t)) = <<Head(t)>>
  BY <1>1, AppendIsConcat, ConcatEmptySeq
<1> QED BY <1>2, <1>3
----------------------------------------------------------------------------
(* A client to whom nothing was published or written. *)
LEMMA ClientFrame ==
  ASSUME HubInv, NEW c \in Client, UNCHANGED <<got[c], Line(c), owed[c]>>,
         Len(hand'[c]) <= 1,
         c \in missed => c \in missed',
         published' \in Nat, published <= published',
         handler'[c] \in {"none", "hello"} => writer'[c] = "none",
         writer'[c] = "none" <=> writer[c] = "none",
         writer[c] = "gone" => writer'[c] = "gone"
  PROVE  ClientInv(c)'
<1>1. ClientInv(c) /\ TypeOK
  BY HubInvParts
<1>2. published \in Int /\ got[c] \in Seq(Message \cup {Hello})
  BY <1>1 DEF TypeOK
<1>3. /\ \A i \in DOMAIN got[c] : got[c][i] <= published'
      /\ \A i \in DOMAIN Line(c) : Line(c)[i] <= published'
  BY <1>1, <1>2, QueueTypes DEF ClientInv
<1>4. NoGap(c)'
  BY <1>1 DEF ClientInv, NoGap
<1> QED BY <1>1, <1>3, <1>4 DEF ClientInv, Increasing, HelloFirst

(* The steps of the hub, of handlers and of writers that move no message   *)
(* in its line.                                                            *)
LEMMA QuietKeeps ==
  ASSUME HubInv,
         \/ EndRun \/ UNCHANGED vars
         \/ \E c \in Client :
              \/ RemoveSlow(c) \/ Connect(c) \/ Disconnect(c) \/ CloseConnection(c)
              \/ Take(c) \/ WriterReturns(c)
              \/ \E f \in SUBSET Kind : Subscribe(c, f)
  PROVE  HubInv'
<1>1. TypeOK /\ HubOwnsQueues /\ published <= MaxMessages /\ \A c \in Client : ClientInv(c)
  BY HubInvParts
<1>2. UNCHANGED <<got, published, owed, missed>>
  BY DEF EndRun, RemoveSlow, Connect, Disconnect, CloseConnection, Take, WriterReturns, Subscribe, vars
<1>3. \/ UNCHANGED <<send, hand>>
      \/ \E c \in Client : Take(c)
  BY DEF EndRun, RemoveSlow, Connect, Disconnect, CloseConnection, WriterReturns, Subscribe, vars
<1>4. ASSUME NEW c \in Client
      PROVE  /\ send'[c] \in Seq(Message) /\ hand'[c] \in Seq(Message)
             /\ Len(hand'[c]) <= 1 /\ Line(c)' = Line(c)
  <2>1. send[c] \in Seq(Message) /\ hand[c] \in Seq(Message) /\ Len(hand[c]) <= 1
    BY <1>1 DEF TypeOK, ClientInv
  <2>2. CASE send'[c] = send[c] /\ hand'[c] = hand[c]
    BY <2>1, <2>2 DEF Line
  <2>3. CASE Take(c)
    <3>1. hand[c] = <<>> /\ send[c] # <<>> /\ hand'[c] = <<Head(send[c])>> /\ send'[c] = Tail(send[c])
      BY <1>1, <2>3 DEF Take, TypeOK
    <3>2. Head(send[c]) \in Message /\ Tail(send[c]) \in Seq(Message)
      BY <2>1, <3>1, HeadTailProperties
    <3>3. <<Head(send[c])>> \in Seq(Message) /\ Len(<<Head(send[c])>>) = 1
      BY <3>2
    <3>4. <<Head(send[c])>> \o Tail(send[c]) = <<>> \o send[c]
      BY <2>1, <3>1, TakeMovesNothing
    <3> QED BY <3>1, <3>2, <3>3, <3>4 DEF Line
  <2>4. CASE \E d \in Client \ {c} : Take(d)
    <3>1. send'[c] = send[c] /\ hand'[c] = hand[c]
      BY <1>1, <2>4 DEF Take, TypeOK
    <3> QED BY <3>1, <2>2
  <2> QED BY <1>3, <2>2, <2>3, <2>4
<1>5. TypeOK'
  <2>1. send' \in [Client -> Seq(Message)] /\ hand' \in [Client -> Seq(Message)]
    <3>1. \/ UNCHANGED <<send, hand>>
          \/ send' = [c \in Client |-> send'[c]] /\ hand' = [c \in Client |-> hand'[c]]
      BY <1>1, <1>3 DEF Take, TypeOK
    <3>2. CASE UNCHANGED <<send, hand>>
      BY <1>1, <3>2 DEF TypeOK
    <3>3. CASE send' = [c \in Client |-> send'[c]] /\ hand' = [c \in Client |-> hand'[c]]
      BY <1>4, <3>3
    <3> QED BY <3>1, <3>2, <3>3
  <2>2. /\ clients' \subseteq Client /\ isOpen' \subseteq Client /\ removers' \subseteq Client
        /\ running' \in BOOLEAN
    BY <1>1 DEF EndRun, RemoveSlow, Connect, Disconnect, CloseConnection, Take, WriterReturns,
       Subscribe, Remove, vars, hubVars, TypeOK
  <2>3. filter' \in [Client -> SUBSET Kind]
    BY <1>1 DEF EndRun, RemoveSlow, Connect, Disconnect, CloseConnection, Take, WriterReturns,
       Subscribe, Remove, vars, hubVars, TypeOK
  <2>4. /\ handler' \in [Client -> {"none", "hello", "read", "leaving", "gone"}]
        /\ writer' \in [Client -> {"none", "run", "gone"}]
    BY <1>1 DEF EndRun, RemoveSlow, Connect, Disconnect, CloseConnection, Take, WriterReturns,
       Subscribe, vars, TypeOK
  <2> QED BY <1>1, <1>2, <2>1, <2>2, <2>3, <2>4 DEF TypeOK
<1>6. HubOwnsQueues'
  BY <1>1 DEF EndRun, RemoveSlow, Connect, Disconnect, CloseConnection, Take, WriterReturns,
     Subscribe, Remove, vars, hubVars, HubOwnsQueues
<1>7. ASSUME NEW c \in Client PROVE ClientInv(c)'
  <2>1. /\ handler'[c] \in {"none", "hello"} => handler[c] \in {"none", "hello"}
        /\ writer'[c] = writer[c] \/ (writer[c] = "run" /\ writer'[c] = "gone")
    BY <1>1 DEF EndRun, RemoveSlow, Connect, Disconnect, CloseConnection, Take, WriterReturns,
       Subscribe, vars, TypeOK
  <2>2. handler'[c] \in {"none", "hello"} => writer'[c] = "none"
    BY <1>1, <2>1 DEF ClientInv
  <2>3. /\ writer'[c] = "none" <=> writer[c] = "none"
        /\ writer[c] = "gone" => writer'[c] = "gone"
    BY <2>1
  <2>4. published' \in Nat /\ published <= published'
    BY <1>1, <1>2 DEF TypeOK
  <2> QED BY <1>2, <1>4, <2>2, <2>3, <2>4, ClientFrame
<1> QED BY <1>1, <1>2, <1>5, <1>6, <1>7, HubInvNext

(* Who has room gets the message behind all it has, who has none has a gap *)
(* from now on, and the others are not told.                               *)
LEMMA PublishKeeps ==
  ASSUME HubInv, NEW k \in Kind, Publish(k)
  PROVE  HubInv'
<1> DEFINE m == published + 1
<1>1. TypeOK /\ HubOwnsQueues /\ \A c \in Client : ClientInv(c)
  BY HubInvParts
<1>2. /\ published' = m /\ m \in Message /\ m <= MaxMessages /\ m \in Nat
      /\ send' = [c \in Client |->
                    IF c \in Matches(k) /\ ~Full(c) THEN Append(send[c], m) ELSE send[c]]
      /\ owed' = [c \in Client |-> IF c \in Matches(k) THEN Append(owed[c], m) ELSE owed[c]]
      /\ missed' = missed \cup {c \in Matches(k) : Full(c)}
      /\ removers' = removers \cup {c \in Matches(k) : Full(c)}
      /\ UNCHANGED <<clients, filter, isOpen, running, hand, handler, writer, got>>
  BY <1>1, HubAssumption DEF Publish, hubVars, TypeOK, Message
<1> HIDE DEF m
<1>3. TypeOK'
  <2>1. ASSUME NEW c \in Client
        PROVE  Append(send[c], m) \in Seq(Message) /\ Append(owed[c], m) \in Seq(Message)
    <3>1. send[c] \in Seq(Message) /\ owed[c] \in Seq(Message)
      BY <1>1 DEF TypeOK
    <3> QED BY <1>2, <3>1, AppendProperties
  <2>2. send' \in [Client -> Seq(Message)] /\ owed' \in [Client -> Seq(Message)]
    BY <1>1, <1>2, <2>1 DEF TypeOK
  <2>3. missed' \subseteq Client /\ removers' \subseteq Client
    BY <1>1, <1>2 DEF TypeOK, Matches
  <2> QED BY <1>1, <1>2, <2>2, <2>3 DEF TypeOK
<1>4. HubOwnsQueues'
  BY <1>1, <1>2 DEF HubOwnsQueues
<1>5. ASSUME NEW c \in Client PROVE ClientInv(c)'
  <2>1. /\ published \in Nat /\ m = published + 1
        /\ handler'[c] = handler[c] /\ writer'[c] = writer[c] /\ got'[c] = got[c]
        /\ hand'[c] = hand[c] /\ Len(hand[c]) <= 1
    BY <1>1, <1>2 DEF TypeOK, ClientInv, m
  <2>2. CASE c \notin Matches(k)
    <3>1. UNCHANGED <<got[c], Line(c), owed[c]>>
      BY <1>2, <2>1, <2>2 DEF Line
    <3> QED BY <1>1, <1>2, <2>1, <3>1, ClientFrame DEF ClientInv
  <2>3. \A i \in DOMAIN got[c] : got[c][i] \in Int
    BY <1>1, QueueTypes
  <2>4. \A i \in DOMAIN Line(c) : Line(c)[i] \in Int
    BY <1>1, QueueTypes
  <2>5. CASE c \in Matches(k) /\ ~Full(c)
    <3>1. Line(c)' = Append(Line(c), m) /\ owed'[c] = Append(owed[c], m)
      <4>1. send'[c] = Append(send[c], m) /\ owed'[c] = Append(owed[c], m)
        BY <1>2, <2>5
      <4>2. hand[c] \in Seq(Message) /\ send[c] \in Seq(Message) /\ m \in Message
        BY <1>1, <1>2, QueueTypes
      <4>3. hand[c] \o Append(send[c], m) = Append(hand[c] \o send[c], m)
        <5>1. PICK S, s, t, x : /\ s \in Seq(S) /\ t \in Seq(S) /\ x \in S
                                /\ s = hand[c] /\ t = send[c] /\ x = m
          BY <4>2
        <5>2. s \in Seq(S) /\ t \in Seq(S) /\ x \in S
          BY <5>1
        <5>3. s \o Append(t, x) = Append(s \o t, x)
          BY ONLY <5>2, AppendBehind
        <5> QED BY <5>1, <5>3
      <4> QED BY <2>1, <4>1, <4>3 DEF Line
    <3>2. Increasing(Line(c)) /\ \A i \in DOMAIN Line(c) : Line(c)[i] < m
      BY <1>1, <2>1, <2>4 DEF ClientInv
    <3>3. /\ Increasing(Append(Line(c), m))
          /\ \A i \in DOMAIN Append(Line(c), m) :
               \/ Append(Line(c), m)[i] = m
               \/ i \in DOMAIN Line(c) /\ Append(Line(c), m)[i] = Line(c)[i]
      <4>1. Message \in SUBSET Int /\ Line(c) \in Seq(Message) /\ m \in Message
        BY <1>1, <1>2, QueueTypes
      <4> QED BY <3>2, <4>1, AppendIncreases
    <3>4. NoGap(c)'
      <4> SUFFICES ASSUME c \notin missed, writer[c] # "gone"
                   PROVE  owed'[c] = (IF got[c] = <<>> THEN <<>> ELSE Tail(got[c])) \o Line(c)'
        BY <1>2, <2>1 DEF NoGap
      <4> DEFINE told == IF got[c] = <<>> THEN <<>> ELSE Tail(got[c])
      <4>1. owed[c] = told \o Line(c)
        BY <1>1 DEF ClientInv, NoGap
      <4>2. told \in Seq(Message \cup {Hello})
        <5>1. got[c] \in Seq(Message \cup {Hello})
          BY <1>1, QueueTypes
        <5> QED BY <5>1, EmptySeq, HeadTailProperties
      <4>3. Line(c) \in Seq(Message \cup {Hello}) /\ m \in Message \cup {Hello}
        BY <1>1, <1>2, QueueTypes
      <4> HIDE DEF told
      <4>4. told \o Append(Line(c), m) = Append(told \o Line(c), m)
        BY <4>2, <4>3, AppendBehind
      <4> QED BY <3>1, <4>1, <4>4 DEF told
    <3>5. /\ \A i \in DOMAIN got[c], j \in DOMAIN Line(c)' : got[c][i] < Line(c)'[j]
          /\ \A i \in DOMAIN got[c] : got[c][i] <= m
          /\ \A j \in DOMAIN Line(c)' : Line(c)'[j] <= m
      <4>1. \A i \in DOMAIN got[c] : got[c][i] < m
        BY <1>1, <2>1, <2>3 DEF ClientInv
      <4> QED BY <1>1, <2>1, <2>3, <2>4, <3>1, <3>2, <3>3, <4>1 DEF ClientInv
    <3> QED BY <1>1, <1>2, <2>1, <3>1, <3>3, <3>4, <3>5 DEF ClientInv, HelloFirst, Increasing
  <2>6. CASE c \in Matches(k) /\ Full(c)
    <3>1. Line(c)' = Line(c) /\ c \in missed'
      BY <1>2, <2>1, <2>6 DEF Line
    <3>2. NoGap(c)'
      BY <3>1 DEF NoGap
    <3>3. /\ \A i \in DOMAIN got[c] : got[c][i] <= m
          /\ \A j \in DOMAIN Line(c) : Line(c)[j] <= m
      BY <1>1, <2>1, <2>3, <2>4 DEF ClientInv
    <3> QED BY <1>1, <1>2, <2>1, <3>1, <3>2, <3>3 DEF ClientInv, HelloFirst, Increasing
  <2> QED BY <2>2, <2>5, <2>6
<1> QED BY <1>2, <1>3, <1>4, <1>5, HubInvNext

(* The hello is the first that is written. *)
LEMMA SendHelloKeeps ==
  ASSUME HubInv, NEW c \in Client, SendHello(c)
  PROVE  HubInv'
<1>1. TypeOK /\ HubOwnsQueues /\ published <= MaxMessages /\ \A d \in Client : ClientInv(d)
  BY HubInvParts
<1>2. /\ handler[c] = "hello" /\ handler' = [handler EXCEPT ![c] = "read"]
      /\ writer' = [writer EXCEPT ![c] = "run"]
      /\ got' = [got EXCEPT ![c] = Append(@, Hello)]
      /\ UNCHANGED <<clients, filter, isOpen, running, send, hand, removers, published, owed, missed>>
  BY DEF SendHello, hubVars
<1>3. got[c] = <<>> /\ writer[c] = "none"
  BY <1>1, <1>2 DEF ClientInv
<1>4. /\ got'[c] = <<Hello>> /\ writer'[c] = "run" /\ handler'[c] = "read"
      /\ \A d \in Client \ {c} :
           got'[d] = got[d] /\ writer'[d] = writer[d] /\ handler'[d] = handler[d]
      /\ \A d \in Client : UNCHANGED <<Line(d), hand[d]>>
  BY <1>1, <1>2, <1>3 DEF TypeOK, Line
<1>5. TypeOK'
  BY <1>1, <1>2, <1>4 DEF TypeOK
<1>6. HubOwnsQueues'
  BY <1>1, <1>2 DEF HubOwnsQueues
<1>7. ClientInv(c)'
  <2>1. /\ \A j \in DOMAIN Line(c) : 0 < Line(c)[j] /\ Line(c)[j] \in Int
        /\ Hello = 0 /\ Line(c) \in Seq(Message) /\ published \in Nat
    BY <1>1, QueueTypes DEF TypeOK
  <2>2. /\ got'[c] # <<>> /\ Head(got'[c]) = Hello /\ Tail(got'[c]) = <<>>
        /\ DOMAIN got'[c] = {1} /\ got'[c][1] = Hello
    BY <1>4
  <2>3. NoGap(c)'
    BY <1>1, <1>2, <1>3, <1>4, <2>2 DEF ClientInv, NoGap
  <2> QED BY <1>1, <1>2, <1>4, <2>1, <2>2, <2>3 DEF ClientInv, Increasing, HelloFirst
<1>8. ASSUME NEW d \in Client \ {c} PROVE ClientInv(d)'
  BY <1>1, <1>2, <1>4, <1>8, ClientFrame DEF ClientInv, TypeOK
<1> QED BY <1>1, <1>2, <1>5, <1>6, <1>7, <1>8, HubInvNext

(* What is written was next in the queue. *)
LEMMA WriterKeeps ==
  ASSUME HubInv, NEW c \in Client, Write(c) \/ WriteFails(c)
  PROVE  HubInv'
<1> DEFINE h == Head(hand[c])
<1>1. TypeOK /\ HubOwnsQueues /\ published <= MaxMessages /\ \A d \in Client : ClientInv(d)
  BY HubInvParts
<1>2. /\ writer[c] = "run" /\ hand[c] # <<>>
      /\ hand' = [hand EXCEPT ![c] = <<>>]
      /\ \/ got' = [got EXCEPT ![c] = Append(@, h)] /\ writer' = writer
         \/ got' = got /\ writer' = [writer EXCEPT ![c] = "gone"]
      /\ UNCHANGED <<clients, filter, isOpen, running, send, handler, removers, published, owed, missed>>
  BY DEF Write, WriteFails, hubVars
<1>3. /\ hand'[c] = <<>>
      /\ \/ got'[c] = Append(got[c], h) /\ writer'[c] = "run"
         \/ got'[c] = got[c] /\ writer'[c] = "gone"
      /\ \A d \in Client \ {c} :
           got'[d] = got[d] /\ hand'[d] = hand[d] /\ writer'[d] = writer[d] /\ Line(d)' = Line(d)
  BY <1>1, <1>2 DEF TypeOK, Line
<1>line. /\ Line(c) # <<>> /\ h = Head(Line(c)) /\ Line(c)' = Tail(Line(c))
  <2>1. hand[c] \in Seq(Message) /\ send[c] \in Seq(Message) /\ Len(hand[c]) <= 1
    BY <1>1 DEF TypeOK, ClientInv
  <2>2. /\ hand[c] \o send[c] # <<>> /\ Head(hand[c] \o send[c]) = Head(hand[c])
        /\ Tail(hand[c] \o send[c]) = send[c] /\ <<>> \o send[c] = send[c]
    BY ONLY <1>2, <2>1, HandIsFirst
  <2>3. Line(c) = hand[c] \o send[c] /\ Line(c)' = <<>> \o send[c]
    BY <1>2, <1>3 DEF Line
  <2> QED BY <1>2, <2>2, <2>3, Zenon
<1> HIDE DEF h
<1>4. /\ h \in Message /\ Tail(Line(c)) \in Seq(Message) /\ Increasing(Tail(Line(c)))
      /\ 1 \in DOMAIN Line(c) /\ h = Line(c)[1]
      /\ \A i \in DOMAIN Tail(Line(c)) :
           i + 1 \in DOMAIN Line(c) /\ Tail(Line(c))[i] = Line(c)[i + 1] /\ h < Tail(Line(c))[i]
  <2>1. Message \in SUBSET Int /\ Line(c) \in Seq(Message) /\ Increasing(Line(c))
    BY <1>1, QueueTypes DEF ClientInv
  <2> QED BY <1>line, <2>1, TailIncreases
<1>5. \A i \in DOMAIN got[c] : got[c][i] < h
  BY <1>1, <1>4 DEF ClientInv
<1>6. /\ Append(got[c], h) \in Seq(Message \cup {Hello}) /\ Append(got[c], h) # <<>>
      /\ Increasing(Append(got[c], h))
      /\ \A i \in DOMAIN Append(got[c], h) :
           Append(got[c], h)[i] = h \/ (i \in DOMAIN got[c] /\ Append(got[c], h)[i] = got[c][i])
  <2>1. /\ Message \cup {Hello} \in SUBSET Int /\ got[c] \in Seq(Message \cup {Hello})
        /\ Increasing(got[c]) /\ h \in Message \cup {Hello}
    BY <1>1, <1>4, QueueTypes DEF ClientInv
  <2> QED BY <1>5, <2>1, AppendIncreases
<1>7. got[c] # <<>> /\ Head(got[c]) = Hello
  BY <1>1, <1>2 DEF ClientInv, HelloFirst
<1>8. TypeOK'
  <2>1. hand' \in [Client -> Seq(Message)]
    BY <1>1, <1>2, EmptySeq DEF TypeOK
  <2>2. got' \in [Client -> Seq(Message \cup {Hello})]
    BY <1>1, <1>2, <1>6 DEF TypeOK
  <2>3. writer' \in [Client -> {"none", "run", "gone"}]
    BY <1>1, <1>2 DEF TypeOK
  <2> QED BY <1>1, <1>2, <2>1, <2>2, <2>3 DEF TypeOK
<1>9. HubOwnsQueues'
  BY <1>1, <1>2 DEF HubOwnsQueues
<1>10. got'[c] # <<>> /\ HelloFirst(c)'
  <2>1. Head(Append(got[c], h)) = Hello
    BY <1>1, <1>7, QueueTypes, HeadTailAppend
  <2> QED BY <1>3, <1>6, <1>7, <2>1 DEF HelloFirst
<1>11. NoGap(c)'
  <2> SUFFICES ASSUME c \notin missed, got'[c] = Append(got[c], h)
               PROVE  owed[c] = Tail(got'[c]) \o Line(c)'
    BY <1>2, <1>3, <1>10 DEF NoGap
  <2>1. owed[c] = Tail(got[c]) \o Line(c)
    BY <1>1, <1>2, <1>7 DEF ClientInv, NoGap
  <2>2. Tail(Append(got[c], h)) = Append(Tail(got[c]), h)
    BY <1>1, <1>7, QueueTypes, HeadTailAppend
  <2>3. PICK S, s, t : s \in Seq(S) /\ t \in Seq(S) /\ s = Tail(got[c]) /\ t = Line(c)
    <3>1. got[c] \in Seq(Message \cup {Hello}) /\ Line(c) \in Seq(Message \cup {Hello})
      BY <1>1, QueueTypes
    <3> QED BY <1>7, <3>1, HeadTailProperties
  <2>4. s \in Seq(S) /\ t \in Seq(S) /\ t # <<>>
    BY <1>line, <2>3
  <2>5. s \o t = Append(s, Head(t)) \o Tail(t)
    BY ONLY <2>4, MoveOne
  <2> QED BY <1>line, <2>1, <2>2, <2>3, <2>5
<1>12. ClientInv(c)'
  <2>1. /\ \A j \in DOMAIN Line(c) : Line(c)[j] \in Int
        /\ \A i \in DOMAIN got[c] : got[c][i] \in Int
        /\ h \in Int /\ published \in Int
    BY <1>1, <1>4, QueueTypes DEF TypeOK
  <2>2. /\ Increasing(got'[c])
        /\ \A i \in DOMAIN got'[c] : got'[c][i] = h \/ (i \in DOMAIN got[c] /\ got'[c][i] = got[c][i])
    BY <1>1, <1>3, <1>6 DEF ClientInv
  <2>8. Increasing(Line(c)') /\ Len(hand'[c]) <= 1
    <3>1. Increasing(Line(c)')
      BY ONLY <1>line, <1>4
    <3> QED BY <1>3, <3>1
  <2>3. \A j \in DOMAIN Line(c)' : h < Line(c)'[j] /\ Line(c)'[j] <= published /\ Line(c)'[j] \in Int
    BY <1>1, <1>line, <1>4, <2>1 DEF ClientInv
  <2>4. h <= published /\ \A i \in DOMAIN got[c] : got[c][i] < h
    BY <1>1, <1>4, <1>5 DEF ClientInv
  <2>5. /\ handler'[c] \in {"none", "hello"} => writer'[c] = "none"
        /\ writer'[c] # "none"
    BY <1>1, <1>2, <1>3 DEF ClientInv
  <2>6. \A i \in DOMAIN got'[c], j \in DOMAIN Line(c)' : got'[c][i] < Line(c)'[j]
    BY <2>1, <2>2, <2>3, <2>4
  <2>7. \A i \in DOMAIN got'[c] : got'[c][i] <= published
    BY <2>1, <2>2, <2>4
  <2> QED BY <1>2, <1>10, <1>11, <2>2, <2>3, <2>5, <2>6, <2>7, <2>8 DEF ClientInv
<1>13. ASSUME NEW d \in Client \ {c} PROVE ClientInv(d)'
  BY <1>1, <1>2, <1>3, <1>13, ClientFrame DEF ClientInv, TypeOK
<1> QED BY <1>1, <1>2, <1>8, <1>9, <1>12, <1>13, HubInvNext
----------------------------------------------------------------------------
LEMMA HubInvStep == HubInv /\ [Next]_vars => HubInv'
<1> SUFFICES ASSUME HubInv, [Next]_vars PROVE HubInv'
  OBVIOUS
<1> QED BY QuietKeeps, PublishKeeps, SendHelloKeeps, WriterKeeps DEF Next

LEMMA HubInvariance == Spec => []HubInv
BY HubInitInv, HubInvStep, PTL DEF Spec

(* A queue is open exactly while its client is in the hub: Publish never   *)
(* sends on a closed queue, and none is closed twice.                      *)
THEOREM QueuesAreOwned == Spec => []HubOwnsQueues
<1>1. HubInv => HubOwnsQueues
  BY DEF HubInv
<1> QED BY <1>1, HubInvariance, PTL

(* What a client's filter let through is what was written after the hello, *)
(* and what is queued, unless its queue was full or a write failed.        *)
THEOREM NothingIsLostSilently == Spec => []NothingLostSilently
<1>1. HubInv => NothingLostSilently
  BY DEF HubInv
<1> QED BY <1>1, HubInvariance, PTL

(* Whatever a client gets, it gets in the order of publication, and once.  *)
THEOREM ClientsGetInOrder == Spec => []InOrder
<1>1. HubInv => InOrder
  BY DEF HubInv
<1> QED BY <1>1, HubInvariance, PTL
=============================================================================

-------------------------- MODULE ForwarderProofs --------------------------
(***************************************************************************)
(* The inductive invariant of Forwarder and what follows from it, for any  *)
(* number of calls, sockets, identifiers and configurations and any length *)
(* of the ring below the number of identifiers.                            *)
(***************************************************************************)
EXTENDS Forwarder, DataLemmas, FiniteSetTheorems, SequenceTheorems

(* First the operators that Forwarder is composed of: those of             *)
(* Conversations, for every size of the identifier space and of the ring,  *)
(* and those of UpstreamSockets, for any number of sockets, targets,       *)
(* configurations and handlers.                                            *)

(* A probe is an identifier, and every identifier is probed. *)
LEMMA ProbeIdent ==
  ASSUME NEW i \in Ident, NEW n \in Nat
  PROVE  Probe(i, n) \in Ident
BY ConversationsAssumption DEF Probe, Ident

LEMMA ProbeReaches ==
  ASSUME NEW i \in Ident, NEW j \in Ident
  PROVE  \E n \in 0 .. NIdent : Probe(i, n) = j
<1> USE ConversationsAssumption DEF Ident
<1>1. CASE i <= j
  <2>1. j - i \in 0 .. NIdent /\ i + (j - i) = j
    BY <1>1
  <2>2. j % NIdent = j
    OBVIOUS
  <2> QED BY <2>1, <2>2 DEF Probe
<1>2. CASE j < i
  <2>1. j - i + NIdent \in 0 .. NIdent /\ i + (j - i + NIdent) = j + NIdent
    BY <1>2
  <2>2. (j + NIdent) % NIdent = j
    OBVIOUS
  <2> QED BY <2>1, <2>2 DEF Probe
<1> QED BY <1>1, <1>2

(* allocateIdent returns an identifier, and a free one if there is one. *)
LEMMA AllocateIdentType ==
  ASSUME NEW ch, NEW i \in Ident
  PROVE  AllocateIdent(ch, i) \in Ident
<1>1. CASE FreeProbes(ch, i) = {}
  BY <1>1 DEF AllocateIdent
<1>2. CASE FreeProbes(ch, i) # {}
  <2>1. FreeProbes(ch, i) \in SUBSET Nat
    BY ConversationsAssumption DEF FreeProbes
  <2>2. Min(FreeProbes(ch, i)) \in Nat
    BY <1>2, <2>1, MinNat
  <2> QED BY <1>2, <2>2, ProbeIdent DEF AllocateIdent
<1> QED BY <1>1, <1>2

LEMMA AllocateIdentFree ==
  ASSUME NEW ch, NEW i \in Ident, NEW j \in Ident, pending[<<ch, j>>] = None
  PROVE  pending[<<ch, AllocateIdent(ch, i)>>] = None
<1>1. FreeProbes(ch, i) # {}
  BY ProbeReaches DEF FreeProbes
<1>2. FreeProbes(ch, i) \in SUBSET Nat
  BY ConversationsAssumption DEF FreeProbes
<1>3. Min(FreeProbes(ch, i)) \in FreeProbes(ch, i)
  BY <1>1, <1>2, MinNat
<1> QED BY <1>1, <1>3 DEF FreeProbes, AllocateIdent

(* What the ring keeps is a prefix of it, never longer than the bound; the *)
(* newcomer is kept, and every other member is kept or dropped.            *)
LEMMA RingKeeps ==
  ASSUME convs \in Seq(Conv), NEW c \in Conv
  PROVE  /\ Kept(c) \in Seq(Conv)
         /\ Len(Kept(c)) <= MaxConversations
         /\ c \in Range(Kept(c))
         /\ \A d \in Range(convs) : d \in Range(Kept(c)) \/ d \in Dropped(c)
<1> DEFINE r == RingWith(c)
           m == Min({MaxConversations, Len(r)})
<1>1. /\ r \in Seq(Conv) /\ Len(r) = Len(convs) + 1 /\ Len(r) \in Nat
      /\ r[1] = c /\ \A i \in 1 .. Len(convs) : r[i + 1] = convs[i]
  BY DEF RingWith
<1>2. m \in {MaxConversations, Len(r)} /\ m <= MaxConversations /\ m <= Len(r)
  BY <1>1, MinNat, ConversationsAssumption
<1>3. m \in Nat /\ 1 <= m
  BY <1>1, <1>2, ConversationsAssumption
<1> HIDE DEF r, m
<1>4. /\ Kept(c) \in Seq(Conv) /\ Len(Kept(c)) = m
      /\ \A i \in 1 .. m : Kept(c)[i] = r[i]
  <2>1. Kept(c) = SubSeq(r, 1, m)
    BY DEF Kept, r, m
  <2>2. m \in 1 .. Len(r)
    BY <1>1, <1>2, <1>3
  <2> QED BY <1>1, <1>3, <2>1, <2>2, SubSeqProperties
<1>5. \A i \in 1 .. m : r[i] \in Range(Kept(c))
  BY <1>4, <1>3 DEF Range
<1>6. ASSUME NEW d \in Range(convs)
      PROVE  d \in Range(Kept(c)) \/ d \in Dropped(c)
  <2>1. PICK i \in 1 .. Len(convs) : d = convs[i]
    BY DEF Range
  <2>2. d = r[i + 1] /\ i + 1 \in 1 .. Len(r)
    BY <1>1, <2>1
  <2>3. CASE i + 1 <= m
    BY <1>5, <1>3, <2>2, <2>3
  <2>4. CASE i + 1 > m
    <3>1. m = MaxConversations
      BY <1>2, <1>1, <2>2, <2>4
    <3> QED BY <2>2, <2>4, <3>1, <1>1, ConversationsAssumption DEF Dropped, r
  <2> QED BY <2>3, <2>4, <1>1, <1>3
<1> QED BY <1>1, <1>2, <1>3, <1>4, <1>5, <1>6

(* And what it keeps it keeps once, if the newcomer was not in it. *)
LEMMA RingKeepsOnce ==
  ASSUME convs \in Seq(Conv), NEW c \in Conv, ~InRing(c),
         \A i, j \in DOMAIN convs : convs[i] = convs[j] => i = j
  PROVE  /\ \A i, j \in DOMAIN Kept(c) : Kept(c)[i] = Kept(c)[j] => i = j
         /\ \A d \in Range(Kept(c)) : d = c \/ InRing(d)
         /\ \A d \in Range(Kept(c)) : d \notin Dropped(c)
<1> DEFINE r == RingWith(c)
           m == Min({MaxConversations, Len(r)})
<1>1. /\ r \in Seq(Conv) /\ Len(r) = Len(convs) + 1 /\ Len(r) \in Nat
      /\ r[1] = c /\ \A i \in 1 .. Len(convs) : r[i + 1] = convs[i]
  BY DEF RingWith
<1>2. m \in {MaxConversations, Len(r)} /\ m <= MaxConversations /\ m <= Len(r)
  <2>1. Len(r) \in Nat /\ MaxConversations \in Nat
    BY <1>1, ConversationsAssumption
  <2>2. PICK S : S = {MaxConversations, Len(r)}
    OBVIOUS
  <2>3. S \in SUBSET Nat /\ S # {}
    BY <2>1, <2>2
  <2>4. Min(S) \in S /\ \A y \in S : Min(S) <= y
    BY ONLY <2>3, MinNat
  <2> QED BY <2>2, <2>4
<1>3. m \in Nat /\ 1 <= m
  BY <1>1, <1>2, ConversationsAssumption
<1> HIDE DEF r, m
<1>4. /\ Kept(c) \in Seq(Conv) /\ DOMAIN Kept(c) = 1 .. m
      /\ \A i \in 1 .. m : Kept(c)[i] = r[i]
  <2>1. Kept(c) = SubSeq(r, 1, m)
    BY DEF Kept, r, m
  <2>2. m \in 1 .. Len(r)
    BY <1>1, <1>2, <1>3
  <2> QED BY <1>1, <1>3, <2>1, <2>2, SubSeqProperties
<1>5. /\ DOMAIN convs = 1 .. Len(convs) /\ Len(convs) \in Nat
      /\ \A i \in 1 .. Len(convs) : InRing(convs[i]) /\ convs[i] # c
  BY DEF InRing, Range
<1>6. \A i \in 1 .. Len(r) : i = 1 \/ (i - 1 \in 1 .. Len(convs) /\ r[i] = convs[i - 1])
  <2> SUFFICES ASSUME NEW i \in 1 .. Len(r), i # 1
               PROVE  i - 1 \in 1 .. Len(convs) /\ r[i] = convs[i - 1]
    OBVIOUS
  <2>1. i - 1 \in 1 .. Len(convs) /\ (i - 1) + 1 = i
    BY <1>1, <1>5
  <2> QED BY <1>1, <2>1
<1>7. \A i, j \in 1 .. Len(r) : r[i] = r[j] => i = j
  <2> SUFFICES ASSUME NEW i \in 1 .. Len(r), NEW j \in 1 .. Len(r), r[i] = r[j] PROVE i = j
    OBVIOUS
  <2>1. CASE i = 1 \/ j = 1
    BY <1>1, <1>5, <1>6, <2>1
  <2>2. CASE i # 1 /\ j # 1
    <3>1. convs[i - 1] = convs[j - 1] /\ i - 1 \in DOMAIN convs /\ j - 1 \in DOMAIN convs
      BY <1>5, <1>6, <2>2
    <3>2. i - 1 = j - 1
      BY <3>1
    <3> QED BY <1>1, <3>2
  <2> QED BY <2>1, <2>2
<1>8. 1 .. m \subseteq 1 .. Len(r)
  BY <1>1, <1>2, <1>3
<1>9. \A i, j \in DOMAIN Kept(c) : Kept(c)[i] = Kept(c)[j] => i = j
  BY <1>4, <1>7, <1>8
<1>10. ASSUME NEW d \in Range(Kept(c)) PROVE (d = c \/ InRing(d)) /\ d \notin Dropped(c)
  <2>1. PICK i \in 1 .. m : d = r[i]
    BY <1>4 DEF Range
  <2>2. i \in 1 .. Len(r)
    BY <1>8
  <2>3. d = c \/ InRing(d)
    BY <1>1, <1>5, <1>6, <2>1, <2>2
  <2>4. d \notin Dropped(c)
    <3> SUFFICES ASSUME NEW j \in MaxConversations + 1 .. Len(r), d = r[j] PROVE FALSE
      BY DEF Dropped, r
    <3>1. j \in 1 .. Len(r) /\ j # i
      BY <1>1, <1>2, <1>3, ConversationsAssumption
    <3> QED BY <1>7, <2>1, <2>2, <3>1
  <2> QED BY <2>3, <2>4
<1> QED BY <1>9, <1>10
----------------------------------------------------------------------------
(* Each critical section keeps the types and the invariant of the table.   *)

LEMMA WaitingKey ==
  ASSUME TableTypeOK, EntriesWait, NEW c \in Conv
  PROVE  Waiting(c) <=> (key[c] \in PendingKey /\ pending[key[c]] = c)
BY ConversationsAssumption DEF TableTypeOK, EntriesWait, Waiting, Range

LEMMA TrackPendingType ==
  ASSUME TableTypeOK, NEW c \in Conv, NEW k \in PendingKey, TrackPending(c, k)
  PROVE  TableTypeOK'
<1> USE DEF TableTypeOK
<1>1. key' \in [Conv -> PendingKey \cup {None}] /\ response' = response
  BY DEF TrackPending
<1>2. status' \in [Conv -> Status]
  BY DEF TrackPending, Status
<1>3. convs' \in Seq(Conv)
  BY RingKeeps DEF TrackPending
<1>4. pending' \in [PendingKey -> Conv \cup {None}]
  BY DEF TrackPending
<1>5. overdue' \subseteq Conv
  BY DEF TrackPending
<1> QED BY <1>1, <1>2, <1>3, <1>4, <1>5

(* A tracked conversation is new to the table, which is what keeps the     *)
(* entries of the others intact.                                           *)
LEMMA TrackPendingInv ==
  ASSUME TableTypeOK, TableInv, NEW c \in Conv, NEW k \in PendingKey,
         status[c] = "none", TrackPending(c, k)
  PROVE  TableInv'
<1> USE DEF TableTypeOK, TableInv
<1>1. TableTypeOK'
  BY TrackPendingType
<1>2. ~Waiting(c)
  BY ConversationsAssumption DEF EntriesWait, Waiting, Range
<1>3. \A j \in PendingKey : pending'[j] # None =>
        \/ j = k /\ pending'[j] = c
        \/ j # k /\ pending'[j] = pending[j] /\ pending[j] # c
  BY <1>2 DEF TrackPending, Waiting, Range
<1>4. EntriesWait'
  BY <1>1, <1>3 DEF EntriesWait, TrackPending
<1>5. ASSUME NEW d \in Conv, Waiting(d)'
      PROVE  InRing(d)'
  <2>1. PICK j \in PendingKey : pending'[j] = d
    BY <1>1, <1>5 DEF Waiting, Range
  <2>2. d # None
    BY ConversationsAssumption
  <2>3. CASE d = c
    BY <2>3, RingKeeps DEF TrackPending, InRing
  <2>4. CASE d # c
    <3>1. j # k /\ pending[j] = d
      BY <1>3, <2>1, <2>2, <2>4
    <3>2. Waiting(d) /\ status[d] = "pending" /\ key[d] = j
      BY <3>1, <2>2 DEF EntriesWait, Waiting, Range
    <3>3. status'[d] = "pending" /\ key'[d] = j
      <4>1. pending[k] # d
        BY <3>1, <3>2, <2>2 DEF EntriesWait
      <4> QED BY <4>1, <3>2, <2>4 DEF TrackPending
    <3>4. j \notin DroppedKeys(c, key', status')
      BY <2>1, <2>2 DEF TrackPending
    <3>5. d \notin Dropped(c)
      BY <3>3, <3>4 DEF DroppedKeys
    <3>6. d \in Range(convs)
      BY <3>2 DEF WaitingIsListed, InRing
    <3> QED BY <3>5, <3>6, RingKeeps DEF TrackPending, InRing
  <2> QED BY <2>3, <2>4
<1>6. RingBounded'
  BY RingKeeps DEF TrackPending, RingBounded
<1> QED BY <1>4, <1>5, <1>6 DEF WaitingIsListed

(* What tracking c does to the others: at most, one that waits times out.  *)
LEMMA TrackPendingOthers ==
  ASSUME TableTypeOK, NEW c \in Conv, NEW k \in PendingKey, TrackPending(c, k)
  PROVE  /\ key'[c] = k /\ status'[c] = "pending"
         /\ \A d \in Conv \ {c} :
              /\ key'[d] = key[d]
              /\ Waiting(d)' => Waiting(d)
              /\ \/ status'[d] = status[d]
                 \/ Waiting(d) /\ status[d] = "pending" /\ status'[d] = "timeout"
<1> USE DEF TableTypeOK
<1>1. key'[c] = k /\ status'[c] = "pending" /\ \A d \in Conv \ {c} : key'[d] = key[d]
  BY DEF TrackPending
<1>2. \A j \in PendingKey : pending'[j] \in {None, c, pending[j]}
  BY DEF TrackPending
<1>3. ASSUME NEW d \in Conv \ {c}, Waiting(d)'
      PROVE  Waiting(d)
  <2>1. PICK j \in PendingKey : pending'[j] = d
    BY <1>3, TrackPendingType DEF Waiting, Range
  <2> QED BY <1>2, <2>1, ConversationsAssumption DEF Waiting, Range
<1>4. ASSUME NEW d \in Conv \ {c}, status'[d] # status[d]
      PROVE  Waiting(d) /\ status[d] = "pending" /\ status'[d] = "timeout"
  <2>1. d = pending[k] /\ status[d] = "pending" /\ status'[d] = "timeout"
    BY <1>4 DEF TrackPending
  <2> QED BY <2>1 DEF Waiting, Range
<1> QED BY <1>1, <1>3, <1>4

LEMMA FinishErrorInv ==
  ASSUME TableTypeOK, TableInv, NEW c \in Conv, key[c] # None, FinishError(c)
  PROVE  TableTypeOK' /\ TableInv'
<1> USE DEF TableTypeOK, TableInv
<1>1. TableTypeOK'
  BY DEF FinishError, Status
<1>2. ~Waiting(c)'
  BY WaitingKey, <1>1, ConversationsAssumption DEF FinishError, Waiting, Range, EntriesWait
<1>3. EntriesWait'
  BY <1>1, <1>2 DEF EntriesWait, FinishError, Waiting, Range
<1>4. WaitingIsListed'
  BY <1>1, ConversationsAssumption DEF WaitingIsListed, FinishError, Waiting, InRing, Range
<1> QED BY <1>1, <1>3, <1>4 DEF RingBounded, FinishError

(* Whoever is taken is not waiting any more. *)
LEMMA TakePendingInv ==
  ASSUME TableTypeOK, TableInv, NEW k \in PendingKey, TakePending(k)
  PROVE  TableTypeOK' /\ TableInv' /\ pending[k] \in Conv \ Range(pending')
<1> USE DEF TableTypeOK, TableInv
<1>1. TableTypeOK' /\ pending[k] \in Conv
  BY DEF TakePending
<1>2. EntriesWait'
  BY <1>1 DEF EntriesWait, TakePending
<1>3. WaitingIsListed'
  BY <1>1, ConversationsAssumption DEF WaitingIsListed, TakePending, Waiting, InRing, Range
<1>4. pending[k] \notin Range(pending')
  <2>1. \A j \in PendingKey : pending[j] = pending[k] => j = k
    BY <1>1, ConversationsAssumption DEF EntriesWait
  <2>2. \A j \in PendingKey : pending'[j] # pending[k]
    BY <1>1, <2>1, ConversationsAssumption DEF TakePending
  <2> QED BY <1>1, <2>2 DEF Range
<1> QED BY <1>1, <1>2, <1>3, <1>4 DEF RingBounded, TakePending

LEMMA CompleteConversationInv ==
  ASSUME TableTypeOK, TableInv, NEW c \in Conv, NEW d \in Conv, ~Waiting(c),
         CompleteConversation(c, d)
  PROVE  TableTypeOK' /\ TableInv'
<1> USE DEF TableTypeOK, TableInv
<1>1. TableTypeOK'
  BY DEF CompleteConversation, Status
<1>2. EntriesWait'
  BY <1>1 DEF EntriesWait, CompleteConversation, Waiting, Range
<1>3. WaitingIsListed' /\ RingBounded'
  BY DEF WaitingIsListed, RingBounded, CompleteConversation, Waiting, InRing, Range
<1> QED BY <1>1, <1>2, <1>3

LEMMA ExpirePendingInv ==
  ASSUME TableTypeOK, TableInv, ExpirePending
  PROVE  TableTypeOK' /\ TableInv'
<1> USE DEF TableTypeOK, TableInv
<1>1. TableTypeOK'
  BY DEF ExpirePending, Status
<1>2. \A k \in PendingKey : pending'[k] # None =>
        pending'[k] = pending[k] /\ pending[k] \notin Expired
  BY DEF ExpirePending
<1>3. EntriesWait'
  BY <1>1, <1>2 DEF EntriesWait, ExpirePending
<1>4. WaitingIsListed'
  BY <1>1, <1>2, ConversationsAssumption
     DEF WaitingIsListed, ExpirePending, Waiting, InRing, Range
<1> QED BY <1>1, <1>3, <1>4 DEF RingBounded, ExpirePending

LEMMA ClearConversationsInv ==
  ASSUME TableTypeOK, ClearConversations
  PROVE  TableTypeOK' /\ TableInv'
<1> USE DEF TableTypeOK, TableInv
<1>1. TableTypeOK'
  BY DEF ClearConversations
<1>2. EntriesWait' /\ WaitingIsListed'
  BY <1>1, ConversationsAssumption DEF EntriesWait, WaitingIsListed, ClearConversations, Waiting, Range
<1> QED BY <1>1, <1>2, ConversationsAssumption DEF RingBounded, ClearConversations

LEMMA BecomeOverdueInv ==
  ASSUME TableTypeOK, TableInv, NEW c \in Conv, BecomeOverdue(c)
  PROVE  TableTypeOK' /\ TableInv'
BY DEF TableTypeOK, TableInv, EntriesWait, WaitingIsListed, RingBounded,
       BecomeOverdue, Waiting, InRing, Range

LEMMA TableUnchanged ==
  ASSUME TableTypeOK, TableInv, UNCHANGED tableVars
  PROVE  TableTypeOK' /\ TableInv'
BY DEF TableTypeOK, TableInv, EntriesWait, WaitingIsListed, RingBounded,
       tableVars, Waiting, InRing, Range
----------------------------------------------------------------------------
(* The place of a waiting conversation in the ring; two keys that have     *)
(* somebody waiting have it in two places, so there are no more of them    *)
(* than the ring is long.                                                  *)
Place == [k \in {j \in PendingKey : pending[j] # None} |->
            CHOOSE n \in 1 .. Len(convs) : convs[n] = pending[k]]

LEMMA PlaceInjective ==
  ASSUME TableTypeOK, TableInv
  PROVE  Place \in Injection({j \in PendingKey : pending[j] # None}, 1 .. MaxConversations)
<1> USE DEF TableTypeOK, TableInv
<1> DEFINE taken == {j \in PendingKey : pending[j] # None}
<1>1. ASSUME NEW k \in taken
      PROVE  Place[k] \in 1 .. Len(convs) /\ convs[Place[k]] = pending[k]
  <2>1. pending[k] \in Conv /\ Waiting(pending[k])
    BY <1>1 DEF Waiting, Range
  <2>2. \E n \in 1 .. Len(convs) : convs[n] = pending[k]
    BY <2>1 DEF WaitingIsListed, InRing, Range
  <2> QED BY <2>2 DEF Place
<1>2. \A i \in 1 .. Len(convs) : i \in 1 .. MaxConversations
  BY ConversationsAssumption DEF RingBounded
<1>3. Place \in [taken -> 1 .. MaxConversations]
  BY <1>1, <1>2 DEF Place
<1>4. \A j, k \in taken : Place[j] = Place[k] => j = k
  BY <1>1 DEF EntriesWait
<1> QED BY <1>3, <1>4 DEF Injection, IsInjective

LEMMA TableImpliesInFlightBounded ==
  ASSUME TableTypeOK, TableInv
  PROVE  InFlightBounded
<1>1. IsFiniteSet(1 .. MaxConversations) /\ Cardinality(1 .. MaxConversations) = MaxConversations
  BY FS_Interval, ConversationsAssumption
<1> QED BY <1>1, PlaceInjective, FS_Injection DEF InFlightBounded

(* If every identifier of a channel were taken, two of them would share a  *)
(* place in the ring, since the ring is shorter than the identifier space. *)
LEMMA FreeIdentExists ==
  ASSUME TableTypeOK, TableInv, NEW ch \in Channel
  PROVE  \E i \in Ident : pending[<<ch, i>>] = None
<1> SUFFICES ASSUME \A i \in Ident : pending[<<ch, i>>] # None
             PROVE  FALSE
  OBVIOUS
<1> DEFINE f == [i \in Ident |-> Place[<<ch, i>>]]
<1>1. \A i \in Ident : <<ch, i>> \in {j \in PendingKey : pending[j] # None}
  BY DEF PendingKey
<1>2. f \in [Ident -> 1 .. MaxConversations]
  BY <1>1, PlaceInjective DEF Injection
<1>3. \A i, j \in Ident : f[i] = f[j] => i = j
  BY <1>1, PlaceInjective DEF Injection, IsInjective
<1>4. /\ IsFiniteSet(Ident) /\ IsFiniteSet(1 .. MaxConversations)
      /\ Cardinality(1 .. MaxConversations) < Cardinality(Ident)
  BY FS_Interval, ConversationsAssumption DEF Ident
<1> HIDE DEF f
<1>5. \E i, j \in Ident : i # j /\ f[i] = f[j]
  BY <1>2, <1>4, FS_PigeonHole
<1> QED BY <1>3, <1>5

LEMMA TableImpliesAllocationIsFree ==
  ASSUME TableTypeOK, TableInv
  PROVE  AllocationIsFree
BY FreeIdentExists, AllocateIdentFree DEF AllocationIsFree, PendingKey
----------------------------------------------------------------------------
(* The sockets. *)

SocketsInv == PathsOwnSockets /\ ThreadsHoldConfig

(* A step that forgets no socket and changes the channel of none. *)
SocketsStay ==
    \A k \in Sock : socket[k] # None =>
        socket'[k] # None /\ socket'[k].channel = socket[k].channel

PathsTypeOK ==
    /\ path \in [Channel -> Sock \cup {None}]
    /\ socket \in [Sock -> Socket \cup {None}]

(* Hanging up leaves the closed socket in place. *)
LEMMA HangupType ==
  ASSUME PathsTypeOK, NEW ch \in Channel, PathsOwnSockets
  PROVE  /\ Hangup(ch) \in [Sock -> Socket \cup {None}]
         /\ \A k \in Sock \ {path[ch]} : Hangup(ch)[k] = socket[k]
         /\ \A k \in Sock : k = path[ch] =>
              /\ socket[k] \in Socket /\ Hangup(ch)[k] \in Socket
              /\ Hangup(ch)[k].channel = ch /\ ~Hangup(ch)[k].open
<1>1. \A k \in Sock : k = path[ch] => socket[k] \in Socket /\ socket[k].channel = ch
  BY DEF PathsTypeOK, PathsOwnSockets, Open
<1> QED BY <1>1 DEF PathsTypeOK, Hangup, Socket

(* ensurePath and closePath replace a channel's socket without losing the  *)
(* track of an open one.                                                   *)
LEMMA ClosePathInv ==
  ASSUME PathsTypeOK, PathsOwnSockets, NEW ch \in Channel, ClosePath(ch)
  PROVE  PathsTypeOK' /\ PathsOwnSockets' /\ SocketsStay
<1>1. PathsTypeOK'
  BY HangupType DEF PathsTypeOK, ClosePath
<1>2. SocketsStay
  BY HangupType, SocketsAssumption DEF SocketsStay, ClosePath, PathsOwnSockets, Open
<1>3. PathsOwnSockets'
  <2> SUFFICES ASSUME NEW k \in Sock, NEW c2 \in Channel
               PROVE  path'[c2] = k <=> socket'[k] # None /\ socket'[k].open /\ socket'[k].channel = c2
    BY DEF PathsOwnSockets, Open
  <2>1. CASE k = path[ch]
    <3>1. ~socket'[k].open
      BY <2>1, HangupType DEF ClosePath
    <3>2. path'[c2] # k
      BY <2>1, SocketsAssumption DEF ClosePath, PathsTypeOK, PathsOwnSockets
    <3> QED BY <3>1, <3>2
  <2>2. CASE k # path[ch]
    BY <2>2, HangupType, SocketsAssumption DEF ClosePath, PathsTypeOK, PathsOwnSockets, Open
  <2> QED BY <2>1, <2>2
<1> QED BY <1>1, <1>2, <1>3

LEMMA EnsurePathInv ==
  ASSUME PathsTypeOK, PathsOwnSockets, NEW ch \in Channel, NEW t \in Target,
         NEW k \in Sock \cup {None}, EnsurePath(ch, t, k)
  PROVE  /\ PathsTypeOK' /\ PathsOwnSockets' /\ SocketsStay
         /\ k # None => socket'[k] # None /\ socket'[k].channel = ch
<1>1. CASE Current(ch, t) /\ k = path[ch] /\ UNCHANGED <<path, socket>>
  <2>1. k \in Sock /\ socket[k] # None /\ socket[k].channel = ch
    BY <1>1 DEF Current, PathsTypeOK, PathsOwnSockets, Open
  <2> QED BY <1>1, <2>1 DEF PathsTypeOK, PathsOwnSockets, Open, SocketsStay
<1>2. CASE k = None /\ ClosePath(ch)
  BY <1>2, ClosePathInv
<1>3. CASE /\ k \in Sock /\ socket[k] = None
           /\ path' = [path EXCEPT ![ch] = k]
           /\ socket' = [Hangup(ch) EXCEPT ![k] = [channel |-> ch, target |-> t, open |-> TRUE]]
  <2> DEFINE new == [channel |-> ch, target |-> t, open |-> TRUE]
  <2>1. new \in Socket /\ new # None /\ new.channel = ch /\ new.open
    <3>1. new \in Socket /\ new.channel = ch /\ new.open
      BY DEF Socket
    <3> QED BY <3>1, SocketsAssumption
  <2>2. k # path[ch]
    BY <1>3 DEF PathsOwnSockets, Open
  <2>3. /\ socket' \in [Sock -> Socket \cup {None}]
        /\ socket'[k] = new
        /\ \A j \in Sock \ {k} : socket'[j] = Hangup(ch)[j]
    BY <1>3, <2>1, HangupType
  <2> HIDE DEF new
  <2>4. PathsTypeOK'
    BY <1>3, <2>3 DEF PathsTypeOK
  <2>5. SocketsStay
    <3> SUFFICES ASSUME NEW j \in Sock, socket[j] # None
                 PROVE  socket'[j] # None /\ socket'[j].channel = socket[j].channel
      BY DEF SocketsStay
    <3>1. socket'[j] = Hangup(ch)[j]
      BY <1>3, <2>3
    <3>2. CASE j = path[ch]
      BY <3>1, <3>2, HangupType, SocketsAssumption DEF PathsOwnSockets
    <3>3. CASE j # path[ch]
      BY <3>1, <3>3, HangupType
    <3> QED BY <3>2, <3>3
  <2>6. PathsOwnSockets'
    <3> SUFFICES ASSUME NEW j \in Sock, NEW c2 \in Channel
                 PROVE  path'[c2] = j <=> socket'[j] # None /\ socket'[j].open /\ socket'[j].channel = c2
      BY DEF PathsOwnSockets, Open
    <3>1. path'[c2] = IF c2 = ch THEN k ELSE path[c2]
      BY <1>3 DEF PathsTypeOK
    <3>2. CASE j = k
      <4>1. path[c2] # k
        BY <1>3 DEF PathsOwnSockets, Open
      <4> QED BY <2>1, <2>3, <3>1, <3>2, <4>1
    <3>3. CASE j = path[ch]
      <4>1. ~socket'[j].open
        BY <2>2, <2>3, <3>3, HangupType
      <4>2. path'[c2] # j
        BY <2>2, <3>1, <3>3 DEF PathsOwnSockets
      <4> QED BY <4>1, <4>2
    <3>4. CASE j # k /\ j # path[ch]
      <4>1. socket'[j] = socket[j]
        BY <2>3, <3>4, HangupType
      <4> QED BY <3>1, <3>4, <4>1 DEF PathsOwnSockets, Open
    <3> QED BY <3>2, <3>3, <3>4
  <2> QED BY <2>1, <2>3, <2>4, <2>5, <2>6
<1> QED BY <1>1, <1>2, <1>3 DEF EnsurePath, ClosePath
----------------------------------------------------------------------------
(* The steps of SetConfig, of the start and of Close. *)

LEMMA ThreadStep ==
  ASSUME SocketsTypeOK, ThreadsHoldConfig, NEW a \in Thread, NEW p \in ThreadPC,
         NEW cfg \in Configuration \cup {None}, Goto(a, p, cfg),
         p \in {"write", "auth", "acct"} => cfg # None
  PROVE  /\ thread' \in [Thread -> [pc : ThreadPC, cfg : Configuration \cup {None}]]
         /\ ThreadsHoldConfig'
BY DEF SocketsTypeOK, ThreadsHoldConfig, Goto

LEMMA ConfigureInv ==
  ASSUME SocketsTypeOK, SocketsInv, NEW a \in Thread,
         \/ \E cfg \in Config : SetConfig(a, cfg)
         \/ PersistRead(a) \/ PersistWrite(a) \/ PersistFails(a)
         \/ SyncRead(a)
         \/ \E ch \in Channel : SyncChannel(a, ch)
  PROVE  SocketsTypeOK' /\ SocketsInv' /\ SocketsStay
<1> USE DEF SocketsInv
<1>1. PathsTypeOK
  BY DEF SocketsTypeOK, PathsTypeOK
<1>2. ASSUME UNCHANGED <<path, socket>>
      PROVE  PathsTypeOK' /\ PathsOwnSockets' /\ SocketsStay
  BY <1>1, <1>2 DEF PathsTypeOK, PathsOwnSockets, Open, SocketsStay
<1>3. CASE \E cfg \in Config : SetConfig(a, cfg)
  <2>1. config' \in Configuration /\ Goto(a, "persist", None)
    BY <1>3, SocketsAssumption DEF SetConfig
  <2>2. /\ thread' \in [Thread -> [pc : ThreadPC, cfg : Configuration \cup {None}]]
        /\ ThreadsHoldConfig'
    BY <2>1, ThreadStep DEF ThreadPC
  <2> QED BY <1>2, <1>3, <2>1, <2>2 DEF SetConfig, SocketsTypeOK, PathsTypeOK
<1>4. CASE PersistRead(a)
  <2>1. config \in Configuration /\ config # None
    BY SocketsAssumption DEF SocketsTypeOK
  <2>2. /\ thread' \in [Thread -> [pc : ThreadPC, cfg : Configuration \cup {None}]]
        /\ ThreadsHoldConfig'
    BY <1>4, <2>1, ThreadStep DEF ThreadPC, PersistRead
  <2> QED BY <1>2, <1>4, <2>2 DEF PersistRead, SocketsTypeOK, PathsTypeOK
<1>5. CASE PersistWrite(a) \/ PersistFails(a)
  <2>1. thread[a].cfg \in Configuration \cup {None} /\ Goto(a, "sync", None)
    BY <1>5 DEF SocketsTypeOK, PersistWrite, PersistFails
  <2>2. /\ thread' \in [Thread -> [pc : ThreadPC, cfg : Configuration \cup {None}]]
        /\ ThreadsHoldConfig'
    BY <2>1, ThreadStep DEF ThreadPC
  <2> QED BY <1>2, <1>5, <2>1, <2>2 DEF PersistWrite, PersistFails, SocketsTypeOK, PathsTypeOK
<1>6. CASE SyncRead(a)
  <2>1. config \in Configuration /\ config # None
    BY SocketsAssumption DEF SocketsTypeOK
  <2>2. /\ thread' \in [Thread -> [pc : ThreadPC, cfg : Configuration \cup {None}]]
        /\ ThreadsHoldConfig'
    BY <1>6, <2>1, ThreadStep DEF ThreadPC, SyncRead
  <2> QED BY <1>2, <1>6, <2>2 DEF SyncRead, SocketsTypeOK, PathsTypeOK
<1>7. ASSUME NEW ch \in Channel, SyncChannel(a, ch)
      PROVE  SocketsTypeOK' /\ SocketsInv' /\ SocketsStay
  <2>1. thread[a].cfg \in Configuration
    BY <1>7 DEF SyncChannel, At, ThreadsHoldConfig, SocketsTypeOK, Channel
  <2>2. thread[a].cfg[ch] \in Target
    BY <2>1 DEF Configuration, Channel
  <2>3. PathsTypeOK' /\ PathsOwnSockets' /\ SocketsStay
    BY <1>1, <1>7, <2>2, EnsurePathInv, ClosePathInv DEF SyncChannel
  <2>4. \/ Goto(a, "acct", thread[a].cfg)
        \/ Goto(a, AfterSync(a), None)
    BY <1>7 DEF SyncChannel
  <2>5. /\ thread' \in [Thread -> [pc : ThreadPC, cfg : Configuration \cup {None}]]
        /\ ThreadsHoldConfig'
    <3>1. thread[a].cfg # None
      BY <2>1, SocketsAssumption
    <3>2. AfterSync(a) \in ThreadPC /\ AfterSync(a) \notin {"write", "auth", "acct"}
      BY DEF AfterSync, ThreadPC
    <3>3. "acct" \in ThreadPC
      BY DEF ThreadPC
    <3> QED BY <2>1, <2>4, <3>1, <3>2, <3>3, ThreadStep
  <2> QED BY <1>7, <2>3, <2>5 DEF SyncChannel, SocketsTypeOK, PathsTypeOK
<1> QED BY <1>3, <1>4, <1>5, <1>6, <1>7

LEMMA ShutdownInv ==
  ASSUME SocketsTypeOK, SocketsInv, Close \/ \E ch \in Channel : CloseChannel(ch)
  PROVE  SocketsTypeOK' /\ SocketsInv' /\ SocketsStay
<1> USE DEF SocketsInv
<1>1. PathsTypeOK /\ Main \in Thread
  BY DEF SocketsTypeOK, PathsTypeOK, Thread
<1>2. CASE Close
  <2>1. /\ thread' \in [Thread -> [pc : ThreadPC, cfg : Configuration \cup {None}]]
        /\ ThreadsHoldConfig'
    BY <1>1, <1>2, ThreadStep DEF ThreadPC, Close
  <2> QED BY <1>2, <2>1 DEF Close, SocketsTypeOK, PathsOwnSockets, Open, SocketsStay
<1>3. ASSUME NEW ch \in Channel, CloseChannel(ch)
      PROVE  SocketsTypeOK' /\ SocketsInv' /\ SocketsStay
  <2>1. PathsTypeOK' /\ PathsOwnSockets' /\ SocketsStay
    BY <1>1, <1>3, ClosePathInv DEF CloseChannel
  <2>2. \E p \in {"close_acct", "stopped"} : Goto(Main, p, None)
    BY <1>3 DEF CloseChannel
  <2>3. /\ thread' \in [Thread -> [pc : ThreadPC, cfg : Configuration \cup {None}]]
        /\ ThreadsHoldConfig'
    BY <1>1, <2>2, ThreadStep DEF ThreadPC
  <2> QED BY <1>3, <2>1, <2>3 DEF CloseChannel, SocketsTypeOK, PathsTypeOK
<1> QED BY <1>2, <1>3

(* Forgetting a socket, which no path holds because it is closed. *)
LEMMA ForgetSocketInv ==
  ASSUME SocketsTypeOK, SocketsInv, NEW k \in Sock, ForgetSocket(k)
  PROVE  /\ SocketsTypeOK' /\ SocketsInv'
         /\ \A j \in Sock \ {k} : socket'[j] = socket[j]
<1>1. SocketsTypeOK' /\ \A j \in Sock \ {k} : socket'[j] = socket[j]
  BY DEF SocketsTypeOK, ForgetSocket
<1>2. PathsOwnSockets'
  BY <1>1 DEF PathsOwnSockets, SocketsInv, SocketsTypeOK, ForgetSocket, Open
<1> QED BY <1>1, <1>2 DEF SocketsInv, ThreadsHoldConfig, ForgetSocket
----------------------------------------------------------------------------
(* The invariant. *)

CallTypeOK ==
    /\ pc \in [Conv -> CallPC]
    /\ slot \in [Conv -> PendingKey \cup {None}]
    /\ target \in [Conv -> Target \cup {None}]
    /\ via \in [Conv -> Sock \cup {None}]
    /\ wire \in [Conv -> Sock \cup {None}]

ReaderTypeOK == reader \in [Sock -> Reader]

LEMMA IInvParts ==
  IInv <=> /\ TableTypeOK /\ SocketsTypeOK /\ CallTypeOK /\ ReaderTypeOK
           /\ overlapped \in BOOLEAN
           /\ TableInv /\ SocketsInv
           /\ CallsInOrder /\ OnItsChannel /\ ReadersInOrder /\ Unanswered
BY DEF IInv, TypeOK, CallTypeOK, ReaderTypeOK, SocketsInv

LEMMA IInvNext ==
  ASSUME TableTypeOK', SocketsTypeOK', CallTypeOK', ReaderTypeOK', overlapped' \in BOOLEAN,
         TableInv', SocketsInv', CallsInOrder', OnItsChannel', ReadersInOrder', Unanswered'
  PROVE  IInv'
BY DEF IInv, TypeOK, CallTypeOK, ReaderTypeOK, SocketsInv

LEMMA SocketsUnchanged ==
  ASSUME SocketsTypeOK, SocketsInv, UNCHANGED socketVars
  PROVE  SocketsTypeOK' /\ SocketsInv' /\ SocketsStay
BY DEF SocketsTypeOK, SocketsInv, PathsOwnSockets, Open, ThreadsHoldConfig,
       socketVars, SocketsStay

LEMMA InitIInv == Init => IInv
<1> SUFFICES ASSUME Init PROVE IInv
  OBVIOUS
<1> USE DEF Init, TableInit, SocketsInit
<1>1. TableTypeOK
  BY DEF TableTypeOK, Status
<1>2. TableInv
  BY ConversationsAssumption DEF TableInv, EntriesWait, WaitingIsListed, RingBounded, Waiting, Range
<1>3. SocketsTypeOK
  BY SocketsAssumption DEF SocketsTypeOK, ThreadPC
<1>4. SocketsInv
  BY SocketsAssumption DEF SocketsInv, PathsOwnSockets, ThreadsHoldConfig, Open
<1>5. CallTypeOK /\ ReaderTypeOK /\ overlapped \in BOOLEAN
  BY DEF CallTypeOK, ReaderTypeOK, Reader, CallPC, AtRead
<1>6. CallsInOrder /\ OnItsChannel
  BY DEF CallsInOrder, OnItsChannel
<1>7. ReadersInOrder /\ Unanswered
  BY DEF ReadersInOrder, Unanswered, AtRead
<1> QED BY <1>1, <1>2, <1>3, <1>4, <1>5, <1>6, <1>7, IInvParts
----------------------------------------------------------------------------
(* Frame conditions: a step that leaves the table alone keeps what is said *)
(* of it and of the readers, and a step that keeps the sockets keeps what  *)
(* is said of the requests that went out on them.                          *)

LEMMA ReadersFrame ==
  ASSUME ReadersInOrder, Unanswered, UNCHANGED <<tableVars, wire, reader>>
  PROVE  ReadersInOrder' /\ Unanswered'
BY DEF ReadersInOrder, Unanswered, tableVars, Waiting, Range

LEMMA ChannelFrame ==
  ASSUME CallTypeOK, CallsInOrder, OnItsChannel, SocketsStay,
         UNCHANGED <<key, pc, slot, via, wire>>
  PROVE  OnItsChannel'
<1> SUFFICES ASSUME NEW c \in Conv
             PROVE  OnItsChannel!(c)'
  BY DEF OnItsChannel
<1> QED BY DEF CallTypeOK, CallsInOrder, OnItsChannel, SocketsStay

LEMMA CallsFrame ==
  ASSUME CallsInOrder, UNCHANGED <<key, status, pc, slot, target, via, wire>>
  PROVE  CallsInOrder'
BY DEF CallsInOrder
----------------------------------------------------------------------------
(* The steps of MaybeForward. *)

LEMMA StartCallInv ==
  ASSUME IInv, NEW c \in Conv, NEW r \in Request, MaybeForward(c, r) \/ SkipForward(c, r)
  PROVE  IInv'
<1> USE DEF Step
<1>1. /\ TableTypeOK' /\ TableInv'
      /\ SocketsTypeOK' /\ SocketsInv' /\ SocketsStay
      /\ ReaderTypeOK' /\ overlapped' \in BOOLEAN
      /\ ReadersInOrder' /\ Unanswered'
  BY IInvParts, TableUnchanged, SocketsUnchanged, ReadersFrame
     DEF MaybeForward, SkipForward, ReaderTypeOK, Reader
<1>2. r \in PendingKey /\ r # None /\ r[1] \in Channel
  BY ForwarderAssumption, ConversationsAssumption DEF PendingKey
<1>3. config[r[1]] \in Target /\ config[r[1]] # None
  BY <1>2, IInvParts, SocketsAssumption DEF SocketsTypeOK, Configuration, Channel
<1>4. CallTypeOK'
  BY <1>2, <1>3, IInvParts DEF CallTypeOK, CallPC, MaybeForward, SkipForward
<1>5. CallsInOrder'
  BY <1>2, <1>3, IInvParts DEF CallsInOrder, CallTypeOK, MaybeForward, SkipForward, tableVars
<1>6. OnItsChannel'
  BY IInvParts DEF OnItsChannel, CallTypeOK, MaybeForward, SkipForward, tableVars, socketVars
<1> QED BY <1>1, <1>4, <1>5, <1>6, IInvNext

LEMMA OpenPathInv ==
  ASSUME IInv, NEW c \in Conv, NEW k \in Sock \cup {None}, OpenPath(c, k)
  PROVE  IInv'
<1> USE DEF Step
<1>1. /\ TableTypeOK' /\ TableInv'
      /\ ReaderTypeOK' /\ overlapped' \in BOOLEAN
      /\ ReadersInOrder' /\ Unanswered'
  BY IInvParts, TableUnchanged, ReadersFrame DEF OpenPath, ReaderTypeOK, Reader
<1>2. slot[c] \in PendingKey /\ slot[c][1] \in Channel /\ target[c] \in Target
  BY IInvParts DEF OpenPath, CallTypeOK, CallsInOrder, PendingKey
<1>3. /\ PathsTypeOK' /\ PathsOwnSockets' /\ SocketsStay
      /\ k # None => socket'[k] # None /\ socket'[k].channel = slot[c][1]
  BY <1>2, IInvParts, EnsurePathInv DEF OpenPath, SocketsTypeOK, PathsTypeOK, SocketsInv
<1>4. SocketsTypeOK' /\ SocketsInv'
  BY <1>3, IInvParts
     DEF OpenPath, SocketsTypeOK, PathsTypeOK, SocketsInv, ThreadsHoldConfig
<1>5. CallTypeOK'
  BY IInvParts DEF CallTypeOK, CallPC, OpenPath
<1>6. CallsInOrder'
  BY <1>2, IInvParts DEF CallsInOrder, CallTypeOK, OpenPath, tableVars
<1>7. OnItsChannel'
  <2> SUFFICES ASSUME NEW d \in Conv
               PROVE  OnItsChannel!(d)'
    BY DEF OnItsChannel
  <2>1. CASE d = c
    BY <1>2, <1>3, <2>1, IInvParts
       DEF OnItsChannel, CallsInOrder, CallTypeOK, OpenPath, tableVars, SocketsStay
  <2>2. CASE d # c
    BY <1>3, <2>2, IInvParts
       DEF OnItsChannel, CallsInOrder, CallTypeOK, OpenPath, tableVars, SocketsStay
  <2> QED BY <2>1, <2>2
<1> QED BY <1>1, <1>4, <1>5, <1>6, <1>7, IInvNext

LEMMA PrepareInv ==
  ASSUME IInv, NEW c \in Conv,
         ParseFails(c) \/ \E rewritten \in BOOLEAN : Prepare(c, rewritten)
  PROVE  IInv'
<1> USE DEF Step
<1>1. /\ TableTypeOK' /\ TableInv'
      /\ SocketsTypeOK' /\ SocketsInv' /\ SocketsStay
      /\ ReaderTypeOK' /\ overlapped' \in BOOLEAN
      /\ ReadersInOrder' /\ Unanswered'
  BY IInvParts, TableUnchanged, SocketsUnchanged, ReadersFrame
     DEF ParseFails, Prepare, ReaderTypeOK, Reader
<1>2. CASE ParseFails(c)
  <2>1. CallTypeOK'
    BY <1>2, IInvParts DEF CallTypeOK, CallPC, ParseFails
  <2>2. CallsInOrder'
    BY <1>2, IInvParts DEF CallTypeOK, CallsInOrder, ParseFails, tableVars
  <2>3. OnItsChannel'
    BY <1>2, IInvParts DEF CallTypeOK, OnItsChannel, ParseFails, tableVars, socketVars
  <2> QED BY <1>1, <2>1, <2>2, <2>3, IInvNext
<1>3. ASSUME NEW rewritten \in BOOLEAN, Prepare(c, rewritten)
      PROVE  IInv'
  <2>1. slot[c] \in PendingKey /\ slot[c][1] \in Channel /\ slot[c][2] \in Ident
    BY <1>3, IInvParts DEF Prepare, CallTypeOK, CallsInOrder, PendingKey
  <2>2. AllocateIdent(slot[c][1], slot[c][2]) \in Ident
    BY <2>1, AllocateIdentType
  <2>3. PICK i \in Ident : slot' = [slot EXCEPT ![c] = <<slot[c][1], i>>]
    <3>1. slot[c] = <<slot[c][1], slot[c][2]>>
      BY <2>1 DEF PendingKey
    <3>2. \A i : [slot[c] EXCEPT ![2] = i] = <<slot[c][1], i>>
      BY <3>1
    <3> QED BY <1>3, <2>1, <2>2, <3>2 DEF Prepare
  <2>4. <<slot[c][1], i>> \in PendingKey /\ <<slot[c][1], i>> # None
    BY <2>1, ConversationsAssumption DEF PendingKey
  <2>5. CallTypeOK'
    <3>1. slot' \in [Conv -> PendingKey \cup {None}]
      BY <2>3, <2>4, IInvParts DEF CallTypeOK
    <3>2. pc' \in [Conv -> CallPC]
      BY <1>3, IInvParts DEF CallTypeOK, CallPC, Prepare
    <3> QED BY <1>3, <3>1, <3>2, IInvParts DEF CallTypeOK, Prepare
  <2>6. CallsInOrder'
    BY <1>3, <2>3, <2>4, IInvParts DEF CallsInOrder, CallTypeOK, Prepare, tableVars
  <2>7. OnItsChannel'
    BY <1>3, <2>3, IInvParts DEF OnItsChannel, CallTypeOK, Prepare, tableVars, socketVars
  <2> QED BY <1>1, <2>5, <2>6, <2>7, IInvNext
<1> QED BY <1>2, <1>3

LEMMA TrackInv ==
  ASSUME IInv, NEW c \in Conv, Track(c)
  PROVE  IInv'
<1> USE DEF Step
<1>1. slot[c] \in PendingKey /\ slot[c] # None /\ status[c] = "none" /\ key[c] = None
  BY IInvParts DEF Track, CallTypeOK, CallsInOrder
<1>2. TableTypeOK' /\ TableInv'
  BY <1>1, IInvParts, TrackPendingType, TrackPendingInv DEF Track
<1>3. /\ SocketsTypeOK' /\ SocketsInv' /\ SocketsStay
      /\ ReaderTypeOK' /\ overlapped' \in BOOLEAN
  BY IInvParts, SocketsUnchanged DEF Track, ReaderTypeOK, Reader
<1>4. CallTypeOK'
  BY IInvParts DEF CallTypeOK, CallPC, Track
<1>5. /\ key'[c] = slot[c] /\ status'[c] = "pending"
      /\ \A d \in Conv \ {c} :
           /\ key'[d] = key[d]
           /\ Waiting(d)' => Waiting(d)
           /\ \/ status'[d] = status[d]
              \/ Waiting(d) /\ status[d] = "pending" /\ status'[d] = "timeout"
  BY <1>1, IInvParts, TrackPendingOthers DEF Track
<1>6. CallsInOrder'
  <2> SUFFICES ASSUME NEW d \in Conv
               PROVE  CallsInOrder!(d)'
    BY DEF CallsInOrder
  <2>1. CASE d = c
    BY <1>1, <1>5, <2>1, IInvParts DEF CallsInOrder, CallTypeOK, Track
  <2>2. CASE d # c
    BY <1>5, <2>2, IInvParts DEF CallsInOrder, CallTypeOK, Track
  <2> QED BY <2>1, <2>2
<1>7. OnItsChannel'
  <2> SUFFICES ASSUME NEW d \in Conv
               PROVE  OnItsChannel!(d)'
    BY DEF OnItsChannel
  <2>1. CASE d = c
    BY <1>1, <1>5, <2>1, IInvParts DEF OnItsChannel, CallTypeOK, Track, socketVars
  <2>2. CASE d # c
    BY <1>5, <2>2, IInvParts DEF OnItsChannel, CallTypeOK, Track, socketVars
  <2> QED BY <2>1, <2>2
<1>8. ReadersInOrder'
  <2> SUFFICES ASSUME NEW k \in Sock
               PROVE  ReadersInOrder!(k)'
    BY DEF ReadersInOrder
  <2>1. UNCHANGED <<reader, wire, response>>
    BY DEF Track, TrackPending
  <2>2. reader[k].at = "decode" => reader[k].conv \in Conv \ {c}
    BY <1>1, IInvParts DEF ReadersInOrder, ReaderTypeOK, Reader
  <2>3. reader[k].at \in {"match", "decode"} => reader[k].of \in Conv \ {c}
    BY <1>1, IInvParts, SocketsAssumption DEF ReadersInOrder, ReaderTypeOK, Reader, OnItsChannel
  <2> QED BY <1>5, <2>1, <2>2, <2>3, IInvParts DEF ReadersInOrder
<1>9. Unanswered'
  <2>1. response' = response
    BY DEF Track, TrackPending
  <2> QED BY <1>1, <1>5, <2>1, IInvParts DEF Unanswered
<1> QED BY <1>2, <1>3, <1>4, <1>6, <1>7, <1>8, <1>9, IInvNext

LEMMA WriteInv ==
  ASSUME IInv, NEW c \in Conv, WriteSucceeds(c) \/ WriteFails(c)
  PROVE  IInv'
<1> USE DEF Step
<1>1. /\ SocketsTypeOK' /\ SocketsInv' /\ SocketsStay
      /\ ReaderTypeOK' /\ overlapped' \in BOOLEAN
  BY IInvParts, SocketsUnchanged DEF WriteSucceeds, WriteFails, ReaderTypeOK, Reader
<1>2. CallTypeOK'
  BY IInvParts DEF CallTypeOK, CallPC, WriteSucceeds, WriteFails
<1>3. key[c] \in PendingKey /\ key[c] # None /\ status[c] # "none" /\ wire[c] \in Sock \cup {None}
  BY IInvParts DEF WriteSucceeds, WriteFails, CallsInOrder, TableTypeOK, CallTypeOK
<1>4. CASE WriteSucceeds(c)
  <2>1. TableTypeOK' /\ TableInv' /\ Unanswered'
    BY <1>4, IInvParts, TableUnchanged DEF WriteSucceeds, Unanswered, tableVars, Waiting, Range
  <2>2. CallsInOrder'
    BY <1>4, IInvParts DEF WriteSucceeds, CallsInOrder, CallTypeOK, tableVars
  <2>3. OnItsChannel'
    BY <1>3, <1>4, IInvParts DEF WriteSucceeds, OnItsChannel, CallTypeOK, tableVars, socketVars
  <2>4. wire[c] = None
    BY <1>3, <1>4, IInvParts DEF WriteSucceeds, CallsInOrder
  <2>5. ReadersInOrder'
    <3>1. \A k \in Sock : reader[k].at \in {"match", "decode"} => wire'[reader[k].of] = k
      BY <1>4, <2>4, IInvParts, SocketsAssumption
         DEF WriteSucceeds, ReadersInOrder, ReaderTypeOK, Reader, CallTypeOK
    <3>2. UNCHANGED <<reader, tableVars>>
      BY <1>4 DEF WriteSucceeds
    <3> QED BY <3>1, <3>2, IInvParts DEF ReadersInOrder, tableVars, Waiting, Range
  <2> QED BY <1>1, <1>2, <2>1, <2>2, <2>3, <2>5, IInvNext
<1>5. CASE WriteFails(c)
  <2>1. TableTypeOK' /\ TableInv'
    BY <1>3, <1>5, IInvParts, FinishErrorInv DEF WriteFails
  <2>2. /\ UNCHANGED <<key, response, reader, wire, slot, target>>
        /\ status'[c] = "error"
        /\ \A d \in Conv \ {c} : status'[d] = status[d]
        /\ \A d \in Conv : Waiting(d)' => Waiting(d)
    <3>1. \A j \in PendingKey : pending'[j] \in {None, pending[j]}
      BY <1>5, IInvParts DEF WriteFails, FinishError, TableTypeOK
    <3>2. \A d \in Conv : Waiting(d)' => Waiting(d)
      BY <2>1, <3>1, IInvParts, ConversationsAssumption DEF Waiting, Range, TableTypeOK
    <3> QED BY <1>5, <3>2, IInvParts DEF WriteFails, FinishError, TableTypeOK
  <2>3. CallsInOrder'
    BY <1>3, <1>5, <2>2, IInvParts DEF WriteFails, CallsInOrder, CallTypeOK
  <2>4. OnItsChannel'
    BY <1>5, <2>2, IInvParts DEF WriteFails, OnItsChannel, CallTypeOK, socketVars
  <2>5. ReadersInOrder'
    BY <2>2, IInvParts DEF ReadersInOrder, ReaderTypeOK, Reader
  <2>6. Unanswered'
    BY <2>2, IInvParts DEF Unanswered
  <2> QED BY <1>1, <1>2, <2>1, <2>3, <2>4, <2>5, <2>6, IInvNext
<1> QED BY <1>4, <1>5
----------------------------------------------------------------------------
(* The steps of a reader. *)

LEMMA ReadInv ==
  ASSUME IInv, NEW k \in Sock,
         \/ \E d \in Conv : ReadAnswer(k, d)
         \/ ReadFails(k) \/ IgnoreAnswer(k)
  PROVE  IInv'
<1>1. UNCHANGED <<tableVars, socketVars, callVars, wire, overlapped>>
  BY DEF ReadAnswer, ReadFails, IgnoreAnswer
<1>2. UNCHANGED <<key, status, response, pc, slot, target, via>>
  BY <1>1 DEF tableVars, callVars
<1>3. /\ TableTypeOK' /\ TableInv' /\ SocketsTypeOK' /\ SocketsInv' /\ SocketsStay
      /\ CallTypeOK' /\ overlapped' \in BOOLEAN
      /\ CallsInOrder' /\ OnItsChannel'
  BY <1>1, <1>2, IInvParts, TableUnchanged, SocketsUnchanged, CallsFrame, ChannelFrame
     DEF CallTypeOK
<1>4. PICK r \in Reader : /\ reader' = [reader EXCEPT ![k] = r]
                          /\ r.at # "decode"
                          /\ r.at = "match" => r.of # None /\ wire[r.of] = k
  <2>1. ASSUME NEW d \in Conv, ReadAnswer(k, d)
        PROVE  \E r \in Reader : /\ reader' = [reader EXCEPT ![k] = r]
                                 /\ r.at # "decode"
                                 /\ r.at = "match" => r.of # None /\ wire[r.of] = k
    <3> DEFINE r == [at |-> "match", of |-> d, conv |-> None]
    <3>1. r \in Reader /\ r.at = "match" /\ r.of = d
      BY DEF Reader
    <3>2. reader' = [reader EXCEPT ![k] = r] /\ d # None /\ wire[d] = k
      BY <2>1, ConversationsAssumption DEF ReadAnswer
    <3> HIDE DEF r
    <3> QED BY <3>1, <3>2
  <2>2. CASE ReadFails(k) \/ IgnoreAnswer(k)
    <3>1. /\ AtRead \in Reader /\ AtRead.at = "read"
          /\ Gone \in Reader /\ Gone.at = "gone"
      BY DEF AtRead, Gone, Reader
    <3>2. reader' = [reader EXCEPT ![k] = Gone] \/ reader' = [reader EXCEPT ![k] = AtRead]
      BY <2>2 DEF ReadFails, IgnoreAnswer
    <3> QED BY <3>1, <3>2
  <2> QED BY <2>1, <2>2
<1>5. ReaderTypeOK'
  BY <1>4, IInvParts DEF ReaderTypeOK, Reader
<1>6. ReadersInOrder' /\ Unanswered'
  <2>2. \A c : Waiting(c)' <=> Waiting(c)
    BY <1>1 DEF tableVars, Waiting, Range
  <2>3. \A j \in Sock : reader'[j] = IF j = k THEN r ELSE reader[j]
    BY <1>4, IInvParts DEF ReaderTypeOK, Reader
  <2>4. ReadersInOrder'
    BY <1>1, <1>2, <1>4, <2>2, <2>3, IInvParts DEF ReadersInOrder
  <2> QED BY <1>2, <2>2, <2>4, IInvParts DEF Unanswered
<1> QED BY <1>3, <1>5, <1>6, IInvNext

(* The key an answer is looked up under is the key of the request it       *)
(* answers, since a request goes out on a socket of its own channel.       *)
LEMMA AnswerKeyIsRequestKey ==
  ASSUME IInv, NEW k \in Sock, reader[k].at = "match"
  PROVE  AnswerKey(k) \in PendingKey /\ AnswerKey(k) = key[reader[k].of]
<1>1. reader[k].of \in Conv /\ wire[reader[k].of] = k
  BY IInvParts DEF ReadersInOrder, ReaderTypeOK, Reader
<1>2. key[reader[k].of] # None /\ socket[k].channel = key[reader[k].of][1]
  BY <1>1, IInvParts, SocketsAssumption DEF OnItsChannel
<1>3. key[reader[k].of] \in PendingKey
  BY <1>1, <1>2, IInvParts DEF TableTypeOK
<1> QED BY <1>2, <1>3 DEF AnswerKey, PendingKey

LEMMA MatchInv ==
  ASSUME IInv, NEW k \in Sock, MatchAnswer(k)
  PROVE  IInv'
<1> DEFINE q == AnswerKey(k)
           c == pending[q]
           r == [reader[k] EXCEPT !.at = "decode", !.conv = c]
<1>1. q \in PendingKey /\ q = key[reader[k].of]
  BY AnswerKeyIsRequestKey DEF MatchAnswer
<1>2. TableTypeOK' /\ TableInv' /\ c \in Conv \ Range(pending')
  BY <1>1, IInvParts, TakePendingInv DEF MatchAnswer
<1>3. Waiting(c) /\ status[c] = "pending" /\ key[c] = q /\ response[c] = None /\ c # None
  <2>1. Waiting(c)
    BY <1>1, IInvParts DEF TableTypeOK, Waiting, Range
  <2>2. c # None /\ status[c] = "pending" /\ key[c] = q
    BY <1>1, <1>2, IInvParts, ConversationsAssumption DEF TableInv, EntriesWait
  <2> QED BY <1>2, <2>1, <2>2, IInvParts DEF Unanswered
<1>4. /\ UNCHANGED <<key, status, response, pc, slot, target, via, wire, overlapped>>
      /\ UNCHANGED socketVars
      /\ \A d \in Conv : Waiting(d)' => Waiting(d)
  <2>1. \A j \in PendingKey : pending'[j] \in {None, pending[j]}
    BY <1>1, IInvParts DEF MatchAnswer, TakePending, TableTypeOK
  <2>2. \A d \in Conv : Waiting(d)' => Waiting(d)
    BY <1>2, <2>1, IInvParts, ConversationsAssumption DEF Waiting, Range, TableTypeOK
  <2> QED BY <2>2 DEF MatchAnswer, TakePending, callVars
<1>5. /\ SocketsTypeOK' /\ SocketsInv' /\ SocketsStay
      /\ CallTypeOK' /\ overlapped' \in BOOLEAN
      /\ CallsInOrder' /\ OnItsChannel' /\ Unanswered'
  BY <1>4, IInvParts, SocketsUnchanged, CallsFrame, ChannelFrame DEF CallTypeOK, Unanswered
<1>6. reader' = [reader EXCEPT ![k] = r]
  BY DEF MatchAnswer
<1>7. r.at = "decode" /\ r.conv = c /\ r.of = reader[k].of /\ reader[k].at = "match"
  BY IInvParts DEF MatchAnswer, ReaderTypeOK, Reader
<1>8. ReaderTypeOK'
  <2>1. r \in Reader
    BY <1>2, IInvParts DEF ReaderTypeOK, Reader
  <2> QED BY <1>6, <2>1, IInvParts DEF ReaderTypeOK, Reader
<1> HIDE DEF q, c, r
<1>9. ReadersInOrder'
  <2>1. \A j \in Sock : reader'[j] = IF j = k THEN r ELSE reader[j]
    BY <1>6, IInvParts DEF ReaderTypeOK, Reader
  <2>2. \A j \in Sock : reader[j].at = "decode" =>
          reader[j].conv \in Conv /\ reader[j].conv # c /\ ~Waiting(reader[j].conv)
    BY <1>3, IInvParts DEF ReadersInOrder, ReaderTypeOK, Reader
  <2>3. \A d \in Conv : d = c \/ ~Waiting(d) => ~Waiting(d)'
    BY <1>2, <1>4 DEF Waiting
  <2> SUFFICES ASSUME NEW j \in Sock
               PROVE  ReadersInOrder!(j)'
    BY DEF ReadersInOrder
  <2>4. CASE j = k
    BY <1>1, <1>2, <1>3, <1>4, <1>7, <2>1, <2>2, <2>3, <2>4, IInvParts DEF ReadersInOrder
  <2>5. CASE j # k
    BY <1>4, <1>7, <2>1, <2>2, <2>3, <2>5, IInvParts DEF ReadersInOrder
  <2> QED BY <2>4, <2>5
<1> QED BY <1>2, <1>5, <1>8, <1>9, IInvNext

LEMMA RecordInv ==
  ASSUME IInv, NEW k \in Sock, RecordAnswer(k)
  PROVE  IInv'
<1> DEFINE c == reader[k].conv
           d == reader[k].of
<1>1. /\ c \in Conv /\ d \in Conv /\ ~Waiting(c) /\ status[c] # "none"
      /\ \A j \in Sock \ {k} : reader[j].at = "decode" => reader[j].conv # c
  BY IInvParts DEF RecordAnswer, ReadersInOrder, ReaderTypeOK, Reader
<1>2. TableTypeOK' /\ TableInv'
  BY <1>1, IInvParts, CompleteConversationInv DEF RecordAnswer
<1>3. /\ UNCHANGED <<key, pending, pc, slot, target, via, wire, overlapped>>
      /\ UNCHANGED socketVars
      /\ reader' = [reader EXCEPT ![k] = AtRead]
      /\ status' = [status EXCEPT ![c] = "complete"]
      /\ response' = [response EXCEPT ![c] = d]
  BY DEF RecordAnswer, CompleteConversation, callVars
<1> HIDE DEF c, d
<1>4. /\ SocketsTypeOK' /\ SocketsInv' /\ SocketsStay
      /\ CallTypeOK' /\ overlapped' \in BOOLEAN /\ OnItsChannel'
  BY <1>3, IInvParts, SocketsUnchanged, ChannelFrame DEF CallTypeOK
<1>5. CallsInOrder'
  BY <1>1, <1>3, IInvParts DEF CallsInOrder, TableTypeOK
<1>6. ReaderTypeOK'
  BY <1>3, IInvParts DEF ReaderTypeOK, Reader, AtRead
<1>7. Unanswered'
  BY <1>1, <1>3, IInvParts DEF Unanswered, TableTypeOK, Waiting, Range
<1>8. ReadersInOrder'
  <2>1. \A j \in Sock : reader'[j] = IF j = k THEN AtRead ELSE reader[j]
    BY <1>3, IInvParts DEF ReaderTypeOK, Reader
  <2>2. \A j \in Sock \ {k} : reader[j].at = "decode" =>
          /\ reader[j].conv \in Conv
          /\ status'[reader[j].conv] = status[reader[j].conv]
          /\ response'[reader[j].conv] = response[reader[j].conv]
    BY <1>1, <1>3, IInvParts DEF ReadersInOrder, ReaderTypeOK, Reader, TableTypeOK
  <2> QED BY <1>3, <2>1, <2>2, IInvParts DEF ReadersInOrder, AtRead, Waiting, Range
<1> QED BY <1>2, <1>4, <1>5, <1>6, <1>7, <1>8, IInvNext
----------------------------------------------------------------------------
(* The steps of the sweeper, of the API and of time. *)

(* Whoever is not waiting is left alone by them. *)
LEMMA TableUpkeep ==
  ASSUME IInv, ExpirePending \/ ClearConversations \/ (\E c \in Conv : BecomeOverdue(c))
  PROVE  /\ TableTypeOK' /\ TableInv' /\ UNCHANGED <<key, response>>
         /\ \A d \in Conv :
              /\ Waiting(d)' => Waiting(d)
              /\ \/ status'[d] = status[d]
                 \/ Waiting(d) /\ status[d] = "pending" /\ status'[d] = "timeout"
<1>1. TableTypeOK' /\ TableInv'
  BY IInvParts, ExpirePendingInv, ClearConversationsInv, BecomeOverdueInv
<1>2. \A j \in PendingKey : pending'[j] \in {None, pending[j]}
  BY IInvParts DEF ExpirePending, ClearConversations, BecomeOverdue, TableTypeOK
<1>3. \A d \in Conv : Waiting(d)' => Waiting(d)
  BY <1>1, <1>2, IInvParts, ConversationsAssumption DEF Waiting, Range, TableTypeOK
<1>4. \A d \in Conv : \/ status'[d] = status[d]
                      \/ Waiting(d) /\ status[d] = "pending" /\ status'[d] = "timeout"
  BY DEF ExpirePending, Expired, ClearConversations, BecomeOverdue
<1> QED BY <1>1, <1>3, <1>4 DEF ExpirePending, ClearConversations, BecomeOverdue

LEMMA UpkeepInv ==
  ASSUME IInv, Sweep \/ Inspect \/ Clear \/ \E c \in Conv : TimePasses(c)
  PROVE  IInv'
<1>1. /\ UNCHANGED <<socketVars, callVars, wire, reader, overlapped>>
      /\ UNCHANGED <<pc, slot, target, via>>
  BY DEF Sweep, Inspect, Clear, TimePasses, callVars
<1>2. /\ TableTypeOK' /\ TableInv' /\ UNCHANGED <<key, response>>
      /\ \A d \in Conv :
           /\ Waiting(d)' => Waiting(d)
           /\ \/ status'[d] = status[d]
              \/ Waiting(d) /\ status[d] = "pending" /\ status'[d] = "timeout"
  BY TableUpkeep DEF Sweep, Inspect, Clear, TimePasses
<1>3. /\ SocketsTypeOK' /\ SocketsInv' /\ SocketsStay
      /\ CallTypeOK' /\ ReaderTypeOK' /\ overlapped' \in BOOLEAN /\ OnItsChannel'
  BY <1>1, <1>2, IInvParts, SocketsUnchanged, ChannelFrame DEF CallTypeOK, ReaderTypeOK
<1>4. CallsInOrder'
  BY <1>1, <1>2, IInvParts DEF CallsInOrder
<1>5. ReadersInOrder'
  <2>1. \A k \in Sock : reader[k].conv \in Conv \cup {None}
    BY IInvParts DEF ReaderTypeOK, Reader
  <2> QED BY <1>1, <1>2, <2>1, IInvParts DEF ReadersInOrder
<1>6. Unanswered'
  BY <1>2, IInvParts DEF Unanswered
<1> QED BY <1>1, <1>2, <1>3, <1>4, <1>5, <1>6, IInvNext

LEMMA ThreadInv ==
  ASSUME IInv, Shutdown \/ \E a \in Thread : Configure(a)
  PROVE  IInv'
<1>1. /\ UNCHANGED <<tableVars, callVars, wire, reader>>
      /\ UNCHANGED <<key, status, pc, slot, target, via>>
      /\ overlapped' \in BOOLEAN
  BY IInvParts DEF Shutdown, Configure, callVars, tableVars
<1>2. SocketsTypeOK' /\ SocketsInv' /\ SocketsStay
  BY IInvParts, ConfigureInv, ShutdownInv DEF Shutdown, Configure
<1>3. /\ TableTypeOK' /\ TableInv' /\ CallTypeOK' /\ ReaderTypeOK'
      /\ CallsInOrder' /\ OnItsChannel' /\ ReadersInOrder' /\ Unanswered'
  BY <1>1, <1>2, IInvParts, TableUnchanged, CallsFrame, ChannelFrame, ReadersFrame
     DEF CallTypeOK, ReaderTypeOK
<1> QED BY <1>1, <1>2, <1>3, IInvNext

LEMMA ForgetInv ==
  ASSUME IInv, NEW k \in Sock, Forget(k)
  PROVE  IInv'
<1>1. /\ UNCHANGED <<tableVars, callVars, wire, overlapped>>
      /\ UNCHANGED <<key, status, response, pc, slot, target, via>>
      /\ reader' = [reader EXCEPT ![k] = AtRead]
  BY DEF Forget, callVars, tableVars
<1>2. /\ SocketsTypeOK' /\ SocketsInv'
      /\ \A j \in Sock \ {k} : socket'[j] = socket[j]
  BY IInvParts, ForgetSocketInv DEF Forget
<1>3. /\ TableTypeOK' /\ TableInv' /\ CallTypeOK' /\ CallsInOrder' /\ Unanswered'
      /\ overlapped' \in BOOLEAN
  BY <1>1, IInvParts, TableUnchanged, CallsFrame DEF CallTypeOK, Unanswered, tableVars, Waiting, Range
<1>4. ReaderTypeOK'
  BY <1>1, IInvParts DEF ReaderTypeOK, Reader, AtRead
<1>5. OnItsChannel'
  <2>1. \A c \in Conv : via[c] # k /\ wire[c] # k
    BY IInvParts DEF Forget, CallTypeOK, Range
  <2> QED BY <1>1, <1>2, <2>1, IInvParts DEF OnItsChannel, CallsInOrder, CallTypeOK
<1>6. ReadersInOrder'
  <2>1. \A j \in Sock : reader'[j] = IF j = k THEN AtRead ELSE reader[j]
    BY <1>1, IInvParts DEF ReaderTypeOK
  <2> QED BY <1>1, <2>1, IInvParts DEF ReadersInOrder, AtRead, tableVars, Waiting, Range
<1> QED BY <1>1, <1>2, <1>3, <1>4, <1>5, <1>6, IInvNext

LEMMA NextIInv == IInv /\ [Next]_vars => IInv'
<1> SUFFICES ASSUME IInv, [Next]_vars
             PROVE  IInv'
  OBVIOUS
<1>1. ASSUME NEW c \in Conv, Call(c) \/ TimePasses(c)
      PROVE  IInv'
  BY <1>1, StartCallInv, OpenPathInv, PrepareInv, TrackInv, WriteInv, UpkeepInv DEF Call
<1>2. ASSUME NEW k \in Sock,
             Handle(k) \/ ReadFails(k) \/ Forget(k) \/ \E d \in Conv : ReadAnswer(k, d)
      PROVE  IInv'
  BY <1>2, MatchInv, ReadInv, RecordInv, ForgetInv DEF Handle
<1>3. CASE Sweep \/ Inspect \/ Clear
  BY <1>3, UpkeepInv
<1>4. CASE Shutdown \/ \E a \in Thread : Configure(a)
  BY <1>4, ThreadInv
<1>5. CASE UNCHANGED vars
  <2>1. /\ UNCHANGED <<tableVars, socketVars, callVars, wire, reader, overlapped>>
        /\ UNCHANGED <<key, status, pc, slot, target, via>>
    BY <1>5 DEF vars, callVars, tableVars
  <2> QED BY <2>1, IInvParts, IInvNext, TableUnchanged, SocketsUnchanged, CallsFrame,
             ChannelFrame, ReadersFrame DEF CallTypeOK, ReaderTypeOK
<1> QED BY <1>1, <1>2, <1>3, <1>4, <1>5 DEF Next

(* The inductive invariant: every goroutine, at every point where another  *)
(* may run, knows what the code assumes there, and the table, the ring and *)
(* the sockets agree.                                                      *)
THEOREM Invariance == Spec => []IInv
BY InitIInv, NextIInv, PTL DEF Spec

(* Every variable keeps to its type. *)
THEOREM TypeCorrect == Spec => []TypeOK
<1>1. IInv => TypeOK
  BY DEF IInv
<1> QED BY <1>1, Invariance, PTL

(* Who waits is listed, under its own key. *)
THEOREM WaitingAreListed == Spec => []WaitingIsListed
<1>1. IInv => WaitingIsListed
  BY DEF IInv, TableInv
<1> QED BY <1>1, Invariance, PTL

(* At most as many requests wait as the ring is long. *)
THEOREM InFlightIsBounded == Spec => []InFlightBounded
<1>1. IInv => InFlightBounded
  BY IInvParts, TableImpliesInFlightBounded
<1> QED BY <1>1, Invariance, PTL

(* The identifier allocateIdent gives is always free. *)
THEOREM AllocationsAreFree == Spec => []AllocationIsFree
<1>1. IInv => AllocationIsFree
  BY IInvParts, TableImpliesAllocationIsFree
<1> QED BY <1>1, Invariance, PTL

(* No socket is leaked: the open ones are those of the two paths. *)
THEOREM SocketsAreOwned == Spec => []PathsOwnSockets
<1>1. IInv => PathsOwnSockets
  BY DEF IInv
<1> QED BY <1>1, Invariance, PTL
----------------------------------------------------------------------------
(* What a step does to the outcomes: most steps touch none; tracking a     *)
(* request, expiring and failing one only change who is "pending", or what *)
(* has no answer; and only RecordAnswer completes.                         *)
OutcomeKept(c) ==
    /\ status[c] = "timeout" => status'[c] \in {"timeout", "error"}
    /\ status[c] \in {"complete", "error"} => status'[c] \in {"complete", "error"}
    /\ response[c] # None => response'[c] = response[c]

LEMMA StepKeepsOutcomes ==
  ASSUME IInv, [Next]_vars, NEW c \in Conv
  PROVE  OutcomeKept(c)
<1> USE DEF OutcomeKept
<1>1. CASE UNCHANGED <<status, response>>
  BY <1>1
<1>2. CASE \E d \in Conv : Track(d)
  <2>1. PICK d \in Conv : Track(d)
    BY <1>2
  <2>2. slot[d] \in PendingKey /\ status[d] = "none"
    BY <2>1, IInvParts DEF Track, Step, CallTypeOK, CallsInOrder
  <2>3. \A e \in Conv \ {d} : \/ status'[e] = status[e]
                              \/ status[e] = "pending" /\ status'[e] = "timeout"
    BY <2>1, <2>2, IInvParts, TrackPendingOthers DEF Track
  <2>4. response' = response
    BY <2>1 DEF Track, TrackPending
  <2> QED BY <2>2, <2>3, <2>4
<1>3. CASE \E d \in Conv : WriteFails(d)
  BY <1>3, IInvParts DEF WriteFails, FinishError, TableTypeOK
<1>4. CASE \E k \in Sock : RecordAnswer(k)
  BY <1>4, IInvParts
     DEF RecordAnswer, CompleteConversation, TableTypeOK, ReadersInOrder, ReaderTypeOK, Reader
<1>5. CASE Sweep \/ Inspect \/ Clear \/ \E d \in Conv : TimePasses(d)
  BY <1>5, TableUpkeep DEF Sweep, Inspect, Clear, TimePasses
<1>6. \/ UNCHANGED <<status, response>>
      \/ \E d \in Conv : Track(d)
      \/ \E d \in Conv : WriteFails(d)
      \/ \E k \in Sock : RecordAnswer(k)
      \/ Sweep \/ Inspect \/ Clear \/ \E d \in Conv : TimePasses(d)
  <2> USE DEF tableVars
  <2>1. ASSUME NEW d \in Conv, Call(d)
        PROVE  UNCHANGED <<status, response>> \/ Track(d) \/ WriteFails(d)
    BY <2>1 DEF Call, MaybeForward, SkipForward, OpenPath, ParseFails, Prepare, WriteSucceeds
  <2>2. ASSUME NEW k \in Sock,
               Handle(k) \/ ReadFails(k) \/ Forget(k) \/ \E d \in Conv : ReadAnswer(k, d)
        PROVE  UNCHANGED <<status, response>> \/ RecordAnswer(k)
    BY <2>2 DEF Handle, MatchAnswer, TakePending, IgnoreAnswer, ReadFails, Forget, ReadAnswer
  <2>3. ASSUME Shutdown \/ (\E a \in Thread : Configure(a)) \/ UNCHANGED vars
        PROVE  UNCHANGED <<status, response>>
    BY <2>3 DEF Shutdown, Configure, vars
  <2> QED BY <2>1, <2>2, <2>3 DEF Next
<1> QED BY <1>1, <1>2, <1>3, <1>4, <1>5, <1>6

(* An outcome, once there, stands: no late answer completes a request that *)
(* timed out, and no second answer replaces the first.                     *)
THEOREM OutcomesStand == Spec => OutcomeStands
<1>1. IInv /\ [Next]_vars => [\A c \in Conv : OutcomeKept(c)]_vars
  BY StepKeepsOutcomes
<1>2. Spec => [][\A c \in Conv : OutcomeKept(c)]_vars
  BY <1>1, Invariance, PTL DEF Spec
<1> QED BY <1>2 DEF OutcomeStands, OutcomeKept

(* Recorded answers: the request answered was sent, under the same key. *)
LEMMA StepKeepsAnswers == IInv /\ AnswerMatchesKey /\ [Next]_vars => AnswerMatchesKey'
<1> SUFFICES ASSUME IInv, AnswerMatchesKey, [Next]_vars, NEW c \in Conv, response'[c] # None
             PROVE  wire'[response'[c]] # None /\ key'[response'[c]] = key'[c]
  BY DEF AnswerMatchesKey
<1>1. IInv'
  BY NextIInv
<1>2. \A d \in Conv : key[d] # None => key'[d] = key[d]
  <2>1. CASE \E d \in Conv : Track(d)
    BY <2>1, IInvParts DEF Track, Step, TrackPending, CallsInOrder, TableTypeOK
  <2>2. CASE key' = key
    BY <2>2
  <2>3. key' = key \/ \E d \in Conv : Track(d)
    BY DEF Next, Call, MaybeForward, SkipForward, OpenPath, ParseFails, Prepare, WriteSucceeds,
           WriteFails, FinishError, TimePasses, BecomeOverdue, Handle, MatchAnswer, TakePending,
           IgnoreAnswer, RecordAnswer, CompleteConversation, ReadFails, Forget, ReadAnswer,
           Sweep, Inspect, ExpirePending, Clear, ClearConversations, Configure, Shutdown,
           vars, tableVars
  <2> QED BY <2>1, <2>2, <2>3
<1>3. \A d \in Conv : wire[d] # None => wire'[d] # None
  <2>1. CASE \E d \in Conv : WriteSucceeds(d)
    BY <2>1, IInvParts DEF WriteSucceeds, Step, CallsInOrder, CallTypeOK
  <2>2. CASE wire' = wire
    BY <2>2
  <2>3. wire' = wire \/ \E d \in Conv : WriteSucceeds(d)
    BY DEF Next, Call, MaybeForward, SkipForward, OpenPath, ParseFails, Prepare, Track,
           WriteFails, TimePasses, Handle, MatchAnswer, IgnoreAnswer, RecordAnswer, ReadFails,
           Forget, ReadAnswer, Sweep, Inspect, Clear, Configure, Shutdown, vars
  <2> QED BY <2>1, <2>2, <2>3
<1>4. \A d \in Conv : wire[d] # None => key[d] # None
  BY IInvParts DEF OnItsChannel
<1>5. CASE response[c] # None
  <2>1. response'[c] = response[c] /\ response[c] \in Conv
    BY <1>5, StepKeepsOutcomes, IInvParts DEF OutcomeKept, TableTypeOK
  <2>2. wire[response[c]] # None /\ key[response[c]] = key[c]
    BY <1>5 DEF AnswerMatchesKey
  <2> QED BY <1>2, <1>3, <1>4, <2>1, <2>2
<1>6. CASE response[c] = None
  <2>1. PICK k \in Sock : RecordAnswer(k)
    <3>1. response' = response \/ \E k \in Sock : RecordAnswer(k)
      BY DEF Next, Call, MaybeForward, SkipForward, OpenPath, ParseFails, Prepare, Track,
             TrackPending, WriteSucceeds, WriteFails, FinishError, TimePasses, BecomeOverdue,
             Handle, MatchAnswer, TakePending, IgnoreAnswer, ReadFails, Forget, ReadAnswer,
             Sweep, Inspect, ExpirePending, Clear, ClearConversations, Configure, Shutdown,
             vars, tableVars
    <3> QED BY <3>1, <1>6
  <2>2. /\ reader[k].conv = c /\ response'[c] = reader[k].of
        /\ wire' = wire /\ key' = key
    BY <1>6, <2>1, IInvParts DEF RecordAnswer, CompleteConversation, TableTypeOK
  <2>3. wire[reader[k].of] = k /\ key[reader[k].of] = key[c]
    BY <2>1, <2>2, IInvParts DEF RecordAnswer, ReadersInOrder
  <2> QED BY <2>2, <2>3, SocketsAssumption
<1> QED BY <1>5, <1>6

THEOREM AnswersMatchKeys == Spec => []AnswerMatchesKey
<1>1. Init => AnswerMatchesKey
  BY DEF Init, TableInit, AnswerMatchesKey
<1> QED BY <1>1, StepKeepsAnswers, Invariance, PTL DEF Spec
----------------------------------------------------------------------------
(* The forwarder implements Exchange: every step of it is a step of        *)
(* Exchange, under the mapping in Forwarder, or changes nothing there.     *)

(* A request that failed was not sent, and its call has returned. *)
FailuresUnsent == \A c \in Conv : status[c] = "error" => pc[c] = "done" /\ wire[c] = None

(* What the invariant says of the requests that are open. *)
LEMMA OpenAreUnanswered ==
  ASSUME IInv, NEW c \in OpenRequests
  PROVE  /\ c \in Conv /\ key[c] \in PendingKey
         /\ status[c] \in {"pending", "error"} /\ response[c] = None
<1>1. CASE Waiting(c)
  <2>1. PICK k \in PendingKey : pending[k] = c
    BY <1>1, IInvParts DEF TableTypeOK, Waiting, Range
  <2>2. status[c] = "pending" /\ key[c] = k
    BY <2>1, IInvParts, ConversationsAssumption DEF TableInv, EntriesWait, OpenRequests
  <2> QED BY <1>1, <2>2, IInvParts DEF Unanswered, OpenRequests
<1>2. CASE Answering(c)
  <2>1. status[c] \in {"pending", "error"} /\ response[c] = None
    BY <1>2, IInvParts DEF Answering, ReadersInOrder
  <2>2. key[c] # None
    BY <2>1, IInvParts DEF CallsInOrder, OpenRequests
  <2> QED BY <2>1, <2>2, IInvParts DEF TableTypeOK, OpenRequests
<1> QED BY <1>1, <1>2 DEF OpenRequests

(* So what timed out is closed, before and after a step. *)
LateAreClosed == \A d \in Conv : status[d] = "timeout" => d \notin OpenRequests

LEMMA LateClosed == IInv => LateAreClosed
BY OpenAreUnanswered DEF LateAreClosed

LEMMA LateClosedNext == IInv' => LateAreClosed'
BY LateClosed, PTL

(* A step opens nothing if nobody starts to wait and readers take answers  *)
(* only for those who wait.                                                *)
LEMMA OpenOnlyCloses ==
  ASSUME \A d \in Conv : Waiting(d)' => Waiting(d),
         \A k \in Sock : reader'[k].at = "decode" =>
            \/ reader[k].at = "decode" /\ reader[k].conv = reader'[k].conv
            \/ Waiting(reader'[k].conv)
  PROVE  OpenRequests' \subseteq OpenRequests
BY DEF OpenRequests, Answering

(* Such a step is an End, if all that it does to outcomes is a time-out. *)
LEMMA StepIsEnd ==
  ASSUME IInv, IInv', UNCHANGED <<key, response, wire>>,
         OpenRequests' \subseteq OpenRequests,
         \A d \in Conv : \/ status'[d] = status[d]
                         \/ d \in OpenRequests /\ status[d] = "pending" /\ status'[d] = "timeout"
  PROVE  Abstract!Next
<1>1. LateAreClosed'
  BY LateClosedNext
<1>2. status' \in [Conv -> Abstract!Outcome]
  <2>1. TableTypeOK'
    BY DEF IInv, TypeOK
  <2> QED BY <2>1 DEF TableTypeOK, Status, Abstract!Outcome
<1>3. Abstract!End
  BY <1>1, <1>2 DEF Abstract!End, Abstract!Close, Abstract!TimesOut, SentRequests, LateAreClosed
<1> QED BY <1>3 DEF Abstract!Next
----------------------------------------------------------------------------
(* The steps of a call. *)

(* A step that leaves the table, the network and the readers alone. *)
LEMMA QuietStep ==
  ASSUME UNCHANGED <<tableVars, wire, reader>>
  PROVE  UNCHANGED Abstract!vars
BY DEF tableVars, Abstract!vars, OpenRequests, SentRequests, Waiting, Answering, Range

LEMMA TrackIsAsk ==
  ASSUME IInv, IInv', NEW c \in Conv, Track(c)
  PROVE  Abstract!Next
<1>1. slot[c] \in PendingKey /\ status[c] = "none" /\ key[c] = None
  BY IInvParts DEF Track, Step, CallTypeOK, CallsInOrder
<1>2. /\ status'[c] = "pending" /\ key' = [key EXCEPT ![c] = slot[c]]
      /\ UNCHANGED <<response, wire, reader>>
      /\ \A d \in Conv \ {c} :
           /\ Waiting(d)' => Waiting(d)
           /\ \/ status'[d] = status[d]
              \/ Waiting(d) /\ status[d] = "pending" /\ status'[d] = "timeout"
  <2>1. TrackPending(c, slot[c]) /\ UNCHANGED <<wire, reader>>
    BY DEF Track
  <2>2. key' = [key EXCEPT ![c] = slot[c]] /\ response' = response
    BY <2>1 DEF TrackPending
  <2> QED BY <1>1, <2>1, <2>2, IInvParts, TrackPendingOthers
<1>3. OpenRequests' \subseteq OpenRequests \cup {c}
  BY <1>2 DEF OpenRequests, Answering
<1>4. \A d \in Conv \ {c} : status'[d] = status[d] \/ Abstract!TimesOut(d)
  BY <1>2, LateClosedNext DEF Abstract!TimesOut, LateAreClosed, OpenRequests
<1>5. status' \in [Conv -> Abstract!Outcome]
  <2>1. TableTypeOK'
    BY DEF IInv, TypeOK
  <2> QED BY <2>1 DEF TableTypeOK, Status, Abstract!Outcome
<1>6. Abstract!Ask(c)
  BY <1>1, <1>2, <1>3, <1>4, <1>5 DEF Abstract!Ask, SentRequests
<1> QED BY <1>6 DEF Abstract!Next

LEMMA WriteIsSend ==
  ASSUME IInv, FailuresUnsent, NEW c \in Conv, WriteSucceeds(c)
  PROVE  Abstract!Next
<1>1. /\ pc[c] = "write" /\ via[c] \in Sock /\ wire' = [wire EXCEPT ![c] = via[c]]
      /\ UNCHANGED <<tableVars, reader>>
  BY IInvParts DEF WriteSucceeds, Step, CallTypeOK, CallsInOrder
<1>2. status[c] \notin {"none", "error"} /\ wire[c] = None
  BY <1>1, IInvParts DEF CallsInOrder, FailuresUnsent
<1>3. SentRequests' = SentRequests \cup {c} /\ c \notin SentRequests
  BY <1>1, <1>2, IInvParts, SocketsAssumption DEF SentRequests, CallTypeOK
<1>4. OpenRequests' = OpenRequests /\ UNCHANGED <<key, status, response>>
  BY <1>1 DEF tableVars, OpenRequests, Waiting, Answering, Range
<1>5. Abstract!Send(c)
  BY <1>2, <1>3, <1>4 DEF Abstract!Send
<1> QED BY <1>5 DEF Abstract!Next

LEMMA WriteFailureIsFail ==
  ASSUME IInv, NEW c \in Conv, WriteFails(c)
  PROVE  Abstract!Next
<1>1. /\ pc[c] = "write" /\ status' = [status EXCEPT ![c] = "error"]
      /\ pending' = [pending EXCEPT ![key[c]] = None]
      /\ UNCHANGED <<key, response, wire, reader>>
  BY DEF WriteFails, Step, FinishError
<1>2. status[c] # "none" /\ c \notin SentRequests
  BY <1>1, IInvParts DEF CallsInOrder, SentRequests
<1>3. \A d \in Conv : Waiting(d)' => Waiting(d)
  BY <1>1, IInvParts, ConversationsAssumption DEF Waiting, Range, TableTypeOK
<1>4. OpenRequests' \subseteq OpenRequests
  BY <1>1, <1>3 DEF OpenRequests, Answering
<1>5. Abstract!Fail(c)
  BY <1>1, <1>2, <1>4 DEF Abstract!Fail, Abstract!Close, SentRequests
<1> QED BY <1>5 DEF Abstract!Next
----------------------------------------------------------------------------
(* The steps of a reader. *)

LEMMA ReaderStep ==
  ASSUME IInv, IInv', NEW k \in Sock,
         \/ \E d \in Conv : ReadAnswer(k, d)
         \/ ReadFails(k) \/ IgnoreAnswer(k) \/ Forget(k)
  PROVE  Abstract!Next
<1>1. UNCHANGED <<tableVars, wire>> /\ UNCHANGED <<key, status, response>>
  BY DEF ReadAnswer, ReadFails, IgnoreAnswer, Forget, tableVars
<1>2. PICK r : r.at # "decode" /\ reader' = [reader EXCEPT ![k] = r]
  <2>1. ASSUME NEW d \in Conv, ReadAnswer(k, d)
        PROVE  \E r : r.at # "decode" /\ reader' = [reader EXCEPT ![k] = r]
    <3> DEFINE r == [at |-> "match", of |-> d, conv |-> None]
    <3>1. r.at # "decode" /\ reader' = [reader EXCEPT ![k] = r]
      BY <2>1 DEF ReadAnswer
    <3> HIDE DEF r
    <3> QED BY <3>1
  <2>2. AtRead.at # "decode" /\ Gone.at # "decode"
    BY DEF AtRead, Gone
  <2> QED BY <2>1, <2>2 DEF ReadFails, IgnoreAnswer, Forget
<1>3. \A j \in Sock : reader'[j] = IF j = k THEN r ELSE reader[j]
  BY <1>2, IInvParts DEF ReaderTypeOK
<1>4. \A d \in Conv : Waiting(d)' => Waiting(d)
  BY <1>1 DEF tableVars, Waiting, Range
<1>5. OpenRequests' \subseteq OpenRequests
  BY <1>2, <1>3, <1>4, OpenOnlyCloses
<1> QED BY <1>1, <1>5, StepIsEnd

(* Who is matched has waited, and stays open until the answer is recorded. *)
LEMMA MatchStep ==
  ASSUME IInv, IInv', NEW k \in Sock, MatchAnswer(k)
  PROVE  Abstract!Next
<1> DEFINE q == AnswerKey(k)
           c == pending[q]
<1>1. q \in PendingKey /\ c # None
  BY AnswerKeyIsRequestKey DEF MatchAnswer, TakePending
<1>2. Waiting(c)
  BY <1>1, IInvParts DEF TableTypeOK, Waiting, Range
<1>3. /\ UNCHANGED <<key, status, response, wire>>
      /\ pending' = [pending EXCEPT ![q] = None]
      /\ reader' = [reader EXCEPT ![k].at = "decode", ![k].conv = c]
  BY DEF MatchAnswer, TakePending
<1> HIDE DEF q
<1>4. \A d \in Conv : Waiting(d)' => Waiting(d)
  BY <1>1, <1>3, IInvParts, ConversationsAssumption DEF Waiting, Range, TableTypeOK
<1>5. \A j \in Sock : reader'[j].at = "decode" =>
         \/ reader[j].at = "decode" /\ reader[j].conv = reader'[j].conv
         \/ Waiting(reader'[j].conv)
  BY <1>2, <1>3, IInvParts DEF ReaderTypeOK, Reader
<1>6. OpenRequests' \subseteq OpenRequests
  BY <1>4, <1>5, OpenOnlyCloses
<1> QED BY <1>3, <1>6, StepIsEnd

LEMMA RecordIsAnswer ==
  ASSUME IInv, NEW k \in Sock, RecordAnswer(k)
  PROVE  Abstract!Next
<1> DEFINE c == reader[k].conv
           d == reader[k].of
<1>1. /\ c \in Conv /\ d \in Conv /\ ~Waiting(c)
      /\ status[c] \in {"pending", "error"} /\ response[c] = None
      /\ wire[d] = k /\ key[d] = key[c]
      /\ \A j \in Sock \ {k} : reader[j].at = "decode" => reader[j].conv # c
      /\ reader[k].at = "decode"
  BY IInvParts DEF RecordAnswer, ReadersInOrder, ReaderTypeOK, Reader
<1>2. /\ UNCHANGED <<key, pending, wire>>
      /\ reader' = [reader EXCEPT ![k] = AtRead]
      /\ status' = [status EXCEPT ![c] = "complete"]
      /\ response' = [response EXCEPT ![c] = d]
  BY DEF RecordAnswer, CompleteConversation
<1>3. c \in OpenRequests /\ d \in SentRequests
  BY <1>1, SocketsAssumption DEF OpenRequests, Answering, SentRequests
<1> HIDE DEF c, d
<1>4. \A j \in Sock : reader'[j] = IF j = k THEN AtRead ELSE reader[j]
  BY <1>2, IInvParts DEF ReaderTypeOK
<1>5. OpenRequests' = OpenRequests \ {c}
  <2>1. \A e \in Conv : Waiting(e)' <=> Waiting(e)
    BY <1>2 DEF Waiting, Range
  <2>2. \A e \in Conv : Answering(e)' <=> Answering(e) /\ e # c
    <3>1. AtRead.at # "decode"
      BY DEF AtRead
    <3>2. reader[k].conv = c
      BY DEF c
    <3> QED BY <1>1, <1>4, <3>1, <3>2 DEF Answering
  <2> QED BY <1>1, <2>1, <2>2 DEF OpenRequests
<1>6. Abstract!Answer(c)
  BY <1>1, <1>2, <1>3, <1>5 DEF Abstract!Answer, SentRequests
<1> QED BY <1>1, <1>6 DEF Abstract!Next
----------------------------------------------------------------------------
(* Time, the sweeper and the handlers. *)

LEMMA UpkeepStep ==
  ASSUME IInv, IInv', Sweep \/ Inspect \/ Clear \/ \E c \in Conv : TimePasses(c)
  PROVE  Abstract!Next
<1>1. UNCHANGED <<wire, reader>>
  BY DEF Sweep, Inspect, Clear, TimePasses
<1>2. /\ UNCHANGED <<key, response>>
      /\ \A d \in Conv :
           /\ Waiting(d)' => Waiting(d)
           /\ \/ status'[d] = status[d]
              \/ Waiting(d) /\ status[d] = "pending" /\ status'[d] = "timeout"
  BY TableUpkeep DEF Sweep, Inspect, Clear, TimePasses
<1>3. OpenRequests' \subseteq OpenRequests
  BY <1>1, <1>2, OpenOnlyCloses
<1> QED BY <1>1, <1>2, <1>3, StepIsEnd DEF OpenRequests

LEMMA NextRefines ==
  ASSUME IInv, IInv', FailuresUnsent, [Next]_vars
  PROVE  [Abstract!Next]_(Abstract!vars)
<1>1. ASSUME NEW c \in Conv, Call(c) \/ TimePasses(c)
      PROVE  [Abstract!Next]_(Abstract!vars)
  <2>1. CASE Track(c) \/ WriteSucceeds(c) \/ WriteFails(c) \/ TimePasses(c)
    BY <2>1, TrackIsAsk, WriteIsSend, WriteFailureIsFail, UpkeepStep
  <2>2. \/ Track(c) \/ WriteSucceeds(c) \/ WriteFails(c) \/ TimePasses(c)
        \/ UNCHANGED <<tableVars, wire, reader>>
    BY <1>1 DEF Call, MaybeForward, SkipForward, OpenPath, ParseFails, Prepare
  <2> QED BY <2>1, <2>2, QuietStep
<1>2. ASSUME NEW k \in Sock,
             Handle(k) \/ ReadFails(k) \/ Forget(k) \/ \E d \in Conv : ReadAnswer(k, d)
      PROVE  Abstract!Next
  BY <1>2, ReaderStep, MatchStep, RecordIsAnswer DEF Handle
<1>3. CASE Sweep \/ Inspect \/ Clear
  BY <1>3, UpkeepStep
<1>4. CASE Shutdown \/ (\E a \in Thread : Configure(a)) \/ UNCHANGED vars
  <2>1. UNCHANGED <<tableVars, wire, reader>>
    BY <1>4 DEF Shutdown, Configure, vars
  <2> QED BY <2>1, QuietStep
<1> QED BY <1>1, <1>2, <1>3, <1>4 DEF Next
----------------------------------------------------------------------------
LEMMA StepKeepsFailures == IInv /\ FailuresUnsent /\ [Next]_vars => FailuresUnsent'
<1> SUFFICES ASSUME IInv, FailuresUnsent, [Next]_vars
             PROVE  FailuresUnsent'
  OBVIOUS
<1> USE DEF FailuresUnsent
<1>1. CASE UNCHANGED <<status, pc, wire>>
  BY <1>1
<1>2. CASE /\ UNCHANGED <<pc, wire>>
           /\ \A c \in Conv : status'[c] = "error" => status[c] = "error"
  BY <1>2
<1>3. ASSUME NEW c \in Conv, Call(c)
      PROVE  FailuresUnsent'
  <2>1. pc[c] # "done" /\ wire[c] = None /\ pc' \in [Conv -> CallPC]
        /\ \A d \in Conv \ {c} : pc'[d] = pc[d]
    BY <1>3, IInvParts, StartCallInv, OpenPathInv, PrepareInv, TrackInv, WriteInv
       DEF Call, MaybeForward, SkipForward, OpenPath, ParseFails, Prepare, Track,
           WriteSucceeds, WriteFails, Step, CallTypeOK, CallPC, CallsInOrder
  <2>2. CASE WriteFails(c)
    BY <2>1, <2>2, IInvParts DEF WriteFails, Step, FinishError, TableTypeOK, CallTypeOK
  <2>3. CASE Track(c)
    <3>1. slot[c] \in PendingKey
      BY <2>3, IInvParts DEF Track, Step, CallTypeOK, CallsInOrder
    <3>2. \A d \in Conv : status'[d] = "error" => d # c /\ status[d] = "error"
      BY <2>3, <3>1, IInvParts, TrackPendingOthers DEF Track
    <3> QED BY <2>1, <2>3, <3>2 DEF Track
  <2>4. CASE WriteSucceeds(c)
    BY <2>1, <2>4, IInvParts DEF WriteSucceeds, CallTypeOK, tableVars
  <2>5. CASE UNCHANGED <<status, wire>>
    BY <2>1, <2>5
  <2>6. \/ WriteFails(c) \/ Track(c) \/ WriteSucceeds(c) \/ UNCHANGED <<status, wire>>
    BY <1>3 DEF Call, MaybeForward, SkipForward, OpenPath, ParseFails, Prepare, tableVars
  <2> QED BY <2>2, <2>3, <2>4, <2>5, <2>6
<1>4. ASSUME NEW k \in Sock,
             Handle(k) \/ ReadFails(k) \/ Forget(k) \/ \E d \in Conv : ReadAnswer(k, d)
      PROVE  FailuresUnsent'
  <2>1. CASE RecordAnswer(k)
    <3>1. /\ UNCHANGED <<pc, wire>>
          /\ status' = [status EXCEPT ![reader[k].conv] = "complete"]
      BY <2>1 DEF RecordAnswer, CompleteConversation, callVars
    <3>2. \A c \in Conv : status'[c] = "error" => status[c] = "error"
      BY <3>1, IInvParts DEF TableTypeOK
    <3> QED BY <1>2, <3>1, <3>2
  <2>2. RecordAnswer(k) \/ UNCHANGED <<status, pc, wire>>
    BY <1>4 DEF Handle, MatchAnswer, TakePending, IgnoreAnswer, ReadFails, Forget, ReadAnswer,
                callVars, tableVars
  <2> QED BY <1>1, <2>1, <2>2
<1>5. CASE Sweep \/ Inspect \/ Clear \/ \E c \in Conv : TimePasses(c)
  <2>1. UNCHANGED <<pc, wire>>
    BY <1>5 DEF Sweep, Inspect, Clear, TimePasses, callVars
  <2>2. \A c \in Conv : status'[c] = "error" => status[c] = "error"
    BY <1>5, TableUpkeep DEF Sweep, Inspect, Clear, TimePasses
  <2> QED BY <1>2, <2>1, <2>2
<1>6. CASE Shutdown \/ (\E a \in Thread : Configure(a)) \/ UNCHANGED vars
  BY <1>1, <1>6 DEF Shutdown, Configure, vars, callVars, tableVars
<1> QED BY <1>3, <1>4, <1>5, <1>6 DEF Next

(* A conversation that says "error" was not sent. *)
THEOREM FailuresAreUnsent == Spec => []FailuresUnsent
<1>1. Init => FailuresUnsent
  BY DEF Init, TableInit, FailuresUnsent
<1> QED BY <1>1, StepKeepsFailures, Invariance, PTL DEF Spec

LEMMA InitRefines == Init => Abstract!Init
<1> SUFFICES ASSUME Init PROVE Abstract!Init
  OBVIOUS
<1>1. OpenRequests = {} /\ SentRequests = {}
  BY ConversationsAssumption
     DEF Init, TableInit, OpenRequests, SentRequests, Waiting, Answering, Range, AtRead
<1> QED BY <1>1 DEF Init, TableInit, Abstract!Init

(* Whatever the table, the sockets and the readers do, a request has the   *)
(* fate that Exchange describes, for any number of requests.               *)
THEOREM ForwarderImplementsExchange == Spec => ImplementsExchange
<1>1. IInv /\ IInv' /\ FailuresUnsent /\ [Next]_vars => [Abstract!Next]_(Abstract!vars)
  BY NextRefines
<1> QED BY <1>1, InitRefines, Invariance, FailuresAreUnsent, PTL
        DEF Spec, ImplementsExchange, Abstract!Spec
----------------------------------------------------------------------------
(* Orphans: conversations that say "pending" and that nothing will answer. *)

(* All steps but Track leave the keys alone and make nobody wait.  The     *)
(* ring stays or is cleared.                                               *)
LEMMA OrphansFrame ==
  ASSUME OrphansInv, key' = key, convs' = convs \/ convs' = <<>>,
         \A c \in Conv : status[c] # "none" => status'[c] # "none",
         \A c \in Conv : InRing(c)' /\ status'[c] = "pending" =>
           /\ status[c] = "pending"
           /\ Waiting(c) \/ Answering(c) =>
                Waiting(c)' \/ Answering(c)' \/ \E d \in Conv \ {c} : key[d] = key[c]
  PROVE  OrphansInv'
<1>1. \A c \in Conv : InRing(c)' => InRing(c)
  BY DEF InRing, Range
<1>2. RingOnce'
  BY <1>1 DEF OrphansInv, RingOnce
<1>3. OrphanOnlyByCollision'
  <2> SUFFICES ASSUME NEW c \in Conv, InRing(c)', status'[c] = "pending"
               PROVE  Waiting(c)' \/ Answering(c)' \/ \E d \in Conv \ {c} : key'[d] = key'[c]
    BY DEF OrphanOnlyByCollision
  <2>1. InRing(c) /\ status[c] = "pending"
    BY <1>1
  <2>2. Waiting(c) \/ Answering(c) \/ \E d \in Conv \ {c} : key[d] = key[c]
    BY <2>1 DEF OrphansInv, OrphanOnlyByCollision
  <2> QED BY <2>2
<1> QED BY <1>2, <1>3 DEF OrphansInv

LEMMA TrackKeepsOrphans ==
  ASSUME IInv, OrphansInv, NEW c \in Conv, Track(c)
  PROVE  OrphansInv'
<1>1. /\ TableTypeOK /\ EntriesWait /\ slot[c] \in PendingKey /\ status[c] = "none"
      /\ TrackPending(c, slot[c]) /\ reader' = reader
  BY IInvParts DEF Track, Step, CallTypeOK, CallsInOrder, TableInv
<1>2. PICK k \in PendingKey : k = slot[c] /\ TrackPending(c, k)
  BY <1>1
<1>3. ~InRing(c) /\ convs \in Seq(Conv)
  BY <1>1 DEF OrphansInv, RingOnce, TableTypeOK
<1>4. /\ \A i, j \in DOMAIN Kept(c) : Kept(c)[i] = Kept(c)[j] => i = j
      /\ \A d \in Range(Kept(c)) : d = c \/ InRing(d)
      /\ \A d \in Range(Kept(c)) : d \notin Dropped(c)
  BY <1>3, RingKeepsOnce DEF OrphansInv, RingOnce
<1>5. /\ convs' = Kept(c) /\ key'[c] = k /\ status'[c] = "pending"
      /\ \A d \in Conv \ {c} : key'[d] = key[d]
      /\ \A d \in Conv \ {c} : status'[d] = "pending" => status[d] = "pending" /\ d # pending[k]
      /\ \A d \in Conv \ {c} : status[d] # "none" => status'[d] # "none"
  BY <1>1, <1>2 DEF TrackPending, TableTypeOK
<1>6. \A j \in PendingKey :
        pending'[j] = IF j \in DroppedKeys(c, key', status') THEN None
                      ELSE IF j = k THEN c ELSE pending[j]
  BY <1>2 DEF TrackPending
<1>7. \A d \in Conv : InRing(d)' => (d = c \/ InRing(d)) /\ d \notin Dropped(c)
  BY <1>4, <1>5 DEF InRing
<1>8. Dropped(c) \subseteq Conv
  <2>1. \A i \in 1 .. Len(RingWith(c)) : RingWith(c)[i] \in Conv
    BY <1>3 DEF RingWith
  <2>2. Len(RingWith(c)) \in Nat
    BY <1>3 DEF RingWith
  <2> QED BY <2>1, <2>2, ConversationsAssumption DEF Dropped
<1>9. RingOnce'
  BY <1>4, <1>5, <1>7 DEF OrphansInv, RingOnce
<1>10. OrphanOnlyByCollision'
  <2> SUFFICES ASSUME NEW e \in Conv, InRing(e)', status'[e] = "pending",
                      \A d \in Conv \ {e} : key'[d] # key'[e]
               PROVE  Waiting(e)' \/ Answering(e)'
    BY DEF OrphanOnlyByCollision
  <2>1. key'[e] \notin DroppedKeys(c, key', status')
    BY <1>7, <1>8 DEF DroppedKeys
  <2>2. CASE e = c
    <3>1. pending'[k] = c
      BY <1>5, <1>6, <2>1, <2>2
    <3> QED BY <1>2, <2>2, <3>1, TrackPendingType, <1>1 DEF Waiting, Range, TableTypeOK
  <2>3. CASE e # c
    <3>1. /\ InRing(e) /\ status[e] = "pending"
          /\ \A d \in Conv \ {e} : key[d] = key[e] => d = c
      BY <1>5, <1>7, <2>3
    <3>2. key[c] # key[e]
      BY <1>1, <3>1, IInvParts DEF CallsInOrder
    <3>3. Waiting(e) \/ Answering(e)
      BY <3>1, <3>2 DEF OrphansInv, OrphanOnlyByCollision
    <3>4. ASSUME Waiting(e) PROVE Waiting(e)'
      <4>1. key[e] \in PendingKey /\ pending[key[e]] = e
        BY <1>1, <3>4, WaitingKey
      <4>2. key'[e] = key[e] /\ key[e] # k
        BY <1>5, <2>3
      <4>3. pending'[key[e]] = e
        BY <1>6, <2>1, <4>1, <4>2
      <4> QED BY <1>1, <1>2, <4>1, <4>3, TrackPendingType DEF Waiting, Range, TableTypeOK
    <3> QED BY <1>1, <3>3, <3>4 DEF Answering
  <2> QED BY <2>2, <2>3
<1> QED BY <1>9, <1>10 DEF OrphansInv

LEMMA StepKeepsOrphans == IInv /\ OrphansInv /\ [Next]_vars => OrphansInv'
<1> SUFFICES ASSUME IInv, OrphansInv, [Next]_vars PROVE OrphansInv'
  OBVIOUS
<1> DEFINE Stay == \A c \in Conv : Answering(c) => Answering(c)'
<1>1. ASSUME UNCHANGED tableVars, Stay PROVE OrphansInv'
  BY <1>1, OrphansFrame DEF tableVars, Waiting
<1>2. ASSUME reader' = reader PROVE Stay
  BY <1>2 DEF Answering
<1>3. ASSUME NEW c \in Conv, WriteFails(c) PROVE OrphansInv'
  <2>1. /\ TableTypeOK /\ EntriesWait /\ key[c] \in PendingKey /\ reader' = reader
        /\ UNCHANGED <<key, convs>>
        /\ status' = [status EXCEPT ![c] = "error"]
        /\ pending' = [pending EXCEPT ![key[c]] = None]
    BY <1>3, IInvParts DEF WriteFails, Step, FinishError, CallsInOrder, TableInv, TableTypeOK
  <2>2. \A d \in Conv : status'[d] = IF d = c THEN "error" ELSE status[d]
    BY <2>1 DEF TableTypeOK
  <2>3. ASSUME NEW d \in Conv, d # c, Waiting(d)
        PROVE  Waiting(d)' \/ key[d] = key[c]
    <3>1. key[d] \in PendingKey /\ pending[key[d]] = d
      BY <2>1, <2>3, WaitingKey
    <3>2. key[d] # key[c] => pending'[key[d]] = d /\ key[d] \in DOMAIN pending'
      BY <2>1, <3>1 DEF TableTypeOK
    <3> QED BY <3>2 DEF Waiting, Range
  <2> QED BY <1>2, <2>1, <2>2, <2>3, OrphansFrame
<1>4. ASSUME NEW k \in Sock, MatchAnswer(k) PROVE OrphansInv'
  <2>1. /\ TableTypeOK /\ EntriesWait /\ UNCHANGED <<key, convs, status>>
        /\ pending[AnswerKey(k)] # None
        /\ pending' = [pending EXCEPT ![AnswerKey(k)] = None]
        /\ reader[k].at = "match"
        /\ reader' = [reader EXCEPT ![k].at = "decode", ![k].conv = pending[AnswerKey(k)]]
        /\ reader \in [Sock -> Reader]
    BY <1>4, IInvParts DEF MatchAnswer, TakePending, TableInv, ReaderTypeOK
  <2>2. reader'[k].at = "decode" /\ reader'[k].conv = pending[AnswerKey(k)]
        /\ \A j \in Sock \ {k} : reader'[j] = reader[j]
    BY <2>1 DEF Reader
  <2>3. Stay
    BY <2>1, <2>2 DEF Answering
  <2>4. ASSUME NEW c \in Conv, Waiting(c) PROVE Waiting(c)' \/ Answering(c)'
    <3>1. key[c] \in PendingKey /\ pending[key[c]] = c
      BY <2>1, <2>4, WaitingKey
    <3>2. key[c] # AnswerKey(k) => pending'[key[c]] = c /\ key[c] \in DOMAIN pending'
      BY <2>1, <3>1 DEF TableTypeOK
    <3>3. key[c] # AnswerKey(k) => Waiting(c)'
      BY <3>2 DEF Waiting, Range
    <3>4. key[c] = AnswerKey(k) => Answering(c)'
      BY <2>2, <3>1 DEF Answering
    <3> QED BY <3>3, <3>4
  <2> QED BY <2>1, <2>3, <2>4, OrphansFrame
<1>5. ASSUME NEW k \in Sock, RecordAnswer(k) PROVE OrphansInv'
  <2>1. /\ TableTypeOK /\ UNCHANGED <<key, convs, pending>>
        /\ reader[k].at = "decode" /\ reader' = [reader EXCEPT ![k] = AtRead]
        /\ status' = [status EXCEPT ![reader[k].conv] = "complete"]
        /\ reader \in [Sock -> Reader]
    BY <1>5, IInvParts DEF RecordAnswer, CompleteConversation, ReaderTypeOK
  <2>2. \A c \in Conv : status'[c] = IF c = reader[k].conv THEN "complete" ELSE status[c]
    BY <2>1 DEF TableTypeOK
  <2>3. \A c \in Conv : c # reader[k].conv /\ Answering(c) => Answering(c)'
    BY <2>1 DEF Answering
  <2>4. \A c \in Conv : Waiting(c)' <=> Waiting(c)
    BY <2>1 DEF Waiting
  <2> QED BY <2>1, <2>2, <2>3, <2>4, OrphansFrame
<1>6. ASSUME NEW k \in Sock,
             IgnoreAnswer(k) \/ ReadFails(k) \/ Forget(k) \/ \E d \in Conv : ReadAnswer(k, d)
      PROVE  OrphansInv'
  <2>1. /\ UNCHANGED tableVars
        /\ reader[k].at # "decode" /\ \A j \in Sock \ {k} : reader'[j] = reader[j]
    BY <1>6, IInvParts DEF IgnoreAnswer, ReadFails, Forget, ReadAnswer, ReaderTypeOK, Gone
  <2>2. Stay
    BY <2>1 DEF Answering
  <2> QED BY <1>1, <2>1, <2>2
<1>7. CASE Sweep \/ Inspect
  <2>1. ExpirePending /\ reader' = reader /\ TableTypeOK /\ EntriesWait
    BY <1>7, IInvParts DEF Sweep, Inspect, TableInv
  <2>2. \A c \in Conv : status'[c] = IF c \in Expired THEN "timeout" ELSE status[c]
    BY <2>1 DEF ExpirePending
  <2>3. ASSUME NEW c \in Conv, Waiting(c), c \notin Expired PROVE Waiting(c)'
    <3>1. key[c] \in PendingKey /\ pending[key[c]] = c /\ status[c] = "pending" /\ c # None
      BY <2>1, <2>3, WaitingKey, ConversationsAssumption DEF EntriesWait
    <3>2. pending'[key[c]] = c /\ key[c] \in DOMAIN pending'
      BY <2>1, <2>3, <3>1 DEF ExpirePending
    <3> QED BY <3>2 DEF Waiting, Range
  <2>4. Stay /\ UNCHANGED <<key, convs>>
    BY <1>2, <2>1 DEF ExpirePending
  <2> QED BY <2>2, <2>3, <2>4, OrphansFrame
<1>8. CASE Clear
  <2>1. convs' = <<>> /\ UNCHANGED <<key, status>>
    BY <1>8 DEF Clear, ClearConversations
  <2>2. \A c \in Conv : ~InRing(c)'
    BY <2>1 DEF InRing, Range
  <2> QED BY <2>1, <2>2, OrphansFrame
<1>9. CASE \E c \in Conv : TimePasses(c)
  <2>1. UNCHANGED <<pending, convs, key, status, reader>>
    BY <1>9 DEF TimePasses, BecomeOverdue
  <2>2. \A c \in Conv : Waiting(c)' <=> Waiting(c)
    BY <2>1 DEF Waiting
  <2> QED BY <1>2, <2>1, <2>2, OrphansFrame
<1>10. ASSUME NEW c \in Conv, Call(c) PROVE OrphansInv'
  <2>1. CASE Track(c)
    BY <2>1, TrackKeepsOrphans
  <2>2. CASE WriteFails(c)
    BY <1>3, <2>2
  <2>3. CASE UNCHANGED tableVars /\ reader' = reader
    BY <1>1, <1>2, <2>3
  <2>4. Track(c) \/ WriteFails(c) \/ (UNCHANGED tableVars /\ reader' = reader)
    BY <1>10 DEF Call, MaybeForward, SkipForward, OpenPath, ParseFails, Prepare, WriteSucceeds
  <2> QED BY <2>1, <2>2, <2>3, <2>4
<1>11. CASE Shutdown \/ (\E a \in Thread : Configure(a)) \/ UNCHANGED vars
  <2>1. UNCHANGED tableVars /\ reader' = reader
    BY <1>11 DEF Shutdown, Configure, vars
  <2> QED BY <1>1, <1>2, <2>1
<1> HIDE DEF Stay
<1> QED BY <1>4, <1>5, <1>6, <1>7, <1>8, <1>9, <1>10, <1>11 DEF Next, Handle

(* A conversation that is listed as "pending" for good is one whose key    *)
(* another conversation was given too: neither the sweeper, nor the ring,  *)
(* nor a late answer leaves one behind.                                    *)
THEOREM OrphansOnlyCollide == Spec => []OrphanOnlyByCollision
<1>1. Init => OrphansInv
  BY DEF Init, TableInit, OrphansInv, RingOnce, OrphanOnlyByCollision, InRing, Range
<1>2. Spec => []OrphansInv
  BY <1>1, StepKeepsOrphans, Invariance, PTL DEF Spec
<1>3. OrphansInv => OrphanOnlyByCollision
  BY DEF OrphansInv
<1> QED BY <1>2, <1>3, PTL
----------------------------------------------------------------------------
(* Updates of the configuration. *)

LEMMA EnsureAgrees ==
  ASSUME PathsTypeOK, PathsOwnSockets, NEW ch \in Channel, NEW k \in Sock \cup {None},
         config.enabled, EnsurePath(ch, config[ch], k), config' = config
  PROVE  \A c2 \in Channel : c2 = ch \/ PathAgrees(c2) => PathAgrees(c2)'
<1>1. CASE Current(ch, config[ch]) /\ UNCHANGED <<path, socket>>
  BY <1>1 DEF Current, PathAgrees
<1>2. ASSUME NEW c2 \in Channel, c2 # ch, PathAgrees(c2), path[c2] # None,
             \A j \in Sock : j # path[ch] /\ j # k => socket'[j] = socket[j],
             k = None \/ (k \in Sock /\ socket[k] = None),
             path'[c2] = path[c2]
      PROVE  PathAgrees(c2)'
  <2>1. path[c2] \in Sock /\ path[c2] # path[ch]
    BY <1>2 DEF PathsTypeOK, PathsOwnSockets
  <2>2. path[c2] # k
    BY <1>2, <2>1, SocketsAssumption DEF PathsOwnSockets, Open
  <2>3. socket'[path[c2]] = socket[path[c2]]
    BY <1>2, <2>1, <2>2
  <2> QED BY <1>2, <2>3 DEF PathAgrees
<1>3. CASE /\ k \in Sock /\ socket[k] = None
           /\ path' = [path EXCEPT ![ch] = k]
           /\ socket' = [Hangup(ch) EXCEPT ![k] = [channel |-> ch, target |-> config[ch], open |-> TRUE]]
  <2>1. path'[ch] = k /\ \A c2 \in Channel \ {ch} : path'[c2] = path[c2]
    BY <1>3 DEF PathsTypeOK
  <2>2. /\ socket'[k].target = config[ch]
        /\ \A j \in Sock : j # path[ch] /\ j # k => socket'[j] = socket[j]
    BY <1>3, HangupType DEF Hangup
  <2>3. PathAgrees(ch)'
    BY <2>1, <2>2 DEF PathAgrees
  <2>4. ASSUME NEW c2 \in Channel, c2 # ch, PathAgrees(c2) PROVE PathAgrees(c2)'
    <3>1. CASE path[c2] = None
      BY <2>1, <2>4, <3>1 DEF PathAgrees
    <3>2. CASE path[c2] # None
      BY <1>2, <1>3, <2>1, <2>2, <2>4, <3>2
    <3> QED BY <3>1, <3>2
  <2> QED BY <2>3, <2>4
<1>4. CASE k = None /\ path' = [path EXCEPT ![ch] = None] /\ socket' = Hangup(ch)
  <2>1. path'[ch] = None /\ \A c2 \in Channel \ {ch} : path'[c2] = path[c2]
    BY <1>4 DEF PathsTypeOK
  <2>2. \A j \in Sock : j # path[ch] /\ j # k => socket'[j] = socket[j]
    BY <1>4, HangupType
  <2>3. PathAgrees(ch)'
    BY <2>1 DEF PathAgrees
  <2>4. ASSUME NEW c2 \in Channel, c2 # ch, PathAgrees(c2) PROVE PathAgrees(c2)'
    <3>1. CASE path[c2] = None
      BY <2>1, <2>4, <3>1 DEF PathAgrees
    <3>2. CASE path[c2] # None
      BY <1>2, <1>4, <2>1, <2>2, <2>4, <3>2
    <3> QED BY <3>1, <3>2
  <2> QED BY <2>3, <2>4
<1> QED BY <1>1, <1>3, <1>4 DEF EnsurePath

LEMMA CloseAgrees ==
  ASSUME PathsTypeOK, PathsOwnSockets, NEW ch \in Channel, ClosePath(ch), config' = config
  PROVE  \A c2 \in Channel : c2 = ch \/ PathAgrees(c2) => PathAgrees(c2)'
<1>1. path'[ch] = None /\ \A c2 \in Channel \ {ch} : path'[c2] = path[c2]
  BY DEF ClosePath, PathsTypeOK
<1>2. \A j \in Sock : j # path[ch] => socket'[j] = socket[j]
  BY HangupType DEF ClosePath
<1>3. PathAgrees(ch)'
  BY <1>1 DEF PathAgrees
<1>4. ASSUME NEW c2 \in Channel, c2 # ch, PathAgrees(c2) PROVE PathAgrees(c2)'
  <2>1. path[c2] # None => path[c2] \in Sock /\ path[c2] # path[ch]
    BY <1>4 DEF PathsTypeOK, PathsOwnSockets
  <2> QED BY <1>1, <1>2, <1>4, <2>1 DEF PathAgrees
<1> QED BY <1>3, <1>4

(* Steps that leave the configuration and the paths to their sockets. *)
LEMMA UpdatesFrame ==
  ASSUME UpdatesInv, UNCHANGED <<config, saved, path, thread, overlapped>>,
         \A ch \in Channel : path[ch] # None => socket'[path[ch]] = socket[path[ch]],
         \A c \in Conv : pc'[c] = "path" =>
           \/ config.enabled /\ target'[c] = config[slot'[c][1]]
           \/ pc[c] = "path" /\ target'[c] = target[c] /\ slot'[c] = slot[c]
  PROVE  UpdatesInv'
<1>1. \A pcs : Working(pcs)' <=> Working(pcs)
  BY DEF Working
<1>2. \A a \in Thread : Busy(a)' <=> Busy(a)
  BY DEF Busy
<1>3. /\ SavedAgrees => SavedAgrees'
      /\ PathAgrees("auth") => PathAgrees("auth")'
      /\ PathAgrees("acct") => PathAgrees("acct")'
  BY DEF SavedAgrees, PathAgrees, Channel
<1> QED BY <1>1, <1>2, <1>3 DEF UpdatesInv

(* The steps of a goroutine that is at work on the configuration. *)
LEMMA WorkKeepsUpdates ==
  ASSUME IInv, UpdatesInv, NEW a \in Thread,
         \/ PersistRead(a) \/ PersistWrite(a) \/ SyncRead(a)
         \/ \E ch \in Channel : SyncChannel(a, ch),
         overlapped' = overlapped, UNCHANGED <<pc, target, slot>>
  PROVE  UpdatesInv'
<1> SUFFICES ASSUME ~overlapped', ~Working({"close_auth", "close_acct", "stopped"})'
             PROVE  UpdatesInv'
  BY DEF UpdatesInv
<1>1. PathsTypeOK /\ PathsOwnSockets /\ SocketsTypeOK /\ ThreadsHoldConfig /\ config \in Configuration
  BY IInvParts DEF SocketsTypeOK, PathsTypeOK, SocketsInv
<1>2. PICK p \in ThreadPC, cfg \in Configuration \cup {None} :
        /\ thread' = [thread EXCEPT ![a] = [pc |-> p, cfg |-> cfg]]
        /\ \/ p = "write" /\ cfg = config /\ PersistRead(a)
           \/ p = "sync" /\ PersistWrite(a)
           \/ p = "auth" /\ cfg = config /\ SyncRead(a)
           \/ p = "acct" /\ cfg = thread[a].cfg /\ SyncChannel(a, "auth")
           \/ p \in {"idle", "serving"} /\ SyncChannel(a, "acct")
  <2>1. thread[a].cfg \in Configuration \cup {None}
    BY <1>1 DEF SocketsTypeOK
  <2>2. CASE PersistRead(a)
    BY <1>1, <2>2 DEF PersistRead, Goto, ThreadPC
  <2>3. CASE PersistWrite(a)
    BY <2>3 DEF PersistWrite, Goto, ThreadPC
  <2>4. CASE SyncRead(a)
    BY <1>1, <2>4 DEF SyncRead, Goto, ThreadPC
  <2>5. CASE SyncChannel(a, "auth")
    BY <2>1, <2>5 DEF SyncChannel, Goto, ThreadPC
  <2>6. CASE SyncChannel(a, "acct")
    BY <2>6 DEF SyncChannel, Goto, ThreadPC, AfterSync
  <2> QED BY <2>2, <2>3, <2>4, <2>5, <2>6 DEF Channel
<1>3. /\ thread'[a].pc = p /\ thread'[a].cfg = cfg
      /\ \A b \in Thread \ {a} : thread'[b] = thread[b]
  BY <1>1, <1>2 DEF SocketsTypeOK
<1>4. /\ thread[a].pc \in {"persist", "write", "sync", "auth", "acct"}
      /\ p \in {"idle", "serving", "write", "sync", "auth", "acct"}
  BY <1>2 DEF PersistRead, PersistWrite, SyncRead, SyncChannel, At
<1>5. ~overlapped /\ ~Working({"close_auth", "close_acct", "stopped"})
  BY <1>3, <1>4 DEF Working
<1>6. /\ \A b \in Thread : b # a => ~Busy(b)
      /\ \A c \in Conv : pc[c] = "path" => config.enabled /\ target[c] = config[slot[c][1]]
      /\ thread[a].pc \in {"write", "auth", "acct"} => thread[a].cfg = config
  BY <1>4, <1>5 DEF UpdatesInv, Busy
<1>7. \A pcs : (\A x \in pcs : x \notin {"idle", "serving"}) => (Working(pcs) <=> thread[a].pc \in pcs)
  BY <1>6 DEF Working, Busy
<1>8. \A b \in Thread : b # a => ~Busy(b)'
  BY <1>3, <1>6 DEF Busy
<1>9. \A pcs : (\A x \in pcs : x \notin {"idle", "serving"}) => (Working(pcs)' <=> p \in pcs)
  BY <1>3, <1>8 DEF Working, Busy
<1>10. config' = config
  BY <1>2 DEF PersistRead, PersistWrite, SyncRead, SyncChannel
<1>11. p \in {"auth", "acct"} => cfg = config
  BY <1>2, <1>6 DEF SyncChannel, At
<1>12. p \in {"write"} => cfg = config
  BY <1>2
<1>13. p \notin {"persist", "write"} => SavedAgrees'
  <2>1. CASE PersistWrite(a)
    <3>1. saved' = config
      BY <1>6, <2>1 DEF PersistWrite, At
    <3> QED BY <1>1, <1>10, <3>1, SocketsAssumption DEF SavedAgrees
  <2>2. CASE ~PersistWrite(a) /\ p # "write"
    <3>1. thread[a].pc \in {"sync", "auth", "acct"} /\ saved' = saved
      BY <1>2, <2>2 DEF SyncRead, SyncChannel, At
    <3>2. ~Working({"persist", "write"})
      BY <1>7, <3>1
    <3> QED BY <1>5, <1>10, <3>1, <3>2 DEF UpdatesInv, SavedAgrees
  <2> QED BY <2>1, <2>2
<1>14. ASSUME NEW ch \in Channel, SyncChannel(a, ch)
       PROVE  \A c2 \in Channel : c2 = ch \/ PathAgrees(c2) => PathAgrees(c2)'
  <2>1. thread[a].cfg = config
    BY <1>6, <1>14 DEF SyncChannel, At, Channel
  <2>2. CASE config.enabled
    BY <1>1, <1>10, <1>14, <2>1, <2>2, EnsureAgrees DEF SyncChannel
  <2>3. CASE ~config.enabled
    BY <1>1, <1>10, <1>14, <2>1, <2>3, CloseAgrees DEF SyncChannel
  <2> QED BY <2>2, <2>3
<1>15. p \notin {"persist", "write", "sync", "auth"} => PathAgrees("auth")'
  <2>1. CASE SyncChannel(a, "auth")
    BY <1>14, <2>1 DEF Channel
  <2>2. CASE SyncChannel(a, "acct")
    <3>1. ~Working({"persist", "write", "sync", "auth"})
      BY <1>7, <2>2 DEF SyncChannel, At
    <3>2. PathAgrees("auth")
      BY <1>5, <3>1 DEF UpdatesInv
    <3> QED BY <1>14, <2>2, <3>2 DEF Channel
  <2> QED BY <1>2, <2>1, <2>2
<1>16. p \notin {"persist", "write", "sync", "auth", "acct"} => PathAgrees("acct")'
  <2>1. p \notin {"persist", "write", "sync", "auth", "acct"} => SyncChannel(a, "acct")
    BY <1>2
  <2> QED BY <1>14, <2>1 DEF Channel
<1>17. \A b, d \in Thread : Busy(b)' /\ Busy(d)' => b = d
  BY <1>8
<1>18. \A b \in Thread : thread'[b].pc \in {"write", "auth", "acct"} => thread'[b].cfg = config'
  BY <1>3, <1>8, <1>10, <1>11, <1>12 DEF Busy
<1>19. \A c \in Conv : pc'[c] = "path" => config'.enabled /\ target'[c] = config'[slot'[c][1]]
  BY <1>6, <1>10
<1>20. /\ ~Working({"persist", "write"})' => SavedAgrees'
       /\ ~Working({"persist", "write", "sync", "auth"})' => PathAgrees("auth")'
       /\ ~Working({"persist", "write", "sync", "auth", "acct"})' => PathAgrees("acct")'
  BY <1>9, <1>13, <1>15, <1>16
<1> QED BY <1>17, <1>18, <1>19, <1>20 DEF UpdatesInv

LEMMA StepKeepsUpdates == IInv /\ UpdatesInv /\ [Next]_vars => UpdatesInv'
<1> SUFFICES ASSUME IInv, UpdatesInv, [Next]_vars PROVE UpdatesInv'
  OBVIOUS
<1>1. PathsTypeOK /\ PathsOwnSockets /\ SocketsTypeOK /\ CallTypeOK /\ CallsInOrder
  BY IInvParts DEF SocketsTypeOK, PathsTypeOK, SocketsInv
<1>2. ASSUME NEW a \in Thread, Configure(a) PROVE UpdatesInv'
  <2>1. CASE overlapped'
    BY <2>1 DEF UpdatesInv
  <2>2. CASE ~overlapped' /\ \E cfg \in Config : SetConfig(a, cfg)
    <3>0. PICK cfg \in Config : SetConfig(a, cfg)
      BY <2>2
    <3>a. thread[a].pc = "idle"
      BY <3>0 DEF SetConfig, At
    <3>b. /\ ~PersistFails(a) /\ ~PersistRead(a) /\ ~PersistWrite(a) /\ ~SyncRead(a)
          /\ \A ch \in Channel : ~SyncChannel(a, ch)
      BY <3>a DEF PersistFails, PersistRead, PersistWrite, SyncRead, SyncChannel, At, Channel
    <3>c. overlapped' = ((\E b \in Thread : Busy(b)) \/ (\E c \in Conv : pc[c] = "path"))
      BY <1>2, <3>b, Zenon DEF Configure
    <3>d. pc' = pc
      BY <1>2 DEF Configure, callVars
    <3>1. /\ \A b \in Thread : ~Busy(b)
          /\ \A c \in Conv : pc[c] # "path" /\ pc' = pc
      BY <2>2, <3>c, <3>d
    <3>2. thread'[a].pc = "persist" /\ \A b \in Thread \ {a} : thread'[b] = thread[b]
      BY <1>1, <2>2 DEF SetConfig, Goto, SocketsTypeOK
    <3>3. \A b \in Thread : Busy(b)' => b = a
      BY <3>1, <3>2 DEF Busy
    <3>4. \A b \in Thread : thread'[b].pc \notin {"write", "auth", "acct"}
      BY <3>1, <3>2 DEF Busy
    <3>5. /\ Working({"persist", "write"})' /\ Working({"persist", "write", "sync", "auth"})'
          /\ Working({"persist", "write", "sync", "auth", "acct"})'
      BY <3>2 DEF Working
    <3> QED BY <3>1, <3>3, <3>4, <3>5 DEF UpdatesInv
  <2>3. CASE /\ overlapped' = overlapped
             /\ \/ PersistRead(a) \/ PersistWrite(a) \/ SyncRead(a)
                \/ \E ch \in Channel : SyncChannel(a, ch)
    BY <1>2, <2>3, WorkKeepsUpdates DEF Configure, callVars
  <2> QED BY <1>2, <2>1, <2>2, <2>3 DEF Configure
<1>3. CASE Shutdown
  <2>1. \E p \in {"close_auth", "close_acct", "stopped"} : Goto(Main, p, None)
    BY <1>3 DEF Shutdown, Close, CloseChannel
  <2>2. Main \in Thread /\ thread'[Main].pc \in {"close_auth", "close_acct", "stopped"}
    BY <1>1, <2>1 DEF Goto, SocketsTypeOK, Thread
  <2>3. Working({"close_auth", "close_acct", "stopped"})'
    BY <2>2 DEF Working
  <2> QED BY <2>3 DEF UpdatesInv
<1>4. ASSUME NEW c \in Conv, Call(c) PROVE UpdatesInv'
  <2>1. UNCHANGED <<config, saved, thread, overlapped>>
    BY <1>4 DEF Call, MaybeForward, SkipForward, OpenPath, ParseFails, Prepare, Track,
                WriteSucceeds, WriteFails, socketVars
  <2>2. ASSUME NEW r \in Request, MaybeForward(c, r) PROVE UpdatesInv'
    <3>1. \A d \in Conv \ {c} : pc'[d] = pc[d] /\ target'[d] = target[d] /\ slot'[d] = slot[d]
      BY <1>1, <2>2 DEF MaybeForward, Step, CallTypeOK
    <3>2. config.enabled /\ target'[c] = config[slot'[c][1]]
      BY <1>1, <2>2 DEF MaybeForward, CallTypeOK
    <3> QED BY <2>1, <2>2, <3>1, <3>2, UpdatesFrame DEF MaybeForward, socketVars
  <2>3. ASSUME NEW k \in Sock \cup {None}, OpenPath(c, k) PROVE UpdatesInv'
    <3> SUFFICES ASSUME ~overlapped', ~Working({"close_auth", "close_acct", "stopped"})'
                 PROVE  UpdatesInv'
      BY DEF UpdatesInv
    <3>1. \A pcs : Working(pcs)' <=> Working(pcs)
      BY <2>1 DEF Working
    <3>2. \A a \in Thread : Busy(a)' <=> Busy(a)
      BY <2>1 DEF Busy
    <3>3. /\ pc[c] = "path" /\ EnsurePath(slot[c][1], target[c], k)
          /\ \A d \in Conv : pc'[d] = "path" =>
               d # c /\ pc[d] = "path" /\ target'[d] = target[d] /\ slot'[d] = slot[d]
      BY <1>1, <2>3 DEF OpenPath, Step, CallTypeOK
    <3>4. /\ config.enabled /\ target[c] = config[slot[c][1]] /\ slot[c] \in PendingKey
      BY <1>1, <2>1, <3>1, <3>3 DEF UpdatesInv, CallTypeOK, CallsInOrder
    <3>5. slot[c][1] \in Channel
      BY <3>4 DEF PendingKey
    <3>6. /\ PathAgrees("auth") => PathAgrees("auth")'
          /\ PathAgrees("acct") => PathAgrees("acct")'
      BY <1>1, <2>1, <3>3, <3>4, <3>5, EnsureAgrees DEF Channel
    <3>7. SavedAgrees => SavedAgrees'
      BY <2>1 DEF SavedAgrees
    <3> QED BY <2>1, <3>1, <3>2, <3>3, <3>6, <3>7 DEF UpdatesInv
  <2>4. CASE /\ UNCHANGED socketVars
             /\ \A d \in Conv : pc'[d] = "path" =>
                  pc[d] = "path" /\ target'[d] = target[d] /\ slot'[d] = slot[d]
    BY <2>1, <2>4, UpdatesFrame DEF socketVars
  <2>5. \/ \E r \in Request : MaybeForward(c, r)
        \/ \E k \in Sock \cup {None} : OpenPath(c, k)
        \/ /\ UNCHANGED socketVars
           /\ \A d \in Conv : pc'[d] = "path" =>
                pc[d] = "path" /\ target'[d] = target[d] /\ slot'[d] = slot[d]
    BY <1>1, <1>4 DEF Call, SkipForward, ParseFails, Prepare, Track, WriteSucceeds, WriteFails,
                      Step, CallTypeOK
  <2> QED BY <2>2, <2>3, <2>4, <2>5
<1>5. ASSUME NEW k \in Sock, Forget(k) PROVE UpdatesInv'
  <2>1. /\ UNCHANGED <<config, saved, path, thread, overlapped, pc, target, slot>>
        /\ \A ch \in Channel : path[ch] # k
        /\ \A j \in Sock \ {k} : socket'[j] = socket[j]
    BY <1>1, <1>5 DEF Forget, ForgetSocket, callVars, Range, PathsTypeOK
  <2>2. \A ch \in Channel : path[ch] # None => path[ch] \in Sock \ {k}
    BY <1>1, <2>1 DEF PathsTypeOK
  <2> QED BY <2>1, <2>2, UpdatesFrame
<1>6. CASE UNCHANGED <<socketVars, callVars, overlapped>>
  BY <1>6, UpdatesFrame DEF socketVars, callVars
<1>7. \/ \E a \in Thread : Configure(a)
      \/ Shutdown
      \/ \E c \in Conv : Call(c)
      \/ \E k \in Sock : Forget(k)
      \/ UNCHANGED <<socketVars, callVars, overlapped>>
  BY DEF Next, Handle, MatchAnswer, IgnoreAnswer, RecordAnswer, ReadFails, ReadAnswer, Sweep,
         Inspect, Clear, TimePasses, vars
<1> QED BY <1>2, <1>3, <1>4, <1>5, <1>6, <1>7

(* SetConfig: when updates run one at a time, apart from calls that have   *)
(* read the configuration and not used it, and the write to the store      *)
(* succeeds, then memory, store and sockets agree after each of them.      *)
THEOREM SerialUpdatesDoAgree == Spec => []SerialUpdatesAgree
<1>1. Init => UpdatesInv
  <2> SUFFICES ASSUME Init PROVE UpdatesInv
    OBVIOUS
  <2>1. \A a \in Thread : thread[a].pc = IF a = Main THEN "sync" ELSE "idle"
    BY DEF Init, SocketsInit
  <2>2. SavedAgrees /\ PathAgrees("auth") /\ PathAgrees("acct")
    BY DEF Init, SocketsInit, SavedAgrees, PathAgrees, Channel
  <2> QED BY <2>1, <2>2 DEF Init, UpdatesInv, Busy
<1>2. Spec => []UpdatesInv
  BY <1>1, StepKeepsUpdates, Invariance, PTL DEF Spec
<1>3. UpdatesInv => SerialUpdatesAgree
  <2> SUFFICES ASSUME UpdatesInv, Quiet, ~overlapped
               PROVE  SavedAgrees /\ \A ch \in Channel : PathAgrees(ch)
    BY DEF SerialUpdatesAgree
  <2>1. \A a \in Thread : thread[a].pc \in {"idle", "serving"}
    BY DEF Quiet, Busy
  <2>2. /\ ~Working({"close_auth", "close_acct", "stopped"}) /\ ~Working({"persist", "write"})
        /\ ~Working({"persist", "write", "sync", "auth"})
        /\ ~Working({"persist", "write", "sync", "auth", "acct"})
    BY <2>1 DEF Working
  <2> QED BY <2>2 DEF UpdatesInv, Channel
<1> QED BY <1>2, <1>3, PTL
=============================================================================

--------------------------- MODULE Conversations ---------------------------
(***************************************************************************)
(* The conversation table of internal/forwarder/conversation.go: the map   *)
(* `pending' from (channel, RADIUS identifier) to the request that waits   *)
(* for its answer, and the ring `convs' of the newest conversations, which *)
(* the UI lists.  Both are guarded by one mutex (convMu), and every        *)
(* operator below is one critical section of it: it says how that section  *)
(* changes the table, and the callers (module Forwarder) say when it runs. *)
(*                                                                         *)
(* A conversation is a member of Conv, one per call of MaybeForward.  Of   *)
(* its fields the model keeps the channel and identifier (key), Status,    *)
(* Response (whose answer was recorded) and whether responseTimeout has    *)
(* passed since StartedAt (overdue).                                       *)
(***************************************************************************)
EXTENDS Channels, Integers, Sequences, FiniteSetsExt, Functions

CONSTANTS Conv,              \* the conversations
          NIdent,            \* RADIUS identifiers per channel (256 in the code)
          MaxConversations   \* length of the ring (200 in the code)

Ident == 0 .. NIdent - 1
PendingKey == Channel \X Ident

ASSUME ConversationsAssumption ==
    /\ NIdent \in Nat \ {0}
    /\ MaxConversations \in Nat \ {0}
    /\ MaxConversations < NIdent
    /\ None \notin Conv \cup PendingKey

Status == {"none", "pending", "complete", "timeout", "error"}

VARIABLES pending,   \* PendingKey -> the conversation waiting there, or None
          convs,     \* the ring, newest first
          key,       \* Conv -> its channel and identifier (None before tracking)
          status,    \* Conv -> its Status ("none" before tracking)
          response,  \* Conv -> the request whose answer it recorded, or None
          overdue    \* the waiting conversations older than responseTimeout

tableVars == <<pending, convs, key, status, response, overdue>>

TableInit ==
    /\ pending = [k \in PendingKey |-> None]
    /\ convs = <<>>
    /\ key = [c \in Conv |-> None]
    /\ status = [c \in Conv |-> "none"]
    /\ response = [c \in Conv |-> None]
    /\ overdue = {}

InRing(c) == c \in Range(convs)
Waiting(c) == c \in Range(pending)
----------------------------------------------------------------------------
(* The identifier for a new request on a channel: the captured one if it   *)
(* is free, else the first free one after it, cyclically; the captured one *)
(* again if the channel is full.  Nothing is reserved.                     *)
Probe(i, n) == (i + n) % NIdent
FreeProbes(ch, i) == {n \in 0 .. NIdent : pending[<<ch, Probe(i, n)>>] = None}
\* Mutant: only the next identifier is tried.
AllocateIdentNext(ch, i) ==
    IF pending[<<ch, i>>] = None THEN i ELSE Probe(i, 1)

AllocateIdent(ch, i) ==
    IF FreeProbes(ch, i) = {} THEN i ELSE Probe(i, Min(FreeProbes(ch, i)))

(* The ring after conversation c is put in front, the conversations that   *)
(* fall off its end, and the keys dropOldestLocked deletes for them: those *)
(* whose status (st, after the displacement) is still "pending".           *)
RingWith(c) == <<c>> \o convs
Kept(c) == SubSeq(RingWith(c), 1, Min({MaxConversations, Len(RingWith(c))}))
\* Mutant: one conversation too few loses its key.
DroppedLate(c) == {RingWith(c)[i] : i \in MaxConversations + 2 .. Len(RingWith(c))}

Dropped(c) == {RingWith(c)[i] : i \in MaxConversations + 1 .. Len(RingWith(c))}
\* Mutant: the ring forgets to delete the keys.
DroppedKeysForgotten(c, ks, st) == {}

DroppedKeys(c, ks, st) == {ks[old] : old \in {o \in Dropped(c) : st[o] = "pending"}}

(* trackPending: a conversation that already waits under the key k is      *)
(* declared timed out and displaced; c takes the key and enters the ring;  *)
(* the ring drops its oldest and deletes the key of each dropped one.      *)
TrackPending(c, k) ==
    /\ key' = [key EXCEPT ![c] = k]
    /\ status' = [d \in Conv |->
                    IF d = c THEN "pending"
                    ELSE IF d = pending[k] /\ status[d] = "pending" THEN "timeout"
                    ELSE status[d]]
    /\ convs' = Kept(c)
    /\ pending' = [j \in PendingKey |->
                     IF j \in DroppedKeys(c, key', status') THEN None
                     ELSE IF j = k THEN c ELSE pending[j]]
    /\ overdue' = overdue \cap Range(pending')
    /\ UNCHANGED response

\* Mutant: the entry stays.
FinishErrorKeepsEntry(c) ==
    /\ status' = [status EXCEPT ![c] = "error"]
    /\ UNCHANGED <<pending, convs, key, response, overdue>>

(* finishError: the key is deleted whoever waits under it now. *)
FinishError(c) ==
    /\ status' = [status EXCEPT ![c] = "error"]
    /\ pending' = [pending EXCEPT ![key[c]] = None]
    /\ overdue' = overdue \cap Range(pending')
    /\ UNCHANGED <<convs, key, response>>

\* Mutant: the entry stays for the next answer.
TakePendingKeeps(k) ==
    /\ pending[k] # None
    /\ UNCHANGED tableVars

(* The first critical section of handleResponse: whoever waits under the   *)
(* key k is taken out of the table.                                        *)
TakePending(k) ==
    /\ pending[k] # None
    /\ pending' = [pending EXCEPT ![k] = None]
    /\ overdue' = overdue \cap Range(pending')
    /\ UNCHANGED <<convs, key, status, response>>

(* Its second critical section: the answer to request d is recorded on c. *)
CompleteConversation(c, d) ==
    /\ status' = [status EXCEPT ![c] = "complete"]
    /\ response' = [response EXCEPT ![c] = d]
    /\ UNCHANGED <<pending, convs, key, overdue>>

\* Mutant: nothing ever is past its time.
NothingExpires == {}

(* expirePending: entries that no longer are "pending" are dropped, and    *)
(* those past responseTimeout are declared timed out and dropped.          *)
Expired == {c \in overdue : Waiting(c) /\ status[c] = "pending"}
\* Mutant: what is past its time is dropped without an outcome.
ExpireSilently ==
    /\ pending' = [k \in PendingKey |-> IF pending[k] \in Expired THEN None ELSE pending[k]]
    /\ overdue' = {}
    /\ UNCHANGED <<convs, key, status, response>>

\* Mutant: what is past its time gets its outcome and keeps its entry.
ExpireKeepsEntry ==
    /\ status' = [c \in Conv |-> IF c \in Expired THEN "timeout" ELSE status[c]]
    /\ UNCHANGED <<pending, convs, key, response, overdue>>

ExpirePending ==
    /\ status' = [c \in Conv |-> IF c \in Expired THEN "timeout" ELSE status[c]]
    /\ pending' = [k \in PendingKey |->
                     IF /\ pending[k] # None
                        /\ status[pending[k]] = "pending"
                        /\ pending[k] \notin Expired
                     THEN pending[k] ELSE None]
    /\ overdue' = {}
    /\ UNCHANGED <<convs, key, response>>

ClearConversations ==
    /\ pending' = [k \in PendingKey |-> None]
    /\ convs' = <<>>
    /\ overdue' = {}
    /\ UNCHANGED <<key, status, response>>

(* responseTimeout passes for a waiting conversation.  StartedAt is the    *)
(* time of capture, so this may happen as soon as it is tracked.           *)
BecomeOverdue(c) ==
    /\ Waiting(c) /\ c \notin overdue
    /\ overdue' = overdue \cup {c}
    /\ UNCHANGED <<pending, convs, key, status, response>>
----------------------------------------------------------------------------
TableTypeOK ==
    /\ pending \in [PendingKey -> Conv \cup {None}]
    /\ convs \in Seq(Conv)
    /\ key \in [Conv -> PendingKey \cup {None}]
    /\ status \in [Conv -> Status]
    /\ response \in [Conv -> Conv \cup {None}]
    /\ overdue \subseteq Conv

(* Whoever is in the table waits: its status is "pending" and it waits     *)
(* under its own key.  (The check of Status in expirePending and in        *)
(* trackPending never finds anything else.)                                *)
EntriesWait ==
    \A k \in PendingKey : pending[k] # None =>
        status[pending[k]] = "pending" /\ key[pending[k]] = k

(* Whoever waits is still listed: the ring never drops a conversation and  *)
(* leaves its entry behind, which nobody could see or clear.               *)
WaitingIsListed == \A c \in Conv : Waiting(c) => InRing(c)

(* The ring, not the identifier space, limits the requests in flight: no   *)
(* more than MaxConversations wait at once, over both channels together    *)
(* (200; the docs say 256 on each, see SlotsPerChannel in Forwarder).      *)
InFlightBounded == Cardinality({k \in PendingKey : pending[k] # None}) <= MaxConversations

(* The ring is as long as the UI's list and no longer. *)
RingBounded == Len(convs) <= MaxConversations

(* So allocateIdent always finds a free identifier, and never falls back   *)
(* on one that is taken.                                                   *)
AllocationIsFree ==
    \A k \in PendingKey : pending[<<k[1], AllocateIdent(k[1], k[2])>>] = None

TableInv == EntriesWait /\ WaitingIsListed /\ RingBounded
=============================================================================

-------------------------------- MODULE Hub --------------------------------
(***************************************************************************)
(* internal/stream: the hub that hands every decoded packet to the         *)
(* WebSocket clients whose filter lets it through.  A client has a bounded *)
(* queue; a goroutine of its own writes what is queued to the connection,  *)
(* while the goroutine of its HTTP handler reads subscriptions from it.    *)
(*                                                                         *)
(* Clients are named by the time they connect, which is taken to be        *)
(* unique.  Publish, Add, Remove, UpdateFilter and the end of Run exclude  *)
(* each other (h.mu); two calls of Publish do not, but they differ only in *)
(* the order in which clients get two messages, and each client's order is *)
(* one in which the calls could have run.                                  *)
(***************************************************************************)
EXTENDS Integers, Sequences

CONSTANTS Client,       \* the connections that may be made
          Kind,         \* what a filter tells apart: code, source, MAC...
          QueueSize,    \* URSA_TZSP_CLIENT_QUEUE
          MaxMessages   \* bound: messages published

ASSUME HubAssumption == QueueSize \in Nat \ {0} /\ MaxMessages \in Nat

VARIABLES clients,   \* h.clients
          filter,    \* Client -> the kinds its filter lets through
          send,      \* Client -> its queue, of message numbers
          hand,      \* Client -> the message its writer took and has yet to write
          isOpen,    \* the clients whose queue is open
          handler,   \* Client -> where its handler is
          writer,    \* Client -> "none", "run" or "gone"
          got,       \* Client -> what was written to its connection
          removers,  \* the clients a "go h.Remove" is under way for
          running,   \* Run waits for its context
          published, \* number of messages published
          owed,      \* history: Client -> what its filter let through
          missed     \* history: the clients whose queue was full once

hubVars == <<clients, filter, isOpen, running>>
vars == <<hubVars, send, hand, handler, writer, got, removers, published, owed, missed>>

Hello == 0
Message == 1 .. MaxMessages

Init ==
    /\ clients = {} /\ isOpen = {} /\ removers = {} /\ missed = {}
    /\ filter = [c \in Client |-> Kind]
    /\ send = [c \in Client |-> <<>>]
    /\ hand = [c \in Client |-> <<>>]
    /\ handler = [c \in Client |-> "none"]
    /\ writer = [c \in Client |-> "none"]
    /\ got = [c \in Client |-> <<>>]
    /\ owed = [c \in Client |-> <<>>]
    /\ running = TRUE
    /\ published = 0
----------------------------------------------------------------------------
(* The hub. *)

(* Run, when its context is done. *)
EndRun ==
    /\ running
    /\ running' = FALSE
    /\ isOpen' = isOpen \ clients
    /\ clients' = {}
    /\ UNCHANGED <<filter, send, hand, handler, writer, got, removers, published, owed, missed>>

\* Mutant: the client stays in the map.
RemoveOnlyCloses(c) ==
    IF c \in clients
    THEN isOpen' = isOpen \ {c} /\ UNCHANGED <<clients, filter, running>>
    ELSE UNCHANGED hubVars

\* Mutant: the client is gone already, so nothing is done.
RemoveNothing(c) == UNCHANGED hubVars

Remove(c) ==
    IF c \in clients
    THEN clients' = clients \ {c} /\ isOpen' = isOpen \ {c} /\ UNCHANGED <<filter, running>>
    ELSE UNCHANGED hubVars

(* The goroutine that Publish starts for a client whose queue is full. *)
RemoveSlow(c) ==
    /\ c \in removers
    /\ Remove(c)
    /\ removers' = removers \ {c}
    /\ UNCHANGED <<send, hand, handler, writer, got, published, owed, missed>>

(* A message of kind k goes to the clients whose filter matches and that   *)
(* have room for it; the others that match will be removed.                *)
Matches(k) == {c \in clients : k \in filter[c]}
Full(c) == Len(send[c]) >= QueueSize
Publish(k) ==
    /\ published < MaxMessages
    /\ published' = published + 1
    /\ send' = [c \in Client |->
                  IF c \in Matches(k) /\ ~Full(c) THEN Append(send[c], published') ELSE send[c]]
    /\ removers' = removers \cup {c \in Matches(k) : Full(c)}
    /\ missed' = missed \cup {c \in Matches(k) : Full(c)}
    /\ owed' = [c \in Client |->
                  IF c \in Matches(k) THEN Append(owed[c], published') ELSE owed[c]]
    /\ UNCHANGED <<hubVars, hand, handler, writer, got>>
----------------------------------------------------------------------------
(* handleWS. *)
Connect(c) ==
    /\ handler[c] = "none"
    /\ handler' = [handler EXCEPT ![c] = "hello"]
    /\ clients' = clients \cup {c}
    /\ isOpen' = isOpen \cup {c}
    /\ UNCHANGED <<filter, send, hand, writer, got, removers, running, published, owed, missed>>

\* Mutant: the writer is started without a hello.
SendNoHello(c) ==
    /\ handler[c] = "hello"
    /\ handler' = [handler EXCEPT ![c] = "read"]
    /\ writer' = [writer EXCEPT ![c] = "run"]
    /\ UNCHANGED <<hubVars, send, hand, got, removers, published, owed, missed>>

(* The hello is written before the writer is started. *)
SendHello(c) ==
    /\ handler[c] = "hello"
    /\ got' = [got EXCEPT ![c] = Append(@, Hello)]
    /\ handler' = [handler EXCEPT ![c] = "read"]
    /\ writer' = [writer EXCEPT ![c] = "run"]
    /\ UNCHANGED <<hubVars, send, hand, removers, published, owed, missed>>

(* UpdateFilter changes the filter of a client that is still in the hub. *)
Subscribe(c, f) ==
    /\ handler[c] = "read"
    /\ filter' = IF c \in clients THEN [filter EXCEPT ![c] = f] ELSE filter
    /\ UNCHANGED <<clients, isOpen, running, send, hand, handler, writer, got, removers,
                   published, owed, missed>>

(* The hello cannot be written, or ReadMessage fails: the connection is    *)
(* gone, or no pong came for 60 s.  The handler removes the client, then   *)
(* closes the connection.                                                  *)
Disconnect(c) ==
    /\ handler[c] \in {"hello", "read"}
    /\ Remove(c)
    /\ handler' = [handler EXCEPT ![c] = "leaving"]
    /\ UNCHANGED <<send, hand, writer, got, removers, published, owed, missed>>

CloseConnection(c) ==
    /\ handler[c] = "leaving"
    /\ handler' = [handler EXCEPT ![c] = "gone"]
    /\ UNCHANGED <<hubVars, send, hand, writer, got, removers, published, owed, missed>>

(* The writer takes the next message from the queue...                     *)
Take(c) ==
    /\ writer[c] = "run" /\ hand[c] = <<>> /\ send[c] # <<>>
    /\ hand' = [hand EXCEPT ![c] = <<Head(send[c])>>]
    /\ send' = [send EXCEPT ![c] = Tail(@)]
    /\ UNCHANGED <<hubVars, handler, writer, got, removers, published, owed, missed>>

(* ...and writes it, or fails to and returns with what is queued unread.   *)
Write(c) ==
    /\ writer[c] = "run" /\ hand[c] # <<>> /\ handler[c] # "gone"
    /\ got' = [got EXCEPT ![c] = Append(@, Head(hand[c]))]
    /\ hand' = [hand EXCEPT ![c] = <<>>]
    /\ UNCHANGED <<hubVars, send, handler, writer, removers, published, owed, missed>>

\* Mutant: the message that was not written goes back into the queue.
WriteRetries(c) ==
    /\ writer[c] = "run" /\ hand[c] # <<>>
    /\ hand' = [hand EXCEPT ![c] = <<>>]
    /\ send' = [send EXCEPT ![c] = Append(@, Head(hand[c]))]
    /\ UNCHANGED <<hubVars, handler, writer, got, removers, published, owed, missed>>

WriteFails(c) ==
    /\ writer[c] = "run" /\ hand[c] # <<>>
    /\ writer' = [writer EXCEPT ![c] = "gone"]
    /\ hand' = [hand EXCEPT ![c] = <<>>]
    /\ UNCHANGED <<hubVars, send, handler, got, removers, published, owed, missed>>

\* Mutant: only the end of Run is noticed.
WriterReturnsAtEnd(c) ==
    /\ writer[c] = "run" /\ hand[c] = <<>> /\ send[c] = <<>> /\ ~running
    /\ writer' = [writer EXCEPT ![c] = "gone"]
    /\ UNCHANGED <<hubVars, send, hand, handler, got, removers, published, owed, missed>>

(* The writer returns, too, when it finds the queue closed and empty.      *)
WriterReturns(c) ==
    /\ writer[c] = "run" /\ hand[c] = <<>> /\ send[c] = <<>> /\ c \notin isOpen
    /\ writer' = [writer EXCEPT ![c] = "gone"]
    /\ UNCHANGED <<hubVars, send, hand, handler, got, removers, published, owed, missed>>

Next ==
    \/ EndRun
    \/ \E k \in Kind : Publish(k)
    \/ \E c \in Client :
         \/ RemoveSlow(c) \/ Connect(c) \/ SendHello(c)
         \/ \E f \in SUBSET Kind : Subscribe(c, f)
         \/ Disconnect(c) \/ CloseConnection(c)
         \/ Take(c) \/ Write(c) \/ WriteFails(c) \/ WriterReturns(c)

Spec == Init /\ [][Next]_vars

(* A goroutine that Publish started runs, a writer takes what is queued    *)
(* and returns when it can, a handler that leaves closes its connection,   *)
(* and a write to a connection that is closed fails.  Nothing is assumed   *)
(* of the clients: they may never read, and never go away.                 *)
FairSpec ==
    /\ Spec
    /\ \A c \in Client :
         /\ WF_vars(RemoveSlow(c))
         /\ WF_vars(CloseConnection(c))
         /\ WF_vars(Take(c))
         /\ WF_vars(WriterReturns(c))
         /\ WF_vars(WriteFails(c) /\ handler[c] = "gone")
----------------------------------------------------------------------------
TypeOK ==
    /\ clients \subseteq Client /\ isOpen \subseteq Client
    /\ removers \subseteq Client /\ missed \subseteq Client
    /\ filter \in [Client -> SUBSET Kind]
    /\ send \in [Client -> Seq(Message)] /\ hand \in [Client -> Seq(Message)]
    /\ handler \in [Client -> {"none", "hello", "read", "leaving", "gone"}]
    /\ writer \in [Client -> {"none", "run", "gone"}]
    /\ got \in [Client -> Seq(Message \cup {Hello})]
    /\ owed \in [Client -> Seq(Message)]
    /\ running \in BOOLEAN
    /\ published \in Nat

(* A queue is open exactly while its client is in the hub: Publish never   *)
(* sends on a closed channel and nobody closes one twice, both of which    *)
(* would panic, however the slow are removed, leave and are cut off at the *)
(* end of Run.                                                             *)
HubOwnsQueues == isOpen = clients

(* A client that has no gap coming gets all its filter let through, once   *)
(* each and in order, after the hello: unless its queue was full or a      *)
(* write failed, what was owed is what was written, what the writer holds  *)
(* and what is queued.                                                     *)
HelloFirst(c) == got[c] # <<>> => Head(got[c]) = Hello
Line(c) == hand[c] \o send[c]
NothingLostSilently ==
    \A c \in Client :
        /\ HelloFirst(c)
        /\ c \notin missed /\ writer[c] # "gone" =>
             owed[c] = (IF got[c] = <<>> THEN <<>> ELSE Tail(got[c])) \o Line(c)

(* Even a client that is slow gets what it does get in order, without      *)
(* repetition.                                                             *)
InOrder ==
    \A c \in Client : \A i, j \in DOMAIN got[c] : i < j => got[c][i] < got[c][j]

(* A client whose queue was full leaves the hub. *)
SlowIsRemoved == \A c \in Client : c \in missed ~> c \notin clients

(* The writer of a handler that has returned returns. *)
WriterFollows == \A c \in Client : handler[c] = "gone" ~> writer[c] # "run"
----------------------------------------------------------------------------
(* The inductive invariant behind the safety properties. *)

(* A writer is started after the hello, and only it writes from then on.   *)
WriterAfterHello ==
    \A c \in Client :
        /\ handler[c] \in {"none", "hello"} => writer[c] = "none"
        /\ writer[c] = "none" <=> got[c] = <<>>

(* The writer's hand is empty or holds one message.                        *)
OneInHand == \A c \in Client : Len(hand[c]) <= 1

(* What is written, what the writer holds and what is queued stand in one  *)
(* line.                                                                   *)
QueuesInOrder ==
    \A c \in Client :
        /\ \A i, j \in DOMAIN Line(c) : i < j => Line(c)[i] < Line(c)[j]
        /\ \A i \in DOMAIN got[c], j \in DOMAIN Line(c) : got[c][i] < Line(c)[j]
        /\ \A i \in DOMAIN got[c] : got[c][i] <= published
        /\ \A i \in DOMAIN Line(c) : Line(c)[i] <= published

HubInv ==
    /\ TypeOK /\ published <= MaxMessages
    /\ HubOwnsQueues /\ WriterAfterHello /\ QueuesInOrder
    /\ OneInHand /\ NothingLostSilently /\ InOrder
=============================================================================

----------------------------- MODULE Forwarder -----------------------------
(***************************************************************************)
(* internal/forwarder: captured RADIUS requests are sent on to an upstream *)
(* server, and the answers are matched to them by channel and identifier.  *)
(*                                                                         *)
(* Every c \in Conv is one call of MaybeForward, from the goroutine of the *)
(* orchestrator, of a replay or of a synth run, or of several at once.     *)
(* Every open socket has a goroutine in readLoop; a sweeper expires what   *)
(* waits too long; handlers of the API list and clear the conversations    *)
(* and set the configuration.  An action is what one of them does between  *)
(* two points at which another may run: a critical section, a store or a   *)
(* socket operation.  The network loses, delays, reorders and duplicates.  *)
(***************************************************************************)
EXTENDS Conversations, UpstreamSockets

CONSTANTS Request,   \* <<channel, identifier>> of the requests captured
          NoTarget   \* the empty target

ASSUME ForwarderAssumption ==
    /\ Request \subseteq PendingKey
    /\ NoTarget \in Target

VARIABLES pc,      \* Conv -> where its call of MaybeForward is
          slot,    \* Conv -> its channel and identifier, until tracked
          target,  \* Conv -> the target it read from the configuration
          via,     \* Conv -> the udpPath it was given, until written
          wire,    \* Conv -> the socket its request was written to, or None
          reader,  \* Sock -> [at, of, conv]: the answer in readLoop's hands
          overlapped  \* history: the last SetConfig did not run by itself

callVars == <<pc, slot, target, via>>
vars == <<tableVars, socketVars, callVars, wire, reader, overlapped>>

CallPC == {"idle", "path", "prepare", "track", "write", "done"}
Reader == [at : {"read", "match", "decode", "gone"},
           of : Conv \cup {None}, conv : Conv \cup {None}]
AtRead == [at |-> "read", of |-> None, conv |-> None]
Gone == [at |-> "gone", of |-> None, conv |-> None]

Init ==
    /\ TableInit
    /\ SocketsInit
    /\ pc = [c \in Conv |-> "idle"]
    /\ slot = [c \in Conv |-> None]
    /\ target = [c \in Conv |-> None]
    /\ via = [c \in Conv |-> None]
    /\ wire = [c \in Conv |-> None]
    /\ reader = [k \in Sock |-> AtRead]
    /\ overlapped = FALSE

Step(c, from, to) == pc[c] = from /\ pc' = [pc EXCEPT ![c] = to]
----------------------------------------------------------------------------
(* MaybeForward. *)

(* The configuration is copied; the call goes on if forwarding is enabled  *)
(* and the request's channel has a target.                                 *)
MaybeForward(c, r) ==
    /\ Booted
    /\ config.enabled /\ config[r[1]] # NoTarget
    /\ Step(c, "idle", "path")
    /\ slot' = [slot EXCEPT ![c] = r]
    /\ target' = [target EXCEPT ![c] = config[r[1]]]
    /\ UNCHANGED <<tableVars, socketVars, via, wire, reader, overlapped>>

SkipForward(c, r) ==
    /\ Booted
    /\ ~config.enabled \/ config[r[1]] = NoTarget
    /\ Step(c, "idle", "done")
    /\ UNCHANGED <<tableVars, socketVars, slot, target, via, wire, reader, overlapped>>

(* ensurePath, with the target read before: if it fails the call returns.  *)
OpenPath(c, k) ==
    /\ Step(c, "path", IF k = None THEN "done" ELSE "prepare")
    /\ EnsurePath(slot[c][1], target[c], k)
    /\ via' = [via EXCEPT ![c] = k]
    /\ target' = [target EXCEPT ![c] = None]
    /\ slot' = [slot EXCEPT ![c] = IF k = None THEN None ELSE @]
    /\ UNCHANGED <<tableVars, config, saved, thread, closed, wire, reader, overlapped>>

(* ParsePacket rejects the captured bytes. *)
ParseFails(c) ==
    /\ Step(c, "prepare", "done")
    /\ via' = [via EXCEPT ![c] = None]
    /\ slot' = [slot EXCEPT ![c] = None]
    /\ UNCHANGED <<tableVars, socketVars, target, wire, reader, overlapped>>

(* allocateIdent and PrepareForward.  A request that cannot be signed      *)
(* again (accounting, or one with a Message-Authenticator, from a NAS with *)
(* no secret in the catalog) is not rewritten and keeps its identifier.    *)
Prepare(c, rewritten) ==
    /\ Step(c, "prepare", "track")
    /\ slot' = [slot EXCEPT ![c][2] =
                  IF rewritten THEN AllocateIdent(slot[c][1], slot[c][2]) ELSE @]
    /\ UNCHANGED <<tableVars, socketVars, target, via, wire, reader, overlapped>>

Track(c) ==
    /\ Step(c, "track", "write")
    /\ TrackPending(c, slot[c])
    /\ slot' = [slot EXCEPT ![c] = None]
    /\ UNCHANGED <<socketVars, target, via, wire, reader, overlapped>>

WriteSucceeds(c) ==
    /\ Step(c, "write", "done")
    /\ Open(via[c])
    /\ wire' = [wire EXCEPT ![c] = via[c]]
    /\ via' = [via EXCEPT ![c] = None]
    /\ UNCHANGED <<tableVars, socketVars, slot, target, reader, overlapped>>

(* conn.Write fails: the socket was closed meanwhile, or the host refuses. *)
WriteFails(c) ==
    /\ Step(c, "write", "done")
    /\ FinishError(c)
    /\ via' = [via EXCEPT ![c] = None]
    /\ UNCHANGED <<socketVars, slot, target, wire, reader, overlapped>>
----------------------------------------------------------------------------
(* readLoop and handleResponse. *)

(* An answer to the request of d arrives on the socket it was sent from.   *)
ReadAnswer(k, d) ==
    /\ reader[k].at = "read"
    /\ Open(k) /\ wire[d] = k
    /\ reader' = [reader EXCEPT ![k] = [at |-> "match", of |-> d, conv |-> None]]
    /\ UNCHANGED <<tableVars, socketVars, callVars, wire, overlapped>>

(* Read returns an error and the goroutine ends: the socket was closed, or *)
(* an ICMP error came back for an earlier datagram and it is still open.   *)
ReadFails(k) ==
    /\ reader[k].at = "read" /\ socket[k] # None
    /\ reader' = [reader EXCEPT ![k] = Gone]
    /\ UNCHANGED <<tableVars, socketVars, callVars, wire, overlapped>>

\* Mutant: the channel of the socket is ignored.
AnswerKeyOfAnyChannel(k) == <<"auth", key[reader[k].of][2]>>

AnswerKey(k) == <<socket[k].channel, key[reader[k].of][2]>>

MatchAnswer(k) ==
    /\ reader[k].at = "match"
    /\ TakePending(AnswerKey(k))
    /\ reader' = [reader EXCEPT ![k].at = "decode", ![k].conv = pending[AnswerKey(k)]]
    /\ UNCHANGED <<socketVars, callVars, wire, overlapped>>

IgnoreAnswer(k) ==
    /\ reader[k].at = "match"
    /\ pending[AnswerKey(k)] = None
    /\ reader' = [reader EXCEPT ![k] = AtRead]
    /\ UNCHANGED <<tableVars, socketVars, callVars, wire, overlapped>>

RecordAnswer(k) ==
    /\ reader[k].at = "decode"
    /\ CompleteConversation(reader[k].conv, reader[k].of)
    /\ reader' = [reader EXCEPT ![k] = AtRead]
    /\ UNCHANGED <<socketVars, callVars, wire, overlapped>>
----------------------------------------------------------------------------
(* The sweeper, which runs until Close, and the handlers that expire what  *)
(* they are about to list or get.                                          *)
Sweep ==
    /\ ~closed
    /\ ExpirePending
    /\ UNCHANGED <<socketVars, callVars, wire, reader, overlapped>>

Inspect ==
    /\ Booted
    /\ ExpirePending
    /\ UNCHANGED <<socketVars, callVars, wire, reader, overlapped>>

Clear ==
    /\ Booted
    /\ ClearConversations
    /\ UNCHANGED <<socketVars, callVars, wire, reader, overlapped>>

TimePasses(c) ==
    /\ BecomeOverdue(c)
    /\ UNCHANGED <<socketVars, callVars, wire, reader, overlapped>>

(* A closed socket whose reader has returned, and to which no call, no     *)
(* request and no path refers, is as good as one that was never dialled.   *)
Forget(k) ==
    /\ reader[k] = Gone
    /\ k \notin Range(via) \cup Range(wire) \cup Range(path)
    /\ ForgetSocket(k)
    /\ reader' = [reader EXCEPT ![k] = AtRead]
    /\ UNCHANGED <<tableVars, callVars, wire, overlapped>>

(* SetConfig overlaps another SetConfig, or a call that has read the       *)
(* configuration and has not opened its path; or its write fails.          *)
Busy(a) == thread[a].pc \notin {"idle", "serving"}
Configure(a) ==
    /\ \/ /\ \E cfg \in Config : SetConfig(a, cfg)
          /\ overlapped' = \/ \E b \in Thread : Busy(b)
                            \/ \E c \in Conv : pc[c] = "path"
       \/ PersistFails(a) /\ overlapped' = TRUE
       \/ /\ \/ PersistRead(a)
             \/ PersistWrite(a)
             \/ SyncRead(a)
             \/ \E ch \in Channel : SyncChannel(a, ch)
          /\ UNCHANGED overlapped
    /\ UNCHANGED <<tableVars, callVars, wire, reader>>

Shutdown ==
    /\ Close \/ \E ch \in Channel : CloseChannel(ch)
    /\ UNCHANGED <<tableVars, callVars, wire, reader, overlapped>>
----------------------------------------------------------------------------
Call(c) ==
    \/ \E r \in Request : MaybeForward(c, r) \/ SkipForward(c, r)
    \/ \E k \in Sock \cup {None} : OpenPath(c, k)
    \/ ParseFails(c)
    \/ \E rewritten \in BOOLEAN : Prepare(c, rewritten)
    \/ Track(c)
    \/ WriteSucceeds(c)
    \/ WriteFails(c)

Handle(k) == MatchAnswer(k) \/ IgnoreAnswer(k) \/ RecordAnswer(k)

Next ==
    \/ \E c \in Conv : Call(c) \/ TimePasses(c)
    \/ \E k \in Sock : Handle(k) \/ ReadFails(k) \/ Forget(k) \/ \E d \in Conv : ReadAnswer(k, d)
    \/ Sweep \/ Inspect \/ Clear
    \/ \E a \in Thread : Configure(a)
    \/ Shutdown

Spec == Init /\ [][Next]_vars
----------------------------------------------------------------------------
TypeOK ==
    /\ TableTypeOK
    /\ SocketsTypeOK
    /\ pc \in [Conv -> CallPC]
    /\ slot \in [Conv -> PendingKey \cup {None}]
    /\ target \in [Conv -> Target \cup {None}]
    /\ via \in [Conv -> Sock \cup {None}]
    /\ wire \in [Conv -> Sock \cup {None}]
    /\ reader \in [Sock -> Reader]
    /\ overlapped \in BOOLEAN

(* A listed conversation that says "pending" is in the table or has its    *)
(* answer in the hands of a reader, unless another got the same key.       *)
Answering(c) == \E k \in Sock : reader[k].at = "decode" /\ reader[k].conv = c
OrphanOnlyByCollision ==
    \A c \in Conv : InRing(c) /\ status[c] = "pending" =>
        \/ Waiting(c) \/ Answering(c)
        \/ \E d \in Conv \ {c} : key[d] = key[c]

(* What is recorded on a conversation answers a request that was written   *)
(* to a socket, under the same channel and identifier.                     *)
AnswerMatchesKey ==
    \A c \in Conv : response[c] # None =>
        wire[response[c]] # None /\ key[response[c]] = key[c]

(* An outcome stands: a conversation that timed out is never completed by  *)
(* a late answer, a recorded answer is never replaced by a second one, and *)
(* nothing goes back to "pending".                                         *)
OutcomeStands ==
    [][\A c \in Conv :
         /\ status[c] = "timeout" => status'[c] \in {"timeout", "error"}
         /\ status[c] \in {"complete", "error"} => status'[c] \in {"complete", "error"}
         /\ response[c] # None => response'[c] = response[c]]_vars

(* docs/harness.md:25, docs/operations.md:64: 256 requests may be in       *)
(* flight on auth and 256 on acct before slots are overwritten.  So a      *)
(* request that takes another slot takes none from one that waits, as long *)
(* as there are free ones on the channel of the latter.                    *)
OnChannel(ch) == {k \in PendingKey : k[1] = ch /\ pending[k] # None}
SlotsPerChannel ==
    [][\A c, d \in Conv :
         /\ Waiting(c) /\ Cardinality(OnChannel(key[c][1])) < NIdent
         /\ status[d] = "none" /\ status'[d] = "pending" /\ key'[d] # key[c]
         => Waiting(c)']_vars

(* When SetConfig calls run one at a time and apart from a call that is    *)
(* about to open its path, then after each of them the saved configuration *)
(* is the one in memory, and the open sockets are those it asks for.       *)
Quiet == (\A a \in Thread : ~Busy(a)) /\ (\A c \in Conv : pc[c] # "path")
SavedAgrees == IF saved = None THEN config = DefaultConfig ELSE saved = config
PathAgrees(ch) ==
    path[ch] # None => config.enabled /\ socket[path[ch]].target = config[ch]
SerialUpdatesAgree ==
    Quiet /\ ~overlapped => SavedAgrees /\ \A ch \in Channel : PathAgrees(ch)

(* The forwarder implements Exchange: a request is open while it waits in  *)
(* the table and while a reader is about to record its answer.             *)
OpenRequests == {c \in Conv : Waiting(c) \/ Answering(c)}
SentRequests == {c \in Conv : wire[c] # None}
Abstract == INSTANCE Exchange WITH
    Key <- PendingKey, outcome <- status, answer <- response,
    open <- OpenRequests, sent <- SentRequests

(* So every request has one fate, whatever the table does: it is answered  *)
(* at most once, by what was sent under its key, and only while it is      *)
(* open; what timed out or failed unsent is never answered or sent.        *)
ImplementsExchange == Abstract!Spec
----------------------------------------------------------------------------
(* The inductive invariant behind the properties above: what each goroutine *)
(* knows at the point where it is, and what the table knows of it.          *)

(* A conversation has a key exactly from trackPending on. *)
CallsInOrder ==
    \A c \in Conv :
        /\ key[c] = None <=> status[c] = "none"
        /\ pc[c] \in {"idle", "path", "prepare", "track"} => status[c] = "none"
        /\ pc[c] \in {"path", "prepare", "track"} => slot[c] # None
        /\ pc[c] = "path" => target[c] # None
        /\ pc[c] \in {"prepare", "track", "write"} => via[c] # None
        /\ pc[c] = "write" => status[c] # "none"
        /\ wire[c] # None => pc[c] = "done"

(* The socket a request goes out on is one of the request's own channel. *)
OnItsChannel ==
    \A c \in Conv :
        /\ pc[c] \in {"prepare", "track"} =>
             socket[via[c]] # None /\ socket[via[c]].channel = slot[c][1]
        /\ pc[c] = "write" =>
             socket[via[c]] # None /\ socket[via[c]].channel = key[c][1]
        /\ wire[c] # None =>
             /\ key[c] # None
             /\ socket[wire[c]] # None /\ socket[wire[c]].channel = key[c][1]

(* A conversation whose answer is being recorded has left the table, by    *)
(* the hands of one reader only, and has no answer yet.                    *)
ReadersInOrder ==
    \A k \in Sock :
        /\ reader[k].at \in {"match", "decode"} =>
             reader[k].of # None /\ wire[reader[k].of] = k
        /\ reader[k].at = "decode" =>
             /\ reader[k].conv # None
             /\ ~Waiting(reader[k].conv)
             /\ status[reader[k].conv] \in {"pending", "error"}
             /\ response[reader[k].conv] = None
             /\ key[reader[k].conv] = key[reader[k].of]
             /\ \A j \in Sock \ {k} :
                  reader[j].at = "decode" => reader[j].conv # reader[k].conv

Unanswered ==
    \A c \in Conv : Waiting(c) \/ status[c] = "none" => response[c] = None

IInv ==
    /\ TypeOK
    /\ TableInv
    /\ PathsOwnSockets
    /\ CallsInOrder
    /\ OnItsChannel
    /\ ReadersInOrder
    /\ Unanswered
    /\ ThreadsHoldConfig

(* On top of it, for OrphanOnlyByCollision: the ring lists a conversation  *)
(* once, and none that was not tracked.                                    *)
RingOnce ==
    /\ \A i, j \in DOMAIN convs : convs[i] = convs[j] => i = j
    /\ \A c \in Conv : InRing(c) => status[c] # "none"
OrphansInv == RingOnce /\ OrphanOnlyByCollision

(* And for SerialUpdatesAgree: until Close one goroutine works on the      *)
(* configuration, what it has read is still true, and what it has behind   *)
(* it agrees; calls that are about to open their path may as well.         *)
Working(pcs) == \E a \in Thread : thread[a].pc \in pcs
UpdatesInv ==
    ~overlapped /\ ~Working({"close_auth", "close_acct", "stopped"}) =>
        /\ \A a, b \in Thread : Busy(a) /\ Busy(b) => a = b
        /\ \A a \in Thread : thread[a].pc \in {"write", "auth", "acct"} => thread[a].cfg = config
        /\ \A c \in Conv : pc[c] = "path" => config.enabled /\ target[c] = config[slot[c][1]]
        /\ ~Working({"persist", "write"}) => SavedAgrees
        /\ ~Working({"persist", "write", "sync", "auth"}) => PathAgrees("auth")
        /\ ~Working({"persist", "write", "sync", "auth", "acct"}) => PathAgrees("acct")
----------------------------------------------------------------------------
(* Time passes, the sweeper's ticker fires, and goroutines that can run    *)
(* do; nothing is assumed of the network, of the API or of new requests.   *)
Fairness ==
    /\ \A c \in Conv : WF_vars(TimePasses(c)) /\ WF_vars(Call(c) /\ pc[c] # "idle")
    /\ \A k \in Sock : WF_vars(Handle(k))
    /\ WF_vars(Sweep)

FairSpec == Spec /\ Fairness

(* Until Close stops the sweeper, a conversation that waits in the table   *)
(* stops waiting: it is answered, displaced, failed, cleared or expired.   *)
WaitingEnds == \A c \in Conv : Waiting(c) ~> (~Waiting(c) \/ closed)

(* docs/harness.md:11: a request is joined with its answer or times out    *)
(* after 5 s, so no listed conversation is "pending" for ever.             *)
ListedSettles ==
    \A c \in Conv : (InRing(c) /\ status[c] = "pending") ~>
                     (~InRing(c) \/ status[c] # "pending" \/ closed)
=============================================================================

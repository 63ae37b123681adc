------------------------------ MODULE Pipeline ------------------------------
(***************************************************************************)
(* internal/runtime: the way of an event through the process.              *)
(*                                                                         *)
(* Listeners put what they capture into a bounded channel, from which the  *)
(* goroutine of Orchestrator.Run takes it.  Engines and the readers of the *)
(* forwarder call Emit, which processes an event in their own goroutine.   *)
(* To process a request is to record it (module Recorder, in its steps),   *)
(* to hand it to the forwarder, and to decode, catalog and publish it.     *)
(***************************************************************************)
EXTENDS Recorder, Sequences

CONSTANTS Listener,    \* captures: TZSP, raw sniffing
          Run,         \* the caller that runs Orchestrator.Run
          EventQueue,  \* the size of the channel
          MaxEvents    \* bound: events altogether

Kind == {"captured", "mirrored", "answer"}
Event == [time : 1 .. MaxEvents, kind : Kind, from : Listener \cup {None}]

ASSUME PipelineAssumption ==
    /\ Run \in Caller
    /\ EventQueue \in Nat \ {0}
    /\ MaxEvents \in Nat
    /\ 1 .. MaxEvents \subseteq Time
    /\ None \notin Listener \cup Event

VARIABLES emitted,  \* history: the events so far; the time of one is its place
          held,     \* Listener -> the event it is about to put, or None
          queue,    \* the channel
          at,       \* Caller -> where it is in process
          handled,  \* Caller -> the event it processes, or None
          stopped,  \* main's context is done
          gone,     \* the listeners that have returned
          sends,    \* history: the times of the events given to the forwarder
          since,    \* history: the events there were when the active recording started
          lost      \* history: the times of packets the store did not take

pipeVars == <<emitted, held, queue, at, handled, stopped, gone, sends, since, lost>>
pipelineVars == <<vars, pipeVars>>

Stage == {"idle", "record", "append", "forward", "returned"}

PipelineInit ==
    /\ Init
    /\ emitted = <<>> /\ since = 0
    /\ held = [l \in Listener |-> None]
    /\ queue = <<>>
    /\ at = [c \in Caller |-> "idle"]
    /\ handled = [c \in Caller |-> None]
    /\ stopped = FALSE /\ gone = {}
    /\ sends = <<>> /\ lost = {}
----------------------------------------------------------------------------
\* Mutant: whatever comes is taken for a request.
IsRequestAlways(e) == TRUE
IsRequest(e) == e.kind # "answer"
NewEvent(kind, from) == [time |-> Len(emitted) + 1, kind |-> kind, from |-> from]
New(e) == Len(emitted) < MaxEvents /\ emitted' = Append(emitted, e)

(* The time of an event is taken before the listener waits for room. *)
Receive(l, kind) ==
    /\ l \notin gone /\ held[l] = None
    /\ New(NewEvent(kind, l))
    /\ held' = [held EXCEPT ![l] = NewEvent(kind, l)]
    /\ UNCHANGED <<vars, queue, at, handled, stopped, gone, sends, since, lost>>

Put(l) ==
    /\ held[l] # None /\ Len(queue) < EventQueue
    /\ queue' = Append(queue, held[l])
    /\ held' = [held EXCEPT ![l] = None]
    /\ UNCHANGED <<vars, emitted, at, handled, stopped, gone, sends, since, lost>>

(* process begins; only a request is recorded. *)
Begin(c, e) ==
    /\ handled' = [handled EXCEPT ![c] = e]
    /\ at' = [at EXCEPT ![c] = IF IsRequest(e) THEN "record" ELSE "forward"]

\* Mutant: whoever is free takes the next event.
TakeAnywhere ==
    \E c \in Caller :
      /\ at[c] = "idle" /\ queue # <<>>
      /\ Begin(c, Head(queue))
      /\ queue' = Tail(queue)
      /\ UNCHANGED <<vars, emitted, held, stopped, gone, sends, since, lost>>

Take ==
    /\ at[Run] = "idle" /\ queue # <<>>
    /\ Begin(Run, Head(queue))
    /\ queue' = Tail(queue)
    /\ UNCHANGED <<vars, emitted, held, stopped, gone, sends, since, lost>>

(* An engine that mirrors forwards its packet itself, then emits it. *)
Mirror(c) ==
    /\ c # Run /\ at[c] = "idle"
    /\ New(NewEvent("mirrored", None))
    /\ sends' = Append(sends, Len(emitted'))
    /\ Begin(c, NewEvent("mirrored", None))
    /\ UNCHANGED <<vars, held, queue, stopped, gone, since, lost>>

(* A reader emits the answer it has recorded. *)
Answer(c) ==
    /\ c # Run /\ at[c] = "idle"
    /\ New(NewEvent("answer", None))
    /\ Begin(c, NewEvent("answer", None))
    /\ UNCHANGED <<vars, held, queue, stopped, gone, sends, since, lost>>

\* Mutant: nobody waits for the store.
RecordAsync(c) ==
    /\ at[c] = "record"
    /\ at' = [at EXCEPT ![c] = "forward"]
    /\ IF activeID = None THEN UNCHANGED vars ELSE MaybeRecord(c, handled[c].time)
    /\ UNCHANGED <<emitted, held, queue, handled, stopped, gone, sends, since, lost>>

(* MaybeRecord: nothing is recorded if no recording is active. *)
Record(c) ==
    /\ at[c] = "record"
    /\ IF activeID = None
       THEN at' = [at EXCEPT ![c] = "forward"] /\ UNCHANGED vars
       ELSE at' = [at EXCEPT ![c] = "append"] /\ MaybeRecord(c, handled[c].time)
    /\ UNCHANGED <<emitted, held, queue, handled, stopped, gone, sends, since, lost>>

(* The store takes the packet or does not: the error is logged, and the    *)
(* packet is forwarded all the same.                                       *)
AppendToStore(c) ==
    /\ at[c] = "append"
    /\ RecordAppends(c) \/ AppendFails(c)
    /\ at' = [at EXCEPT ![c] = "forward"]
    /\ lost' = IF packets' = packets THEN lost \cup {handled[c].time} ELSE lost
    /\ UNCHANGED <<emitted, held, queue, handled, stopped, gone, sends, since>>

(* A request is handed to the forwarder (module Forwarder tells what that  *)
(* does with it); then everything is decoded, put into the catalog and     *)
(* published, unless it cannot be decoded.  Either way the goroutine is    *)
(* done with it.  One step: nothing here can tell the parts apart.         *)
Handed(c) ==
    sends' = IF IsRequest(handled[c]) THEN Append(sends, handled[c].time) ELSE sends

\* Mutant: the goroutine that takes events ends at the first it cannot decode.
FinishOrReturn(c) ==
    /\ at[c] = "forward"
    /\ Handed(c)
    /\ \E next \in {"idle", "returned"} :
         at' = [at EXCEPT ![c] = IF c = Run THEN next ELSE "idle"]
    /\ handled' = [handled EXCEPT ![c] = None]
    /\ UNCHANGED <<vars, emitted, held, queue, stopped, gone, since, lost>>

Finish(c) ==
    /\ at[c] = "forward"
    /\ Handed(c)
    /\ at' = [at EXCEPT ![c] = "idle"]
    /\ handled' = [handled EXCEPT ![c] = None]
    /\ UNCHANGED <<vars, emitted, held, queue, stopped, gone, since, lost>>
----------------------------------------------------------------------------
(* A signal: whoever waits returns, unless it finds something to do first. *)
(* A listener sees it when its read times out or when it waits for room,   *)
(* so it may receive on until then.                                        *)
Interrupt ==
    /\ ~stopped /\ stopped' = TRUE
    /\ UNCHANGED <<vars, emitted, held, queue, at, handled, gone, sends, since, lost>>

ListenerReturns(l) ==
    /\ stopped /\ l \notin gone
    /\ held' = [held EXCEPT ![l] = None]
    /\ gone' = gone \cup {l}
    /\ UNCHANGED <<vars, emitted, queue, at, handled, stopped, sends, since, lost>>

RunReturns ==
    /\ stopped /\ at[Run] = "idle"
    /\ at' = [at EXCEPT ![Run] = "returned"]
    /\ UNCHANGED <<vars, emitted, held, queue, handled, stopped, gone, sends, since, lost>>

(* The process ends, whatever is under way, and starts again. *)
PipelineRestart ==
    /\ Restart
    /\ held' = [l \in Listener |-> None]
    /\ queue' = <<>>
    /\ at' = [c \in Caller |-> "idle"]
    /\ handled' = [c \in Caller |-> None]
    /\ stopped' = FALSE /\ gone' = {}
    /\ UNCHANGED <<emitted, sends, since, lost>>

Recordings ==
    \/ \E r \in Recording : Start(r) /\ since' = Len(emitted)
    \/ /\ \/ \E r \in Recording : Delete(r)
          \/ \E h \in Handler : Stop(h) \/ StopStores(h) \/ StopFails(h)
       /\ UNCHANGED since

Process(c) == Record(c) \/ AppendToStore(c) \/ Finish(c)

PipelineNext ==
    \/ \E l \in Listener : (\E k \in {"captured", "answer"} : Receive(l, k)) \/ Put(l)
    \/ Take
    \/ \E c \in Caller : Mirror(c) \/ Answer(c) \/ Process(c)
    \/ Interrupt \/ RunReturns \/ PipelineRestart
    \/ \E l \in Listener : ListenerReturns(l)
    \/ /\ Recordings
       /\ UNCHANGED <<emitted, held, queue, at, handled, stopped, gone, sends, lost>>

PipelineSpec == PipelineInit /\ [][PipelineNext]_pipelineVars

(* Goroutines that can go on do; a channel serves who waits for it in turn. *)
PipelineFairness ==
    /\ \A c \in Caller : WF_pipelineVars(Process(c))
    /\ WF_pipelineVars(Take)
    /\ \A l \in Listener : SF_pipelineVars(Put(l))

FairPipelineSpec == PipelineSpec /\ PipelineFairness
----------------------------------------------------------------------------
(* What one listener captured is numbered and forwarded in the order in    *)
(* which it was captured, whatever engines and other listeners do.         *)
SameListener(t, u) == emitted[t].from # None /\ emitted[t].from = emitted[u].from
CaptureOrder ==
    /\ \A i, j \in DOMAIN sends :
         i < j /\ SameListener(sends[i], sends[j]) => sends[i] < sends[j]
    /\ \A p, q \in packets \cup InFlight :
         p.recording = q.recording /\ p.time < q.time /\ SameListener(p.time, q.time) =>
             p.seq < q.seq

(* Nothing goes round: an answer is neither recorded nor forwarded, though *)
(* it comes back through Emit; a captured request is forwarded at most     *)
(* once, and a mirrored one no more than the two times it is handed over.  *)
Times(t) == Cardinality({i \in DOMAIN sends : sends[i] = t})
NothingGoesRound ==
    /\ \A t \in DOMAIN emitted :
         Times(t) <= CASE emitted[t].kind = "answer" -> 0
                       [] emitted[t].kind = "captured" -> 1
                       [] emitted[t].kind = "mirrored" -> 2
    /\ \A p \in packets \cup InFlight : emitted[p.time].kind # "answer"
    /\ \A p, q \in packets \cup InFlight : p.time = q.time => p = q

(* While a recording is active, every request that came since it began has *)
(* been stored by the time process forwards it, or the store refused it.   *)
Processed(t) == Times(t) = (IF emitted[t].kind = "mirrored" THEN 2 ELSE 1)
RecordingIsComplete ==
    activeID # None /\ recordings[activeID] # None =>
        \A t \in DOMAIN emitted :
          since < t /\ Processed(t) => t \in lost \cup {p.time : p \in Stored(activeID)}

(* An event ends in being processed, unless the process is told to stop:   *)
(* no failure in decoding, recording or forwarding holds up those behind.  *)
InHand(t) ==
    \/ \E l \in Listener : held[l] # None /\ held[l].time = t
    \/ \E i \in DOMAIN queue : queue[i].time = t
    \/ \E c \in Caller : handled[c] # None /\ handled[c].time = t
EventsAreProcessed == \A t \in 1 .. MaxEvents : InHand(t) ~> (~InHand(t) \/ stopped)
----------------------------------------------------------------------------
(* The inductive invariant behind the first three properties. *)
PipelineTypeOK ==
    /\ emitted \in Seq(Event) /\ Len(emitted) <= MaxEvents
    /\ held \in [Listener -> Event \cup {None}]
    /\ queue \in Seq(Event)
    /\ at \in [Caller -> Stage]
    /\ handled \in [Caller -> Event \cup {None}]
    /\ stopped \in BOOLEAN /\ gone \subseteq Listener
    /\ sends \in Seq(1 .. MaxEvents)
    /\ since \in Nat
    /\ lost \subseteq 1 .. MaxEvents

(* An event is, wherever it is, the one that was emitted at its time; only *)
(* the orchestrator has those of listeners; answers go no further.         *)
Genuine(e) == e.time \in DOMAIN emitted /\ emitted[e.time] = e
RequestAt(t) == t \in DOMAIN emitted /\ emitted[t].kind # "answer"
EventsAreGenuine ==
    /\ \A t \in DOMAIN emitted :
          /\ emitted[t].kind = "captured" => emitted[t].from # None
          /\ emitted[t].kind = "mirrored" => emitted[t].from = None
    /\ \A l \in Listener : held[l] # None => Genuine(held[l]) /\ held[l].from = l
    /\ \A i \in DOMAIN queue : Genuine(queue[i]) /\ queue[i].from # None
    /\ \A c \in Caller : handled[c] # None =>
          Genuine(handled[c]) /\ (c # Run => handled[c].from = None)
    /\ \A i \in DOMAIN sends : RequestAt(sends[i])
    /\ \A p \in Numbered : RequestAt(p.time)

(* Where a goroutine is says what it has in hand; no two have the same     *)
(* event, none is about to number one that has a number, and none got two. *)
StagesAgree ==
    /\ \A c \in Caller :
          /\ handled[c] # None <=> at[c] \in {"record", "append", "forward"}
          /\ append[c] # None <=> at[c] = "append"
          /\ at[c] \in {"record", "append"} => IsRequest(handled[c])
          /\ at[c] = "append" => append[c].time = handled[c].time
          /\ at[c] = "record" => \A p \in Numbered : p.time # handled[c].time
    /\ \A c, d \in Caller :
          c # d /\ handled[c] # None /\ handled[d] # None => handled[c].time # handled[d].time
    /\ \A p, q \in Numbered : p.time = q.time => p = q

(* The events of one listener stand in line: those that are through, the   *)
(* one the orchestrator has, those in the channel, the one that is held.   *)
Through == {sends[i] : i \in DOMAIN sends} \cup {p.time : p \in Numbered}
LineInOrder ==
    /\ \A l \in Listener : held[l] # None =>
          /\ \A t \in Through : SameListener(t, held[l].time) => t < held[l].time
          /\ \A i \in DOMAIN queue : queue[i].from = l => queue[i].time < held[l].time
          /\ handled[Run] # None /\ handled[Run].from = l => handled[Run].time < held[l].time
    /\ \A i \in DOMAIN queue :
          /\ \A t \in Through : SameListener(t, queue[i].time) => t < queue[i].time
          /\ \A j \in DOMAIN queue :
                i < j /\ queue[i].from = queue[j].from => queue[i].time < queue[j].time
          /\ handled[Run] # None /\ handled[Run].from = queue[i].from =>
                handled[Run].time < queue[i].time
    /\ handled[Run] # None =>
          /\ \A i \in DOMAIN sends :
                SameListener(sends[i], handled[Run].time) => sends[i] < handled[Run].time
          /\ at[Run] = "record" => \A p \in Numbered :
                SameListener(p.time, handled[Run].time) => p.time < handled[Run].time

(* A mirrored packet was handed over before it was emitted, and is handed  *)
(* over once more at its end.                                              *)
MirroredTwice ==
    \A t \in DOMAIN emitted : emitted[t].kind = "mirrored" =>
        /\ Times(t) <= 2
        /\ \A c \in Caller : handled[c] # None /\ handled[c].time = t => Times(t) <= 1

(* A request that came under the active recording is in its rows, or lost, *)
(* before it is forwarded.                                                 *)
RecordedBeforeForward ==
    activeID # None => \A c \in Caller : handled[c] # None /\ since < handled[c].time =>
        /\ at[c] = "append" => append[c].recording = activeID
        /\ at[c] = "forward" /\ IsRequest(handled[c]) /\ recordings[activeID] # None =>
              handled[c].time \in lost \cup {p.time : p \in Stored(activeID)}

PipelineInv ==
    /\ RecorderInv /\ PipelineTypeOK
    /\ EventsAreGenuine /\ StagesAgree /\ LineInOrder /\ MirroredTwice
    /\ CaptureOrder /\ RecordedBeforeForward /\ RecordingIsComplete
=============================================================================

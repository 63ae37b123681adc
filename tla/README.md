# A verification of tzsp-radius-collector

This directory holds TLA+ models of the collector, the TLC configurations that
check them on small instances, and proofs, for all instances, of the safety properties
these runs check and of the forwarder's refinement. The models are written from the Go code; `PROJECT.json` maps each definition
to the lines it stands for.

## The system

The collector sniffs RADIUS packets (TZSP over UDP, or a raw socket), decodes
them, and streams them to WebSocket clients. A test harness in the same process
sends captured requests on to an upstream RADIUS server and joins them with its
answers, records requests to SQLite, replays recordings, makes up sessions
(synth), and keeps a catalog of NAS and clients it has seen.

| Component | State | Operations | Talks to |
|---|---|---|---|
| capture, tzsp | a bounded channel of events | read, parse, enqueue | orchestrator |
| orchestrator | none | per event: record, forward, decode, learn, publish | recorder, forwarder, pipeline, catalog, hub |
| forwarder | configuration; two sockets; the map of pending requests and the ring of conversations | `MaybeForward`, `SetConfig`, `readLoop`, sweep, list, clear, `Close` | upstream server, settings, orchestrator (`emit`) |
| recorder, store/recordings | active recording, next number, last time; two tables | `Start`, `Stop`, `MaybeRecord`, delete | SQLite |
| replay, synth | cancel function, status, a goroutine | `Start`/`Run`, `Stop` | forwarder, orchestrator (`emit`) |
| stream hub, WebSocket handler | map of clients with their queues | `Run`, `Add`, `Remove`, `UpdateFilter`, `Publish`; three goroutines per client | clients |
| catalog, store/nas, clients | two tables | `Observe`, CRUD, import, export | SQLite, forwarder (secrets) |
| radiusdecode, pipeline | dictionary | parse, decode, rewrite, sign, build | everybody |
| api, config, discovery, webui | none | HTTP handlers, start | everybody |

What is hard here is concurrency. The orchestrator's goroutine, a replay, a synth
run, a reader per socket, the sweeper, and one goroutine per HTTP request call the
same objects, each of which has a mutex and lets go of it between two steps of one
operation: an identifier is chosen in one critical section and taken in the next, a
configuration is read before the socket is opened, a packet is numbered before it is
stored, a cancel function is taken out before it is called. The network loses,
delays, reorders and repeats answers, UDP writes fail, the store refuses, the process
stops and starts again. `PROJECT.json` lists these hazards with the line where each
bites.

What makes each component correct:

- forwarder: nobody waits for ever and nobody waits unseen; an answer is recorded on
  a request of its channel and identifier, once; sockets are neither leaked nor
  shared; memory, store and sockets agree after an update;
- recorder: numbers are unique and without repetition, differences of time fit the times
  to the millisecond, counts count, a stopped recording is closed;
- engines: a run that is told to stop stops, within the packet or session it is at; the
  status is that of the run;
- hub: a queue is closed once and never sent to afterwards; a client gets what its
  filter lets through in order and without gaps, or is removed;
- packets: what is taken out of a datagram is what was put in; what is sent on is
  authentic, carries the identifier it is tracked by, and makes the server answer here;
- the way of an event: requests are recorded and forwarded once, in the order in which
  they were captured; answers never are; no failure holds up what comes behind;
- catalog: a NAS is named for what was seen of it and listed once; autofill only adds;
  an import forgets nothing it was not told to, and takes back what was exported.

## The modules

| Module | Models | Reads |
|---|---|---|
| `Channels` | the two RADIUS channels | forwarder.go |
| `Conversations` | the conversation table: one operator per critical section of `convMu` | forwarder/conversation.go |
| `UpstreamSockets` | configuration, settings row, two socket paths; one operator per critical section of `mu` or `sockMu`, or access to the store | forwarder.go |
| `Forwarder` | composes the two: calls of `MaybeForward`, readers, sweeper, handlers | forwarder.go, api/server.go |
| `Exchange` | what the forwarder promises of a request, without table, sockets and locks | forwarder/conversation.go, forwarder.go |
| `Packets` | rewriting and signing a captured request, with digests as symbols | radiusdecode/rewrite.go, sign.go, attrs.go, packet.go; forwarder.go |
| `Wire` | extends `Packets`: octets to packets and back; datagrams, frames, packets that are built | radiusdecode/packet.go, build.go; capture; tzsp/parser.go; synth/engine.go |
| `Engines` | replay and synth (the variable `kind` says which) | replay/engine.go, synth/engine.go |
| `Recorder` | the recorder and its two tables | recorder.go, store/recordings.go, 001_init.sql |
| `Pipeline` | extends `Recorder`: listeners, the bounded channel, the orchestrator, who emits, signal and restart | runtime/orchestrator.go, capture, main.go |
| `Hub` | the hub and the WebSocket handler's goroutines | stream/hub.go, stream/http.go |
| `NASNames` | the names of NAS and how they merge | catalog/name.go |
| `Catalog` | the tables of NAS and stations, autofill, handlers, import and export | catalog/autofill.go, store/nas.go, clients.go, catalog.go, api/server.go |
| `MC...` | instances for TLC | |
| `ForwarderProofs` | theorems about `Forwarder` and its refinement of `Exchange`, with the lemmas about `Conversations` and `UpstreamSockets` | |
| `PacketsProofs` | theorems about `Packets` and `Wire` | |
| `EnginesProofs`, `RecorderProofs`, `PipelineProofs`, `HubProofs`, `CatalogProofs` | theorems about the modules they are named after | |
| `DataLemmas` | induction over numbers and the joining of sequences: lemmas the proofs share | |

An action is what one goroutine does between two points at which another may run: a
critical section, one statement (or transaction) of the store, a socket or channel
operation. So the interleavings of the model are those of the code.

**Forwarder.** A conversation is a member of `Conv`, one per call of `MaybeForward`;
`pc[c]` says where the call is: configuration copied (`path`), socket obtained
(`prepare`), identifier chosen (`track`), tracked (`write`), returned (`done`).
`slot`, `target` and `via` are the locals it carries across. `pending`, `convs`,
`status`, `response` and `key` are the fields of the same names; `overdue` says for
whom `responseTimeout` has passed. A packet is its channel and identifier; whether
it can be rewritten (`PrepareForward`) is a choice, because it depends on the code, on
a Message-Authenticator and on a secret in the catalog. `wire` remembers on which
socket a request was sent; an answer to it may arrive there any number of times, at
any time, or never. `handleResponse` is two critical sections, with decoding between.
`SetConfig` is assign, read, write, read, one socket, the other socket. `New` runs
before anything else can (`Booted`); after `Close` handlers may still be running, and
the model lets them.

**Exchange.** The abstract life of a request: it is asked once under a channel and
identifier, is sent or fails, and ends once: an answer to a request of the same key is
recorded on it, it times out, or it is forgotten. `Forwarder` implements it under the
mapping of its end: a request is `open` while it waits in the table *or* its answer
has been taken from the table and is being decoded (`OpenRequests`), and `sent` once
it is on the wire. `Exchange` is loose where the code is: a request that a second one
displaces times out, one that falls off the ring or is cleared ends with no outcome,
and an error may be overwritten by an answer, for finishError and a reader race.

**Packets.** A packet is its code, identifier, Authenticator and attributes; a value
is its length with its octets, or a digest, which is a symbol for what it was computed
from (`MD5(p, s)`, `HMAC(p, s)`). So a signature is right exactly if it was computed
from the packet it is in, which is all that the properties ask. `secretOf` is the
column `nas.secret`; `MaybeForward` looks it up under the NAS the packet names, else
under the host that sent it, which `ForwardBytes` does not know. What is sent may be
captured again (`CaptureOwn`), which the raw sniffer does. Packets that are not
rewritten are sent with whatever octets follow their length; those are left out here
and kept apart in `Wire`.

**Wire.** Octets are numbers. `Wire` takes apart TZSP datagrams and frames, parses and
encodes packets, and builds the synth engine's, then goes on with `Packets`. What
gopacket makes of a frame is external: UDP in IPv4 without options. Lengths wrap at 8 and
16 bits as in the code. Each loop of the code is a recursive function of an offset, with
one operator for what the body does at an offset, given the function for the later ones
(`AVPsFrom`, `TagsFrom`). An input tells what packet it carries (`of`), or that nothing
is known of it; `Datagrams` and `Frames` say what that means, for any octets.

**Pipeline.** A listener takes the time of an event, then waits for room in the
channel; one goroutine takes events out; engines that mirror and the forwarder's
readers process theirs in their own goroutines. To process is `MaybeRecord` in its
two steps (the operators of `Recorder`), then the hand-over to the forwarder, then
decoding, catalog and hub, which end it. An event's time is its place in `emitted`. A
listener may pick up requests and answers. `Interrupt` is the signal: `select` may
still find something to do, and a listener goes on receiving until it sees the context,
when a read times out or while it waits for room (`gone` says who has). `PipelineRestart`
is a crash or an end of the process at any point.

**Engines.** What a goroutine does comes in units, a packet of a recording or a session
of synth, each a sequence of *wait* (timer or context) and *send*, built from the request
as the loops of `run` do it. It polls its context before each unit (`Check`) and nowhere
else: in a *wait* the `select` may take the timer though the context is done, because both
can be ready when it is reached (a short interval, or a goroutine that was preempted) and
Go then chooses either. So a context that is done is sure to be noticed only at the next
unit: after Stop a replay may send one packet more, a session of synth may run to its end
if every timer wins. `Stop` is two steps, because the cancel function is called after the
mutex is released.

**Recorder.** `MaybeRecord` is one step under the mutex and one in the store,
`Stop` likewise. The foreign key with its cascade and the primary key are conditions
of the store's operators. `Restart` keeps the rows and forgets everything else. The time
of a packet is stored as it is, the difference in whole milliseconds, rounded towards
zero (`Milliseconds`, recorder.go:82), while `lastTimestamp` keeps its full precision. So
each remainder is lost: the differences of a recording do not add up to its length, and of
packets less than a millisecond apart `preserve_timing` replays all at once. No document
promises more, and `DeltasFitTimes` bounds the error of each difference.

**Hub.** A message is its number, a filter the set of kinds it lets through. The
handler adds the client, writes the hello, starts the writer, reads subscriptions,
then removes the client and closes the connection. The writer takes a message from the
queue in one step (`hand`) and writes it in another, so a client has one message more
under way than its queue holds. `Publish` drops a message for a
full queue and starts a goroutine that removes the client. `owed` and `missed`
are history.

**Catalog.** A table is the sequence of its rows in the order of SQLite's scan. One
`Observe` is three statements for the NAS (read for the name, look for the row, update
or insert) and two for the station; the goroutines that decode packets run it without
a lock, so other calls, edits and imports come between. A name is text of which the code
reads one thing, whether it begins with `PROXY-` (name.go:32); so `ProxyNames` are a part
of all names, and an identifier or a user's name can be one of them. The address of a NAS
can be, too, if a request has a malformed NAS-IP-Address; what such a NAS is called is
left out of `NamesAreObserved`. Any statement may fail; after
a failing read the code goes on as if there were no row. `seen` is history: what was
observed of a row since it was learned, or nothing once a user has named it;
`disturbed` says that two calls met over one NAS or station, that an edit came into a
call, or that a read failed. The properties about names, user names and single rows are
promised only before that: afterwards they do fail (the name that was read is written
back over a newer one, and PROXY-VX is forgotten), which is why they have that condition.
An export lists NAS and clients in two statements (store/catalog.go:51-55); the model takes
both at one instant, so an export that is mixed of two moments is not in it.

Left out of the models: counters, decoded copies and names of conversations (nothing
depends on them); durations (a timer may fire whenever it is armed, `StartedAt` is
the time of capture and may be long ago); logging; the bytes of packets, except in
`Wire`.

## The runs

| Run | Instance | Shows |
|---|---|---|
| `table` | 3 calls, both channels with the same identifier, 3 identifiers, ring of 2 | the inductive invariant `IInv`; whoever waits is listed; no more wait than the ring holds; `allocateIdent` always finds a free identifier; a listed "pending" is an orphan only if two got the same identifier; an answer has the key of what it is recorded on; an outcome stands; all this implements `Exchange` |
| `config` | a call, a handler, 3 sockets, 3 configurations | the open sockets are those of the paths; when updates run one at a time and the write succeeds, memory, store and sockets agree |
| `live` | 2 calls, ring of 1 | whoever waits stops waiting, until `Close` |
| `engines` | 2 handlers, 2 goroutines, replays of two packets that wait or loop, every synth pattern with sessions of up to three packets | a cancel function is in one place only; after cancellation one packet of a replay at most, of synth the rest of a session; Stop reaches every run, and the status is right, if no Start met another run; a cancelled run ends |
| `pipeline` | a listener, the orchestrator and one emitter, a channel of 2, 3 events of which two are less than a millisecond apart, 2 recordings, a handler | of `Recorder`: counts, unique numbers, differences that fit the times, a stopped recording is never active; what one listener captured is recorded and forwarded in order, whatever goes past it; captured requests are forwarded once and recorded once, mirrored ones twice at most, answers never; a recording has no gap but where the store refused; every event gets its turn until the signal |
| `packets` | both codes, 8 shapes of attributes as they come and signed, 2 secrets, 2 addresses in the catalog, sockets with IPv4, IPv6 and no address; every body of up to 3 octets with right and wrong lengths; tags, frames, values of up to 254 octets | what is sent is as authentic as what was captured, and is signed by the secret if that is known; it carries its identifier, names this host, and is else unchanged; what parses encodes to the same octets; what is built says what was asked; the packet in a datagram comes out of it |
| `hub` | 2 clients, queues of 2, 3 messages | no send on a closed queue and no second close; no gap unless the queue was full; order; the slow are removed; the writer follows its handler |
| `catalog` | 2 goroutines, 6 packets, one with an identifier that begins with `PROXY-`, 2 domains and VX, 2 rows, 2 edits | names are those of what was observed, each NAS and station once, autofill only adds, a merge forgets nothing, an export can be imported |

Four runs expect a violation: they check what the documentation or a comment says,
and TLC shows a behaviour of the code that does otherwise.

| Run | What is said | The behaviour |
|---|---|---|
| `settles` | docs/harness.md:11, a request is joined with its answer or times out | of two requests with one identifier the first is displaced; its failing write deletes the entry of the second, which stays pending |
| `slots` | docs/harness.md:25 and docs/operations.md:64, 256 requests may be in flight on auth and 256 on acct before slots are overwritten | the ring of 200, of both channels together, takes its oldest conversation out of the table although identifiers of its channel are free; its answer is dropped |
| `engines_stop` | README.md:77, `/replay/stop` stops the replay | the old goroutine clears the new replay's cancel function |
| `sign` | sign.go:9, the Authenticator of an Accounting-Request is the MD5 of the packet with a zero authenticator and the secret | of one that has a Message-Authenticator, it is computed while that is still zero, which is then filled in |

The models contain three more behaviours that the documentation does not expect, and
that no run is spent on: a call that has copied the configuration before the forwarder
was switched off still sends (forwarder.go:163; docs/harness.md:15 says nothing leaves);
a packet that was numbered before Stop is stored, and counted, after it (recorder.go:99;
docs/harness.md:33 says Stop fixes the count); a client that was removed for being slow
keeps its connection (hub.go:113; docs/websocket.md:50 says it is disconnected). And one
the `sign` run shows the half of: Authenticator and Message-Authenticator cannot both
cover the other's final value, so the two sentences of the comment at sign.go:9-10
exclude each other for such a packet; the code keeps the second.

`InFlightBounded`, which the run `table` checks, is the bound the code does keep: 200
over both channels. It contradicts the two sentences about 256 per channel: `slots` shows
the request that is lost by it. Nor is the ring only for display, as docs/harness.md:15
has it ("this is not a buffer for load"): it decides who may still be answered. The
property is kept because the allocation of identifiers rests on it.

**What the conditions leave out.** Some properties hold under a condition, and the
condition excludes a hazard that is real: the hazard then is in the model, but no property
forbids it, because the code does it.

| Property | Holds | Leaves out |
|---|---|---|
| `SerialUpdatesAgree` | for updates that run alone, whose write succeeds, and that no call with the old configuration crosses | memory, store and sockets that disagree for good after any of these (forwarder.go:120, 129, 184) |
| `StoppableApart`, `StatusApart` | unless a Start met another or a living run | the cancel function that an old goroutine clears (`engines_stop`), and a new synth run that the old one's deferred Stop ends (synth/engine.go:113) |
| `NamesAreObserved`, `LearnedOnce` | while the catalog is undisturbed | a name written over a newer one, a NAS inserted twice (catalog/autofill.go:46, store/nas.go:131) |
| `StationsOnce` | of stations that were learned or imported | a MAC entered by hand in another notation (store/clients.go:48) |
| `OrphanOnlyByCollision` | unless two requests have one identifier | the collision (forwarder.go:198) and what follows from it (`settles`) |
| `AnswerMatchesKey`, `AllocationIsFree` | of channel and identifier, and at the moment of the check | an answer to the request that had the identifier before; an identifier that is taken between check and use |

That a packet is inserted and counted together (store/recordings.go:104), and that an
import undoes everything if one item fails (store/catalog.go:98), is a transaction of
SQLite and one step of the models; `CountsPackets` and `MergeForgetsNothing` rest on it.

**Bounds.** Three calls are enough for a displacement, an eviction and a free-slot
search that skips; the ring (200 in the code) is shorter than the identifier space
(256), which is `ConversationsAssumption`, as in the code. The run `table` stops at
`Close` (`NotStopped`), `config` stops a call once it has its socket (`OnlyPaths`): what
each leaves out the other covers, and the proofs cover both. `slots` has a ring of 2 and
3 identifiers, in the same order as 200 and 256. In `Engines` `late` counts the packets
since the context is done; units of one and of three packets tell a run that stops at the
next poll from one that does not. Two goroutines are enough for the two generations that
disturb each other.

`Recorder` is checked as `Pipeline` drives it, which is how the process does; that every
behaviour of the one is a behaviour of the other is a theorem (`PipelineUsesRecorder`).
Two recordings are one that is deleted, or that a late packet belongs to, while the next is
active. Two ticks are a millisecond, so that of three times two are less than one apart,
and what the emitter sends past a captured packet makes a negative difference. A channel of
two holds two captured requests in a row, and holds up the listener with a third in its
hands. Three bounds keep this small: one mirrored packet and one answer among the three
events (`FewEmitted`), which is what goes past the captured ones; with a second recording
two events and no answer (`FewRecorded`), which is a packet of each, or two of one; a
signal comes with one recording and two events at most (`FewInterrupted`), for after it
nothing new is promised. The proofs have none of them.

In `hub` a queue of two with a message in the writer's hand has an order that could go
wrong, and three messages fill it and bring one more, as long as the writer takes none.
In `packets` what arrives is dealt
with before anything else happens (`WireNext`): input is a value, nothing else in the
system depends on when it comes; the two identifiers are the packet's own and another.
Bodies of three octets hold every way in which an attribute's header, length and
end can disagree with the packet's. A NAS
and a station, or two NAS, fit in the two rows of `catalog`, which is
what it takes to repeat a NAS or a station; ids are not reused, so a row that is
deleted counts. Symmetry is used for calls,
sockets and the goroutines of `catalog`, in runs without liveness only.
The checks of deadlock are off: calls, runs, messages and recordings are finitely many
in an instance, and the process may be stopped.

**Fairness.** `Forwarder`: time passes, the sweeper's ticker fires while it is not
closed, a call that has begun and a reader that holds an answer go on (Go's scheduler
runs what can run; none of these waits for another). Nothing is assumed of the network,
of new calls or of the API. `Engines`: a goroutine goes on and its timers fire; no
handler need ever call. `Hub`: a goroutine that was started runs, a writer whose queue
is closed returns, a handler that leaves closes its connection, a write to a closed
connection fails; a client may never read and never go away. `Pipeline`: a goroutine
that processes an event goes on, the orchestrator takes what is in the channel, and a
listener that waits for room gets it (strong fairness: Go's channels serve senders in
the order in which they began to wait). The store answers, with success or error; that
`MaybeForward` and the catalog return is in that assumption too. Nobody need emit, start
a recording or send the signal.

## The proofs

The theorems hold for every value of the constants that meets the `ASSUME` of the
module: any number of calls, sockets, identifiers, handlers, runs, recordings,
listeners, clients, queues and rows, any packets and messages. The counters that a run
bounds (`MaxSeq`, `MaxEvents`, `MaxMessages`, `MaxRows`, `MaxEdits`) are any natural
numbers. What the assumptions say is: `None` is nothing else; a parameter has its type;
the ring is shorter than the identifier space and neither is empty; a channel and a
queue have a place; every packet that is captured is well formed; a socket's address has
4 or 16 octets; what arrives is octets, and an identifier is a number; an address may
serve as a name, and an RF-Domain gives one behind the prefix; a millisecond has a tick at
least; normalising a station's address twice is normalising it once, and the
decoder has done it.

Each component has one inductive invariant, stated in the component's own module after
its properties (that of `Packets`, in `PacketsProofs`, is made of the lemmas about its
operators). `Init` implies it, every action preserves it (one lemma for each action,
or for each group of actions that touch the same variables), and it implies the
properties. TLC can check those in the modules: `IInv` is an invariant of the run
`table`, and adding `INVARIANT RecorderInv`, `PipelineInv`, `HubInv`, `EnginesIInv`,
`OrphansInv`, `UpdatesInv`, `CatalogInv` or `EventIsMade` to the configuration of the
component's run finds no violation.

| Module | Theorem | States |
|---|---|---|
| `ForwarderProofs` | `Invariance`, `TypeCorrect` | `IInv`, `TypeOK` |
| | `WaitingAreListed`, `InFlightIsBounded`, `AllocationsAreFree` | `WaitingIsListed`, `InFlightBounded`, `AllocationIsFree` |
| | `SocketsAreOwned`, `SerialUpdatesDoAgree` | `PathsOwnSockets`, `SerialUpdatesAgree` |
| | `AnswersMatchKeys`, `OutcomesStand`, `FailuresAreUnsent`, `OrphansOnlyCollide` | `AnswerMatchesKey`, `OutcomeStands`, `FailuresUnsent`, `OrphanOnlyByCollision` |
| | `ForwarderImplementsExchange` | `ImplementsExchange` |
| `PacketsProofs` | `SentIsAuthentic`, `AnswersComeBack` | `StillAuthentic`, `AnswerComesBack` of `Packets` |
| | `ParsedIsAuthentic`, `ParsedComesBack` | the same of `Wire`, whose requests are parsed from octets |
| | `ParsedOctetsAreKept`, `BuiltPacketsSayIt`, `CarriedPacketsAreUnwrapped` | `OctetsKept`, `BuiltAsAsked`, `Unwraps` |
| `EnginesProofs` | `CancelsAreHeldOnce`, `CancelledWithinUnit` | `EnginesInv`, `RestOfUnit` |
| | `RunsCanBeStopped`, `StatusIsOfTheRun` | `StoppableApart`, `StatusApart` |
| `RecorderProofs` | `CountsAreRight`, `NumbersStayUnique`, `DeltasAlwaysFit`, `StoppedStaysClosed` | `CountsPackets`, `NumbersAreUnique`, `DeltasFitTimes`, `StoppedIsClosed` |
| `PipelineProofs` | `CaptureOrderKept`, `NothingEverGoesRound`, `RecordingsAreComplete` | `CaptureOrder`, `NothingGoesRound`, `RecordingIsComplete` |
| | `PipelineUsesRecorder` | `PipelineSpec => Spec` |
| `HubProofs` | `QueuesAreOwned`, `NothingIsLostSilently`, `ClientsGetInOrder` | `HubOwnsQueues`, `NothingLostSilently`, `InOrder` |
| `CatalogProofs` | `CatalogInvariance`, `NamesStayObserved`, `EachLearnedOnce`, `StationsListedOnce`, `ExportsReturn` | `CatalogInv`, `NamesAreObserved`, `LearnedOnce`, `StationsOnce`, `RoundTrip` |
| | `AutofillAdds`, `MergesForgetNothing` | `AutofillOnlyAdds`, `MergeForgetsNothing` |

**The forwarder's table.** That whoever waits is listed is not inductive by itself:
`dropOldest` deletes the key of what it drops, so one needs that an entry is under its
conversation's own key and says "pending" (`EntriesWait`). That an outcome stands needs
that what a reader holds has left the table, by its hands only, and has no answer yet
(`ReadersInOrder`, `Unanswered`); that an answer's key is right needs that a request went
out on a socket of its own channel (`OnItsChannel`), which in turn needs that a call
carries a socket of its slot's channel from `ensurePath` to the write (`CallsInOrder`).
The bound on what waits follows by counting: the entries map one-to-one to conversations
(each is under its own key), these to places of the ring. Allocation follows by
pigeonhole: the ring is shorter than the identifier space, so one of a channel's
identifiers is free. `ForwarderProofs` begins with the lemmas about the parts: each
operator of the table preserves `TableInv`, each socket operation `PathsOwnSockets`.

**Orphans.** `OrphanOnlyByCollision` needs `RingOnce` next to `IInv`: the ring lists a
conversation once, and only those that were tracked. A step that takes the entry of a
waiting conversation away settles it, drops it from the ring, or hands it to a reader;
the exceptions delete by key an entry that a second conversation put under the same one
(`finishError`, `dropOldest`), which is the collision.

**Configuration.** `UpdatesInv` says of updates that met no other, no failing write and
no call with an old configuration: one goroutine at most is at work; what it carries is
still the configuration; a call that is about to open its path has the current target;
and whatever of the three (settings row, authentication path, accounting path) the
goroutine at work has behind it agrees with memory. When nobody is at work this is
`SerialUpdatesAgree`.

**Exchange.** Initial states map to initial states; every step of `Forwarder` maps to a
step of `Exchange` or to a stutter. Most steps need only that `open` does not grow:
whoever waits afterwards waited before, and an answer that a reader takes keeps its
request open (`MatchAnswer` is a stutter). `RecordAnswer` needs that the request it
records on has no answer and is pending or in error (`ReadersInOrder`) and that the answer
is one to a request that was sent under the same key. `Fail` needs that a request that
failed was not sent, which `IInv` does not say: `FailuresAreUnsent` is a second
invariant, proved on top of the first.

**Packets.** What is in `sent` was made by `PrepareForward` from the `request` in hand
(`SentWasPrepared`, with the packet well formed); the rest is about the operators:
`SetAttribute` changes the first attribute of its type or adds one (`SetAttributeSets`),
signing changes only the value of a Message-Authenticator and the Authenticator, and
leaves a signature that verifies (`SignPacketSigns`). The digests are records that hold
what they were computed from, so that they are right if it is the same; that no two
packets share a digest is assumed by this representation, not of MD5.

**Wire.** The invariant is that the event in hand is what was made of the input in hand
(`EventIsMade`), and that what was sent was prepared (`SentWasPrepared`); the work is in
what the parsers compute of octets of any length. Two sequences that are laid out alike
are the same (`Laid`), so `OctetsKept` follows from where each attribute begins and ends:
what is parsed from an offset is written as what stands behind it (`ParsedPacketIsKept`).
The other way, what is written of attributes that fit is read as these attributes
(`EncodedPacketIsRead`), and attributes that say one value of a type each still do after
one more is added (`TellsJoin`), which gives `BuiltAsAsked`. Tags are skipped to where the
frame begins (`TagsAreSkipped`, `TagsGiveTheFrame`), which gives `Unwraps`. What parses is a packet of
octets, of the kind `Packets` is about, whence the two theorems of `Packets` hold of it.
The proof found that `BuiltAsAsked` must ask of the session's name too that it fits its
attribute: the run had no long one. It has one now, of 254 octets, and `Fits` asks it.

**Engines.** `HeldToBeCalled`: who has taken a cancel function out of `e.cancel` is
about to call it, nobody else has it, and it is not stored again; this is what makes
"in one place only" inductive. `WithinUnit`: what a run has sent since its context is
done and what is left of the unit in hand make no more than one unit of its job; it
begins another only after a poll, which then ends it. A unit of a replay has one packet.
No length of a recording or a session matters to that. `OneAtATime`: unless a Start met another Start or a living run
(`overlapped`), there is one run that is alive, or one Start on its way.

**Recorder.** A packet is numbered in one critical section and stored in another step,
so the invariant is about what is stored or in flight together (`Numbered`):
`MemoryIsCurrent` says that what belongs to the active recording is numbered below
`seq`, and that the one numbered just below has the time in `lastTimestamp`. Uniqueness and
the fit of the differences follow without any order among the rows that arrive.
`IdsAreUsed` says that an id is given once, `ActiveIsKept` that whoever stops a
recording took it out of memory first; the crash, the refusal and the cascade of
a deletion then preserve the counts.

**Pipeline.** `LineInOrder` says that the events of one listener stand in one line:
those that are numbered or forwarded, the one in the orchestrator's hands, those in the
channel, the one the listener holds. `StagesAgree` ties where a goroutine is to what it
has in hand, and says that no event is in two hands or gets two numbers. `MirroredTwice`
counts the hand-overs of mirrored packets, `RecordedBeforeForward` says what a recording
already has of the request that is about to be forwarded. `PipelineUsesRecorder` is a
step simulation: every step of `Pipeline` is one of `Recorder` or leaves its variables
alone, so the recorder's theorems hold as the orchestrator, the engines and a restart
drive it. The inductive invariant extends `RecorderInv`.

**Hub.** `WriterAfterHello`: a connection has a writer once the hello is on it, and
nobody else writes from then on; `OneInHand`: it holds one message at most;
`QueuesInOrder`: what was written, what the writer holds, what is queued and the number
that comes next stand in one line.

**Catalog.** The invariant has three parts. `Keyed`: no two rows have one id (both tables
draw from one counter), no two stations one address, all ids are below the next. While
the catalog is undisturbed, `CallsApart`: two calls that are under way are about
different NAS and stations; and `ReadsHold`: what a call has read (that there is no row,
which row, which name follows from it) is still so when it writes, because whatever
another call writes is a row of another address. `NamesAreObserved` then is algebra of
names: merging the observed name of a history with what the next packet says is the
observed name of the longer history (`MergeIsObserved`, with `NewIsObserved` for the
first). A history is the set of names behind the prefix, whether they came of an RF-Domain
or of an identifier, and the first identifier without it. An import is a fold over its items; what it does is proved by induction over
them, in the form of a least counterexample over the recursive function that `FoldLeft`
is: each item keeps the tables keyed and leaves only rows that were there or were made in
the normal notation (`Kept`), in mode merge keeps every row in its place with what it
has (`Extended`), and in mode replace makes the rows of an export again one by one
(`Remade`). `AutofillOnlyAdds` and `MergeForgetsNothing` are proved as action properties
from the same invariant.

**Induction over data.** The induction theorems of the library take an operator, which
the provers cannot supply. `DataLemmas` says the same of sets: a set of numbers that has
0, and with each number the next, has them all (`NatSteps`); a set of numbers that is not
empty has a least member (`MinNat`). So what is to be shown of a recursive function is
taken for all numbers at which it holds. The equation of a recursive function is not
granted either: that one function satisfies it is shown by the same induction, over the
octets that are left, since each step of a loop goes on behind its offset. `FoldLeft` and
`FlattenSeq` of the community modules are recursive functions of the same kind.

Only model-checked: everything temporal under fairness (`WaitingEnds`, `CancelledEnds`,
`EventsAreProcessed`, `SlowIsRemoved`, `WriterFollows`), which is out of the prover's
reach, as is `ENABLED`. The four violations are TLC's too.

## Not modelled

Decoding for display: dictionaries (`dictionary.go`, with its cache that several
goroutines write to without a lock), accounting and identity snapshots, the pipeline's
`Transform`, and the filter's comparison of strings; they are pure functions whose
results nothing in the system depends on, but for the names that `Catalog` takes as
given. Discovery, static files, environment variables (the channel and the queues are
taken to have a place at least), and the REST API's parsing and status codes.
Durations: that a replay keeps its rate, that a recording of one packet that loops is
sent without pause (replay/engine.go:110). An answer of one byte, whose identifier is read
beyond its end (forwarder.go:376): in `Forwarder` an answer is the request it answers.
Two WebSocket clients that arrive in one nanosecond and share a name (stream/http.go:43).

## Plan

1. Done: the forwarder with its refinement of `Exchange`; engines, recorder, hub,
   catalog; packets, octets, the way of an event; the proofs of all their safety
   properties.
2. Left: decoding for display, with the race on the dictionary's cache, and answers too
   short to hold an identifier, which need lengths in `Forwarder`.

## How to run

    tlc -workers 2 -config MCForwarder_table.cfg MCForwarder.tla
    tlapm ForwarderProofs.tla

`RecorderProofs`, `PipelineProofs`, `HubProofs`, `EnginesProofs`, `PacketsProofs`,
`CatalogProofs` and `DataLemmas` are checked in the same way; the largest take four or five
minutes.

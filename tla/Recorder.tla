------------------------------ MODULE Recorder ------------------------------
(***************************************************************************)
(* internal/recorder and the recordings of internal/store: while one       *)
(* recording is active, every request that is captured is stored under it  *)
(* with a number and the time since the request before it, in whole        *)
(* milliseconds.                                                           *)
(*                                                                         *)
(* The recorder's mutex guards only its memory: Stop and MaybeRecord let   *)
(* go of it before they reach the store, so the two may cross.  The store  *)
(* has one connection: each statement, and the transaction of              *)
(* AppendRecordingPacket, is one step.  The process may die at any point   *)
(* and start again; the rows stay.                                         *)
(***************************************************************************)
EXTENDS Integers, FiniteSets

CONSTANTS None,
          Recording,  \* the recordings that may be created
          Caller,     \* goroutines that call MaybeRecord
          Handler,    \* HTTP handlers that call Stop
          Time,       \* times at which packets are captured
          PerMS,      \* the clock's ticks in a millisecond
          MaxSeq      \* bound: packets numbered in one recording

ASSUME RecorderAssumption ==
    /\ None \notin Recording \cup Time
    /\ None \notin [stopped : BOOLEAN, packet_count : Nat]
    /\ None \notin [recording : Recording, seq : Nat, time : Time, delta : Int]
    /\ Time \subseteq Int
    /\ PerMS \in Nat \ {0}
    /\ MaxSeq \in Nat

VARIABLES activeID,       \* the active recording, or None
          seq,            \* the number of its next packet
          lastTimestamp,  \* the time of its last packet, or None
          recordings,     \* Recording -> its row, or None
          packets,        \* the rows of recording_packets
          append,         \* Caller -> the row it is about to append, or None
          stopping,       \* Handler -> the recording it is about to stop, or None
          used            \* history: the recordings ever created

memoryVars == <<activeID, seq, lastTimestamp>>
storeVars == <<recordings, packets>>
vars == <<memoryVars, storeVars, append, stopping, used>>

Row == [stopped : BOOLEAN, packet_count : Nat]
Packet == [recording : Recording, seq : Nat, time : Time, delta : Int]

Init ==
    /\ activeID = None /\ seq = 0 /\ lastTimestamp = None
    /\ recordings = [r \in Recording |-> None]
    /\ packets = {}
    /\ append = [c \in Caller |-> None]
    /\ stopping = [h \in Handler |-> None]
    /\ used = {}
----------------------------------------------------------------------------
(* The store. *)
StoreUnchanged == UNCHANGED storeVars

CreateRecording(r) ==
    /\ recordings' = [recordings EXCEPT ![r] = [stopped |-> FALSE, packet_count |-> 0]]
    /\ UNCHANGED packets

(* A recording that is not there or is stopped already is an error. *)
StopRecording(r) ==
    IF recordings[r] # None /\ ~recordings[r].stopped
    THEN recordings' = [recordings EXCEPT ![r].stopped = TRUE] /\ UNCHANGED packets
    ELSE StoreUnchanged

\* Mutant: the packets stay.
DeleteRecordingOnly(r) ==
    /\ recordings[r] # None
    /\ recordings' = [recordings EXCEPT ![r] = None]
    /\ UNCHANGED packets

(* ON DELETE CASCADE takes the packets along. *)
DeleteRecording(r) ==
    /\ recordings[r] # None
    /\ recordings' = [recordings EXCEPT ![r] = None]
    /\ packets' = {p \in packets : p.recording # r}

(* The transaction fails if the recording has been deleted (foreign key)   *)
(* or the number is taken (primary key).                                   *)
Taken(p) == \E q \in packets : q.recording = p.recording /\ q.seq = p.seq
AppendRecordingPacket(p) ==
    IF recordings[p.recording] = None \/ Taken(p)
    THEN StoreUnchanged
    ELSE /\ packets' = packets \cup {p}
         /\ recordings' = [recordings EXCEPT ![p.recording].packet_count = @ + 1]
----------------------------------------------------------------------------
(* Start holds the mutex until the row is there. *)
Start(r) ==
    /\ activeID = None /\ r \notin used
    /\ CreateRecording(r)
    /\ activeID' = r /\ seq' = 0 /\ lastTimestamp' = None
    /\ used' = used \cup {r}
    /\ UNCHANGED <<append, stopping>>

\* Mutant: the recording is stopped before it is no longer active.
StopKeepsActive(h) ==
    /\ stopping[h] = None /\ activeID # None
    /\ stopping' = [stopping EXCEPT ![h] = activeID]
    /\ UNCHANGED <<memoryVars, storeVars, append, used>>

(* Stop: under the mutex, then in the store. *)
Stop(h) ==
    /\ stopping[h] = None /\ activeID # None
    /\ stopping' = [stopping EXCEPT ![h] = activeID]
    /\ activeID' = None /\ seq' = 0 /\ lastTimestamp' = None
    /\ UNCHANGED <<storeVars, append, used>>

StopStores(h) ==
    /\ stopping[h] # None
    /\ StopRecording(stopping[h])
    /\ stopping' = [stopping EXCEPT ![h] = None]
    /\ UNCHANGED <<memoryVars, append, used>>

(* Duration.Milliseconds: what is not a whole millisecond is cut off. *)
Milliseconds(d) == IF d >= 0 THEN d \div PerMS ELSE -((-d) \div PerMS)
Numbering(now) ==
    [recording |-> activeID, seq |-> seq, time |-> now,
     delta |-> IF lastTimestamp = None THEN 0 ELSE Milliseconds(now - lastTimestamp)]

\* Mutant: the number is not counted up.
MaybeRecordSameNumber(c, now) ==
    /\ append[c] = None /\ activeID # None /\ seq < MaxSeq
    /\ append' = [append EXCEPT ![c] = Numbering(now)]
    /\ lastTimestamp' = now
    /\ UNCHANGED <<activeID, seq, storeVars, stopping, used>>

\* Mutant: only the first packet sets the time.
MaybeRecordFirstTime(c, now) ==
    /\ append[c] = None /\ activeID # None /\ seq < MaxSeq
    /\ append' = [append EXCEPT ![c] = Numbering(now)]
    /\ seq' = seq + 1
    /\ lastTimestamp' = IF lastTimestamp = None THEN now ELSE lastTimestamp
    /\ UNCHANGED <<activeID, storeVars, stopping, used>>

(* MaybeRecord: under the mutex, then in the store.  now is the time of    *)
(* capture, which need not be later than that of the packet before; it is  *)
(* kept as it is, only the difference is cut.                              *)
MaybeRecord(c, now) ==
    /\ append[c] = None /\ activeID # None /\ seq < MaxSeq
    /\ append' = [append EXCEPT ![c] = Numbering(now)]
    /\ seq' = seq + 1 /\ lastTimestamp' = now
    /\ UNCHANGED <<activeID, storeVars, stopping, used>>

RecordAppends(c) ==
    /\ append[c] # None
    /\ AppendRecordingPacket(append[c])
    /\ append' = [append EXCEPT ![c] = None]
    /\ UNCHANGED <<memoryVars, stopping, used>>

(* The store refuses: the recording stays open, though it is not active. *)
StopFails(h) ==
    /\ stopping[h] # None
    /\ stopping' = [stopping EXCEPT ![h] = None]
    /\ UNCHANGED <<memoryVars, storeVars, append, used>>

(* The store refuses for another reason; the packet is lost. *)
AppendFails(c) ==
    /\ append[c] # None
    /\ append' = [append EXCEPT ![c] = None]
    /\ UNCHANGED <<memoryVars, storeVars, stopping, used>>

Delete(r) ==
    /\ DeleteRecording(r)
    /\ UNCHANGED <<memoryVars, append, stopping, used>>

(* The process dies and starts again: nothing is read back. *)
Restart ==
    /\ activeID' = None /\ seq' = 0 /\ lastTimestamp' = None
    /\ append' = [c \in Caller |-> None]
    /\ stopping' = [h \in Handler |-> None]
    /\ UNCHANGED <<storeVars, used>>

Next ==
    \/ \E r \in Recording : Start(r) \/ Delete(r)
    \/ \E h \in Handler : Stop(h) \/ StopStores(h) \/ StopFails(h)
    \/ \E c \in Caller : (\E now \in Time : MaybeRecord(c, now)) \/ RecordAppends(c) \/ AppendFails(c)
    \/ Restart

Spec == Init /\ [][Next]_vars
----------------------------------------------------------------------------
TypeOK ==
    /\ activeID \in Recording \cup {None}
    /\ seq \in Nat
    /\ lastTimestamp \in Time \cup {None}
    /\ recordings \in [Recording -> Row \cup {None}]
    /\ packets \subseteq Packet
    /\ append \in [Caller -> Packet \cup {None}]
    /\ stopping \in [Handler -> Recording \cup {None}]
    /\ used \subseteq Recording

InFlight == {append[c] : c \in {d \in Caller : append[d] # None}}
Stored(r) == {p \in packets : p.recording = r}

(* packet_count counts the packets, and no packet is without a recording,  *)
(* whatever is deleted, lost or cut short.                                 *)
CountsPackets ==
    \A r \in Recording :
        IF recordings[r] = None THEN Stored(r) = {}
        ELSE recordings[r].packet_count = Cardinality(Stored(r))

(* Two calls never get the same number in the same recording, so no append *)
(* is ever refused by the primary key.                                     *)
NumbersAreUnique ==
    /\ \A p \in InFlight : ~Taken(p)
    /\ \A c, d \in Caller : c # d /\ append[c] # None /\ append[d] # None =>
         append[c].recording # append[d].recording \/ append[c].seq # append[d].seq

(* Replay waits delta before a packet: between two packets with numbers in *)
(* a row it is the time between their captures, in whichever order they    *)
(* reached the store, less a part of a millisecond; it is never longer, so *)
(* a replay is never slower than the capture, but packets that came within *)
(* a millisecond follow each other at once.  Nothing is waited before the  *)
(* first.                                                                  *)
FitsTime(delta, d) ==
    /\ d >= 0 => delta * PerMS <= d /\ d < (delta + 1) * PerMS
    /\ d <= 0 => (delta - 1) * PerMS < d /\ d <= delta * PerMS
DeltasFitTimes ==
    \A p, q \in packets \cup InFlight :
        /\ p.seq = 0 => p.delta = 0
        /\ p.recording = q.recording /\ q.seq = p.seq + 1 =>
             FitsTime(q.delta, q.time - p.time)

(* A recording with a stopped_at is closed: it never is the active one, so *)
(* only the calls that were in flight when it was stopped can reach it.    *)
StoppedIsClosed ==
    \A r \in Recording : recordings[r] # None /\ recordings[r].stopped => activeID # r
----------------------------------------------------------------------------
(* The inductive invariant behind the properties above: what the memory    *)
(* knows of the packets that were numbered, stored already or in flight.   *)
Numbered == packets \cup InFlight

(* An id is never given to a second recording. *)
IdsAreUsed ==
    /\ activeID # None => activeID \in used
    /\ \A h \in Handler : stopping[h] # None => stopping[h] \in used
    /\ \A r \in Recording : recordings[r] # None => r \in used
    /\ \A p \in Numbered : p.recording \in used

(* Nobody is about to stop the active recording: who stops it takes it out *)
(* of the memory first.                                                    *)
ActiveIsKept == \A h \in Handler : stopping[h] # None => stopping[h] # activeID

(* The next number of the active recording is above all it gave, and the   *)
(* time it keeps is that of the packet with the number before.             *)
MemoryIsCurrent ==
    activeID # None =>
        /\ lastTimestamp = None <=> seq = 0
        /\ \A p \in Numbered : p.recording = activeID =>
              p.seq < seq /\ (p.seq + 1 = seq => p.time = lastTimestamp)

RecorderInv ==
    /\ TypeOK /\ IsFiniteSet(packets)
    /\ IdsAreUsed /\ ActiveIsKept /\ MemoryIsCurrent
    /\ CountsPackets /\ NumbersAreUnique /\ DeltasFitTimes /\ StoppedIsClosed
=============================================================================

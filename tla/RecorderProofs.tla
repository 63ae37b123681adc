--------------------------- MODULE RecorderProofs ---------------------------
(***************************************************************************)
(* The inductive invariant of Recorder and what follows from it, for any   *)
(* number of recordings, callers, handlers, times and packets.             *)
(***************************************************************************)
EXTENDS Recorder, FiniteSetTheorems, TLAPS

LEMMA NoneIsNoRow == None \notin Row /\ None \notin Packet
BY RecorderAssumption DEF Row, Packet

LEMMA NumberedType ==
  ASSUME TypeOK
  PROVE  Numbered \subseteq Packet
BY DEF TypeOK, Numbered, InFlight

(* What Milliseconds keeps of a difference of times. *)
LEMMA MillisecondsFit ==
  ASSUME NEW d \in Int
  PROVE  Milliseconds(d) \in Int /\ FitsTime(Milliseconds(d), d)
BY RecorderAssumption, SMTT(30) DEF Milliseconds, FitsTime

LEMMA RecorderInit == Init => RecorderInv
<1> SUFFICES ASSUME Init PROVE RecorderInv
  OBVIOUS
<1>1. packets = {} /\ InFlight = {} /\ Numbered = {}
  BY DEF Init, InFlight, Numbered
<1>2. TypeOK
  BY DEF Init, TypeOK
<1>3. IsFiniteSet(packets)
  BY <1>1, FS_EmptySet
<1>4. CountsPackets
  BY <1>1 DEF Init, CountsPackets, Stored
<1>5. NumbersAreUnique
  BY <1>1 DEF Init, NumbersAreUnique
<1>6. IdsAreUsed /\ ActiveIsKept /\ MemoryIsCurrent /\ DeltasFitTimes /\ StoppedIsClosed
  BY <1>1 DEF Init, IdsAreUsed, ActiveIsKept, MemoryIsCurrent, DeltasFitTimes, StoppedIsClosed, Numbered
<1> QED BY <1>2, <1>3, <1>4, <1>5, <1>6 DEF RecorderInv
----------------------------------------------------------------------------
(* What is said of the packets holds as long as none is numbered, and of a *)
(* part of them.                                                           *)

LEMMA FewerNumbered ==
  ASSUME RecorderInv, packets' \subseteq packets,
         \A c \in Caller : append'[c] \in {append[c], None}
  PROVE  /\ InFlight' \subseteq InFlight /\ Numbered' \subseteq Numbered
         /\ IsFiniteSet(packets')
         /\ NumbersAreUnique' /\ DeltasFitTimes'
<1>1. InFlight' \subseteq InFlight /\ Numbered' \subseteq Numbered
  BY DEF InFlight, Numbered
<1>2. IsFiniteSet(packets')
  BY FS_Subset DEF RecorderInv
<1>3. NumbersAreUnique'
  <2>1. \A p \in InFlight' : ~Taken(p)'
    BY <1>1 DEF RecorderInv, NumbersAreUnique, Taken
  <2>2. ASSUME NEW c \in Caller, NEW d \in Caller, c # d, append'[c] # None, append'[d] # None
        PROVE  append'[c].recording # append'[d].recording \/ append'[c].seq # append'[d].seq
    BY <2>2 DEF RecorderInv, NumbersAreUnique
  <2> QED BY <2>1, <2>2 DEF NumbersAreUnique
<1>4. DeltasFitTimes'
  BY <1>1 DEF RecorderInv, DeltasFitTimes, Numbered
<1> QED BY <1>1, <1>2, <1>3, <1>4

LEMMA SamePackets ==
  ASSUME RecorderInv, UNCHANGED packets,
         \A r \in Recording :
           /\ recordings'[r] = None <=> recordings[r] = None
           /\ recordings[r] # None => recordings'[r].packet_count = recordings[r].packet_count
  PROVE  CountsPackets'
BY DEF RecorderInv, CountsPackets, Stored
----------------------------------------------------------------------------
(* The steps. *)

LEMMA StartKeeps ==
  ASSUME RecorderInv, NEW r \in Recording, Start(r)
  PROVE  RecorderInv'
<1>1. /\ recordings' = [recordings EXCEPT ![r] = [stopped |-> FALSE, packet_count |-> 0]]
      /\ UNCHANGED <<packets, append, stopping>>
      /\ r \notin used /\ used' = used \cup {r}
      /\ activeID' = r /\ seq' = 0 /\ lastTimestamp' = None
  BY DEF Start, CreateRecording
<1>2. TypeOK'
  <2>1. [stopped |-> FALSE, packet_count |-> 0] \in Row
    BY DEF Row
  <2> QED BY <1>1, <2>1 DEF RecorderInv, TypeOK
<1>3. recordings[r] = None /\ \A p \in Numbered : p.recording # r
  BY <1>1 DEF RecorderInv, IdsAreUsed
<1>4. Numbered' = Numbered /\ IsFiniteSet(packets') /\ NumbersAreUnique' /\ DeltasFitTimes'
  BY <1>1, FewerNumbered DEF Numbered, InFlight
<1>5. IdsAreUsed' /\ ActiveIsKept' /\ MemoryIsCurrent' /\ StoppedIsClosed'
  <2> USE <1>1, <1>3, <1>4 DEF RecorderInv, TypeOK
  <2>1. IdsAreUsed'
    BY DEF IdsAreUsed
  <2>2. ActiveIsKept'
    BY DEF IdsAreUsed, ActiveIsKept
  <2>3. MemoryIsCurrent'
    BY DEF MemoryIsCurrent
  <2>4. StoppedIsClosed'
    BY DEF StoppedIsClosed
  <2> QED BY <2>1, <2>2, <2>3, <2>4
<1>6. CountsPackets'
  <2> SUFFICES ASSUME NEW s \in Recording
               PROVE  CountsPackets!(s)'
    BY DEF CountsPackets
  <2>1. Stored(s)' = Stored(s)
    BY <1>1 DEF Stored
  <2>2. CASE s = r
    <3>1. Stored(r) = {}
      BY <1>3 DEF Stored, Numbered
    <3>2. recordings'[r] = [stopped |-> FALSE, packet_count |-> 0]
      BY <1>1 DEF RecorderInv, TypeOK
    <3>3. recordings'[r] \in Row
      BY <3>2 DEF Row
    <3>4. recordings'[r] # None
      BY <3>3, NoneIsNoRow
    <3>5. recordings'[r].packet_count = 0
      BY <3>2
    <3> QED BY <2>1, <2>2, <3>1, <3>4, <3>5, FS_EmptySet
  <2>3. CASE s # r
    BY <1>1, <2>1, <2>3 DEF RecorderInv, TypeOK, CountsPackets
  <2> QED BY <2>2, <2>3
<1> QED BY <1>2, <1>4, <1>5, <1>6 DEF RecorderInv

LEMMA DeleteKeeps ==
  ASSUME RecorderInv, NEW r \in Recording, Delete(r)
  PROVE  RecorderInv'
<1>1. /\ recordings' = [recordings EXCEPT ![r] = None]
      /\ packets' = {p \in packets : p.recording # r}
      /\ UNCHANGED <<activeID, seq, lastTimestamp, append, stopping, used>>
  BY DEF Delete, DeleteRecording, memoryVars
<1>2. TypeOK'
  BY <1>1 DEF RecorderInv, TypeOK
<1>3. /\ Numbered' \subseteq Numbered /\ IsFiniteSet(packets')
      /\ NumbersAreUnique' /\ DeltasFitTimes'
  BY <1>1, FewerNumbered
<1>4. IdsAreUsed' /\ ActiveIsKept' /\ MemoryIsCurrent' /\ StoppedIsClosed'
  BY <1>1, <1>3 DEF RecorderInv, TypeOK, IdsAreUsed, ActiveIsKept, MemoryIsCurrent, StoppedIsClosed
<1>5. CountsPackets'
  <2> SUFFICES ASSUME NEW s \in Recording
               PROVE  CountsPackets!(s)'
    BY DEF CountsPackets
  <2>1. CASE s = r
    <3>1. Stored(s)' = {} /\ recordings'[s] = None
      BY <1>1, <2>1 DEF RecorderInv, TypeOK, Stored
    <3> QED BY <3>1
  <2>2. CASE s # r
    <3>1. Stored(s)' = Stored(s) /\ recordings'[s] = recordings[s]
      BY <1>1, <2>2 DEF RecorderInv, TypeOK, Stored
    <3> QED BY <3>1 DEF RecorderInv, CountsPackets
  <2> QED BY <2>1, <2>2
<1> QED BY <1>2, <1>3, <1>4, <1>5 DEF RecorderInv

(* What is no longer in the memory: stopped, in flight when the process    *)
(* died, refused by the store.                                             *)
LEMMA ForgetKeeps ==
  ASSUME RecorderInv, UNCHANGED <<recordings, packets, used>>,
         append' \in [Caller -> Packet \cup {None}],
         \A c \in Caller : append'[c] \in {append[c], None},
         stopping' \in [Handler -> Recording \cup {None}],
         \A h \in Handler : stopping'[h] \in {stopping[h], None, activeID},
         \/ UNCHANGED <<activeID, seq, lastTimestamp>>
            /\ \A h \in Handler : stopping'[h] \in {stopping[h], None}
         \/ activeID' = None /\ seq' = 0 /\ lastTimestamp' = None
  PROVE  RecorderInv'
<1>1. TypeOK'
  BY DEF RecorderInv, TypeOK
<1>2. /\ Numbered' \subseteq Numbered /\ IsFiniteSet(packets')
      /\ NumbersAreUnique' /\ DeltasFitTimes'
  BY FewerNumbered
<1>3. CountsPackets'
  BY SamePackets
<1>4. IdsAreUsed' /\ ActiveIsKept' /\ MemoryIsCurrent' /\ StoppedIsClosed'
  <2> USE <1>2, RecorderAssumption DEF RecorderInv, TypeOK
  <2>1. IdsAreUsed'
    BY DEF IdsAreUsed
  <2>2. ActiveIsKept'
    BY DEF ActiveIsKept
  <2>3. MemoryIsCurrent'
    BY DEF MemoryIsCurrent
  <2>4. StoppedIsClosed'
    BY DEF StoppedIsClosed
  <2> QED BY <2>1, <2>2, <2>3, <2>4
<1> QED BY <1>1, <1>2, <1>3, <1>4 DEF RecorderInv

LEMMA StopStoresKeeps ==
  ASSUME RecorderInv, NEW h \in Handler, StopStores(h)
  PROVE  RecorderInv'
<1> DEFINE r == stopping[h]
<1>1. /\ r \in Recording /\ r # activeID
      /\ stopping' = [stopping EXCEPT ![h] = None]
      /\ UNCHANGED <<activeID, seq, lastTimestamp, packets, append, used>>
  BY DEF StopStores, StopRecording, StoreUnchanged, storeVars, memoryVars,
         RecorderInv, TypeOK, ActiveIsKept
<1>2. CASE recordings[r] # None /\ ~recordings[r].stopped
  <2>1. recordings' = [recordings EXCEPT ![r].stopped = TRUE]
    BY <1>2 DEF StopStores, StopRecording
  <2>2. /\ recordings[r] \in Row
        /\ [recordings[r] EXCEPT !.stopped = TRUE] \in Row
        /\ [recordings[r] EXCEPT !.stopped = TRUE].packet_count = recordings[r].packet_count
    BY <1>1, <1>2 DEF RecorderInv, TypeOK, Row
  <2> DEFINE row == [recordings[r] EXCEPT !.stopped = TRUE]
  <2>3. /\ recordings'[r] = row
        /\ \A s \in Recording \ {r} : recordings'[s] = recordings[s]
        /\ recordings' \in [Recording -> Row \cup {None}]
    BY <1>1, <2>1, <2>2 DEF RecorderInv, TypeOK
  <2> HIDE DEF r, row
  <2>4. row \in Row /\ row # None /\ row.packet_count = recordings[r].packet_count
    BY <2>2, NoneIsNoRow DEF row
  <2>5. TypeOK'
    BY <1>1, <2>3 DEF RecorderInv, TypeOK
  <2>6. /\ Numbered' = Numbered /\ IsFiniteSet(packets')
        /\ NumbersAreUnique' /\ DeltasFitTimes'
    BY <1>1, FewerNumbered DEF Numbered, InFlight
  <2>7. CountsPackets'
    BY <1>1, <1>2, <2>3, <2>4, SamePackets DEF r
  <2>8. IdsAreUsed' /\ ActiveIsKept'
    BY <1>1, <1>2, <2>3, <2>4, <2>6 DEF r, RecorderInv, TypeOK, IdsAreUsed, ActiveIsKept
  <2>9. MemoryIsCurrent' /\ StoppedIsClosed'
    BY <1>1, <2>3, <2>4, <2>6 DEF RecorderInv, TypeOK, MemoryIsCurrent, StoppedIsClosed
  <2> QED BY <2>5, <2>6, <2>7, <2>8, <2>9 DEF RecorderInv
<1>3. CASE ~(recordings[r] # None /\ ~recordings[r].stopped)
  <2>1. UNCHANGED recordings
    BY <1>3 DEF StopStores, StopRecording, StoreUnchanged, storeVars
  <2> QED BY <1>1, <2>1, ForgetKeeps DEF RecorderInv, TypeOK
<1> QED BY <1>2, <1>3

LEMMA MaybeRecordKeeps ==
  ASSUME RecorderInv, NEW c \in Caller, NEW now \in Time, MaybeRecord(c, now)
  PROVE  RecorderInv'
<1> DEFINE p == Numbering(now)
<1>1. /\ append[c] = None /\ activeID \in Recording
      /\ append' = [append EXCEPT ![c] = p]
      /\ seq' = seq + 1 /\ lastTimestamp' = now
      /\ UNCHANGED <<activeID, recordings, packets, stopping, used>>
  BY DEF MaybeRecord, storeVars, RecorderInv, TypeOK
<1>2. seq \in Nat /\ now \in Int /\ now # None /\ lastTimestamp \in Int \cup {None}
  BY RecorderAssumption DEF RecorderInv, TypeOK
<1>3. /\ p \in Packet /\ p # None
      /\ p.recording = activeID /\ p.seq = seq /\ p.time = now
      /\ lastTimestamp = None => p.delta = 0
      /\ lastTimestamp # None => FitsTime(p.delta, now - lastTimestamp)
  <2>1. lastTimestamp # None =>
          /\ Milliseconds(now - lastTimestamp) \in Int
          /\ FitsTime(Milliseconds(now - lastTimestamp), now - lastTimestamp)
    BY <1>2, MillisecondsFit
  <2> QED BY <1>1, <1>2, <2>1, NoneIsNoRow DEF Packet, Numbering
<1> HIDE DEF p
<1>4. /\ append'[c] = p
      /\ \A d \in Caller \ {c} : append'[d] = append[d]
      /\ InFlight' = InFlight \cup {p} /\ Numbered' = Numbered \cup {p}
  BY <1>1, <1>3 DEF RecorderInv, TypeOK, InFlight, Numbered
<1>5. Numbered \subseteq Packet
  BY NumberedType DEF RecorderInv
<1>6. \A q \in Numbered :
        /\ q.seq \in Nat /\ q.time \in Int
        /\ q.recording = activeID => q.seq < seq /\ (q.seq + 1 = seq => q.time = lastTimestamp)
  BY <1>1, <1>5, RecorderAssumption DEF RecorderInv, MemoryIsCurrent, Packet
<1>7. lastTimestamp = None <=> seq = 0
  BY <1>1, RecorderAssumption DEF RecorderInv, MemoryIsCurrent
<1>8. TypeOK' /\ IsFiniteSet(packets') /\ CountsPackets'
  <2>1. TypeOK'
    BY <1>1, <1>2, <1>3 DEF RecorderInv, TypeOK
  <2>2. CountsPackets'
    BY <1>1, SamePackets
  <2> QED BY <1>1, <2>1, <2>2 DEF RecorderInv
<1>9. IdsAreUsed' /\ ActiveIsKept' /\ StoppedIsClosed'
  BY <1>1, <1>3, <1>4, RecorderAssumption
     DEF RecorderInv, IdsAreUsed, ActiveIsKept, StoppedIsClosed
<1>10. MemoryIsCurrent'
  BY <1>1, <1>2, <1>3, <1>4, <1>6 DEF MemoryIsCurrent
<1>11. NumbersAreUnique'
  <2>1. \A q \in InFlight' : ~Taken(q)'
    BY <1>1, <1>2, <1>3, <1>4, <1>6 DEF RecorderInv, NumbersAreUnique, Taken, Numbered
  <2>2. \A d \in Caller \ {c} : append[d] # None =>
           append[d].recording # p.recording \/ append[d].seq # p.seq
    BY <1>2, <1>3, <1>6 DEF Numbered, InFlight
  <2> QED BY <1>4, <2>1, <2>2 DEF RecorderInv, NumbersAreUnique
<1>12. DeltasFitTimes'
  <2> SUFFICES ASSUME NEW q1 \in Numbered', NEW q2 \in Numbered'
               PROVE  /\ q1.seq = 0 => q1.delta = 0
                      /\ q1.recording = q2.recording /\ q2.seq = q1.seq + 1
                           => FitsTime(q2.delta, q2.time - q1.time)
    BY DEF DeltasFitTimes, Numbered
  <2>1. CASE q1 \in Numbered /\ q2 \in Numbered
    BY <2>1 DEF RecorderInv, DeltasFitTimes, Numbered
  <2>2. CASE q1 = p
    BY <1>2, <1>3, <1>4, <1>6, <1>7, <2>2
  <2>3. CASE q1 \in Numbered /\ q2 = p
    <3>1. q1.seq = 0 => q1.delta = 0
      BY <2>3 DEF RecorderInv, DeltasFitTimes, Numbered
    <3>2. ASSUME q1.recording = q2.recording, q2.seq = q1.seq + 1
          PROVE  FitsTime(q2.delta, q2.time - q1.time)
      BY <1>2, <1>3, <1>6, <1>7, <2>3, <3>2
    <3> QED BY <3>1, <3>2
  <2> QED BY <1>4, <2>1, <2>2, <2>3
<1> QED BY <1>8, <1>9, <1>10, <1>11, <1>12 DEF RecorderInv

LEMMA RecordAppendsKeeps ==
  ASSUME RecorderInv, NEW c \in Caller, RecordAppends(c)
  PROVE  RecorderInv'
<1> DEFINE p == append[c]
<1>1. /\ p \in Packet /\ p # None /\ p \in InFlight
      /\ append' = [append EXCEPT ![c] = None]
      /\ UNCHANGED <<activeID, seq, lastTimestamp, stopping, used>>
  BY DEF RecordAppends, memoryVars, RecorderInv, TypeOK, InFlight
<1>2. ~Taken(p)
  BY <1>1 DEF RecorderInv, NumbersAreUnique
<1> DEFINE r == p.recording
<1>3. r \in Recording
  BY <1>1 DEF Packet
<1>4. CASE recordings[r] = None
  <2>1. UNCHANGED <<recordings, packets>>
    BY <1>4 DEF RecordAppends, AppendRecordingPacket, StoreUnchanged, storeVars
  <2> QED BY <1>1, <2>1, ForgetKeeps DEF RecorderInv, TypeOK
<1>5. CASE recordings[r] # None
  <2>1. /\ packets' = packets \cup {p}
        /\ recordings' = [recordings EXCEPT ![r].packet_count = @ + 1]
    BY <1>2, <1>5 DEF RecordAppends, AppendRecordingPacket
  <2> DEFINE row == [recordings[r] EXCEPT !.packet_count = @ + 1]
  <2>2. /\ recordings[r] \in Row /\ row \in Row
        /\ row.stopped = recordings[r].stopped
        /\ row.packet_count = recordings[r].packet_count + 1
    BY <1>3, <1>5 DEF RecorderInv, TypeOK, Row
  <2>3. /\ recordings'[r] = row
        /\ \A s \in Recording \ {r} : recordings'[s] = recordings[s]
        /\ recordings' \in [Recording -> Row \cup {None}]
    BY <1>3, <2>1, <2>2 DEF RecorderInv, TypeOK
  <2>4. row # None
    BY <2>2, NoneIsNoRow
  <2> HIDE DEF row
  <2>5. TypeOK'
    BY <1>1, <2>1, <2>3 DEF RecorderInv, TypeOK
  <2>6. IsFiniteSet(packets')
    BY <2>1, FS_AddElement DEF RecorderInv
  <2>7. Numbered' = Numbered /\ InFlight' \subseteq InFlight
    BY <1>1, <2>1 DEF Numbered, InFlight, RecorderInv, TypeOK
  <2>8. IdsAreUsed' /\ ActiveIsKept' /\ MemoryIsCurrent' /\ DeltasFitTimes'
    <3>1. IdsAreUsed'
      BY <1>1, <1>5, <2>3, <2>7 DEF RecorderInv, IdsAreUsed
    <3> QED BY <1>1, <2>7, <3>1
            DEF RecorderInv, ActiveIsKept, MemoryIsCurrent, DeltasFitTimes, Numbered
  <2>9. StoppedIsClosed'
    BY <1>1, <1>5, <2>2, <2>3 DEF RecorderInv, StoppedIsClosed
  <2>10. NumbersAreUnique'
    <3>1. \A d \in Caller : append'[d] # None => d # c /\ append'[d] = append[d]
      BY <1>1 DEF RecorderInv, TypeOK
    <3>2. \A q \in InFlight' : ~Taken(q)'
      <4> SUFFICES ASSUME NEW d \in Caller, append'[d] # None,
                          NEW q \in packets', q.recording = append'[d].recording,
                          q.seq = append'[d].seq
                   PROVE  FALSE
        BY DEF InFlight, Taken
      <4>1. CASE q = p
        BY <1>1, <3>1, <4>1 DEF RecorderInv, NumbersAreUnique
      <4>2. CASE q \in packets
        BY <3>1, <4>2 DEF RecorderInv, NumbersAreUnique, InFlight, Taken
      <4> QED BY <2>1, <4>1, <4>2
    <3> QED BY <3>1, <3>2 DEF RecorderInv, NumbersAreUnique
  <2>11. CountsPackets'
    <3> SUFFICES ASSUME NEW s \in Recording
                 PROVE  CountsPackets!(s)'
      BY DEF CountsPackets
    <3>1. CASE s = r
      <4>1. Stored(s)' = Stored(s) \cup {p} /\ p \notin Stored(s)
        BY <1>2, <2>1, <3>1 DEF Stored, Taken
      <4>2. IsFiniteSet(Stored(s))
        BY FS_Subset DEF RecorderInv, Stored
      <4>3. Cardinality(Stored(s)') = Cardinality(Stored(s)) + 1
        BY <4>1, <4>2, FS_AddElement
      <4> QED BY <1>5, <2>2, <2>3, <2>4, <3>1, <4>3 DEF RecorderInv, CountsPackets
    <3>2. CASE s # r
      <4>1. Stored(s)' = Stored(s)
        BY <2>1, <3>2 DEF Stored
      <4> QED BY <2>3, <3>2, <4>1 DEF RecorderInv, CountsPackets
    <3> QED BY <3>1, <3>2
  <2> QED BY <2>5, <2>6, <2>8, <2>9, <2>10, <2>11 DEF RecorderInv
<1> QED BY <1>4, <1>5
----------------------------------------------------------------------------
LEMMA RecorderNext == RecorderInv /\ [Next]_vars => RecorderInv'
<1> SUFFICES ASSUME RecorderInv, [Next]_vars
             PROVE  RecorderInv'
  OBVIOUS
<1> USE DEF RecorderInv, TypeOK, memoryVars, storeVars
<1>1. ASSUME NEW r \in Recording, Start(r) \/ Delete(r)
      PROVE  RecorderInv'
  BY <1>1, StartKeeps, DeleteKeeps
<1>2. ASSUME NEW h \in Handler, Stop(h)
      PROVE  RecorderInv'
  BY <1>2, ForgetKeeps DEF Stop
<1>3. ASSUME NEW h \in Handler, StopStores(h)
      PROVE  RecorderInv'
  BY <1>3, StopStoresKeeps
<1>4. ASSUME NEW h \in Handler, StopFails(h)
      PROVE  RecorderInv'
  BY <1>4, ForgetKeeps DEF StopFails
<1>5. ASSUME NEW c \in Caller, NEW now \in Time, MaybeRecord(c, now)
      PROVE  RecorderInv'
  BY <1>5, MaybeRecordKeeps
<1>6. ASSUME NEW c \in Caller, RecordAppends(c)
      PROVE  RecorderInv'
  BY <1>6, RecordAppendsKeeps
<1>7. ASSUME NEW c \in Caller, AppendFails(c)
      PROVE  RecorderInv'
  BY <1>7, ForgetKeeps DEF AppendFails
<1>8. CASE Restart
  BY <1>8, ForgetKeeps DEF Restart
<1>9. CASE UNCHANGED vars
  BY <1>9, ForgetKeeps DEF vars
<1> HIDE DEF RecorderInv, TypeOK, memoryVars, storeVars
<1> QED BY <1>1, <1>2, <1>3, <1>4, <1>5, <1>6, <1>7, <1>8, <1>9 DEF Next

LEMMA RecorderInvariance == Spec => []RecorderInv
BY RecorderInit, RecorderNext, PTL DEF Spec

(* packet_count is the number of packets, and deletion leaves none behind, *)
(* whatever is stopped, deleted, refused or cut short by a crash.          *)
THEOREM CountsAreRight == Spec => []CountsPackets
<1>1. RecorderInv => CountsPackets
  BY DEF RecorderInv
<1> QED BY <1>1, RecorderInvariance, PTL

(* No two packets of a recording get the same number, so that the primary  *)
(* key never refuses one.                                                  *)
THEOREM NumbersStayUnique == Spec => []NumbersAreUnique
<1>1. RecorderInv => NumbersAreUnique
  BY DEF RecorderInv
<1> QED BY <1>1, RecorderInvariance, PTL

(* The waits of a replay are the times between the captures, cut to whole  *)
(* milliseconds toward zero, though the rows may arrive in another order   *)
(* than they were numbered in: whatever the captures' times and the clock, *)
(* none is too long, and none is a millisecond or more too short.          *)
THEOREM DeltasAlwaysFit == Spec => []DeltasFitTimes
<1>1. RecorderInv => DeltasFitTimes
  BY DEF RecorderInv
<1> QED BY <1>1, RecorderInvariance, PTL

(* A recording that is stopped is never active again.                      *)
THEOREM StoppedStaysClosed == Spec => []StoppedIsClosed
<1>1. RecorderInv => StoppedIsClosed
  BY DEF RecorderInv
<1> QED BY <1>1, RecorderInvariance, PTL
=============================================================================

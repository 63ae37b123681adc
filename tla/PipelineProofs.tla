--------------------------- MODULE PipelineProofs ---------------------------
(***************************************************************************)
(* The inductive invariant of Pipeline and what follows from it, for any   *)
(* number of listeners, engines, readers, recordings and events and any    *)
(* size of the channel.                                                    *)
(***************************************************************************)
EXTENDS Pipeline, RecorderProofs, SequenceTheorems

(* The parts that say how events move through the process. *)
EventsInv == EventsAreGenuine /\ StagesAgree /\ LineInOrder /\ MirroredTwice /\ CaptureOrder

LEMMA PipelineInvNext ==
  ASSUME RecorderInv', PipelineTypeOK', EventsInv', RecordedBeforeForward', RecordingIsComplete'
  PROVE  PipelineInv'
BY DEF PipelineInv, EventsInv

LEMMA PipelineInitInv == PipelineInit => PipelineInv
<1> SUFFICES ASSUME PipelineInit PROVE PipelineInv
  OBVIOUS
<1>1. RecorderInv
  BY RecorderInit DEF PipelineInit
<1>2. PipelineTypeOK
  <2>1. emitted \in Seq(Event) /\ queue \in Seq(Event) /\ sends \in Seq(1 .. MaxEvents)
    BY EmptySeq DEF PipelineInit
  <2>2. Len(emitted) = 0
    BY DEF PipelineInit
  <2>3. /\ held \in [Listener -> Event \cup {None}]
        /\ at \in [Caller -> Stage]
        /\ handled \in [Caller -> Event \cup {None}]
        /\ stopped \in BOOLEAN /\ gone \subseteq Listener /\ since \in Nat /\ lost \subseteq 1 .. MaxEvents
    BY DEF PipelineInit, Stage
  <2> QED BY <2>1, <2>2, <2>3, PipelineAssumption DEF PipelineTypeOK
<1>3. Numbered = {} /\ packets = {} /\ InFlight = {} /\ Through = {}
  BY DEF PipelineInit, Init, Numbered, InFlight, Through
<1>4. EventsAreGenuine /\ StagesAgree
  BY <1>3 DEF PipelineInit, Init, EventsAreGenuine, StagesAgree
<1>5. LineInOrder /\ MirroredTwice /\ CaptureOrder
  BY <1>3, PipelineAssumption DEF PipelineInit, LineInOrder, MirroredTwice, CaptureOrder
<1>6. RecordedBeforeForward /\ RecordingIsComplete
  BY DEF PipelineInit, Init, RecordedBeforeForward, RecordingIsComplete
<1> QED BY <1>1, <1>2, <1>4, <1>5, <1>6 DEF PipelineInv
----------------------------------------------------------------------------
(* Counting. *)

LEMMA TimesType ==
  ASSUME PipelineTypeOK, NEW t
  PROVE  IsFiniteSet({i \in DOMAIN sends : sends[i] = t}) /\ Times(t) \in Nat
<1>1. DOMAIN sends = 1 .. Len(sends) /\ Len(sends) \in Nat
  BY DEF PipelineTypeOK
<1>2. IsFiniteSet(1 .. Len(sends))
  BY <1>1, FS_Interval
<1>3. IsFiniteSet({i \in DOMAIN sends : sends[i] = t})
  BY <1>1, <1>2, FS_Subset
<1> QED BY <1>3, FS_CardinalityType DEF Times

LEMMA TimesNone ==
  ASSUME NEW t, \A i \in DOMAIN sends : sends[i] # t
  PROVE  Times(t) = 0
<1>1. {i \in DOMAIN sends : sends[i] = t} = {}
  OBVIOUS
<1> QED BY <1>1, FS_EmptySet DEF Times

(* What is handed over is counted once more, the rest as before. *)
LEMMA TimesAppend ==
  ASSUME PipelineTypeOK, NEW u \in 1 .. MaxEvents, sends' = Append(sends, u)
  PROVE  /\ Times(u)' = Times(u) + 1
         /\ \A t : t # u => Times(t)' = Times(t)
<1>1. /\ Len(sends) \in Nat /\ DOMAIN sends = 1 .. Len(sends)
      /\ DOMAIN sends' = 1 .. Len(sends) + 1
      /\ sends'[Len(sends) + 1] = u
      /\ \A i \in 1 .. Len(sends) : sends'[i] = sends[i]
  BY DEF PipelineTypeOK
<1>2. Times(u)' = Times(u) + 1
  <2> DEFINE S == {i \in DOMAIN sends : sends[i] = u}
  <2>1. {i \in DOMAIN sends' : sends'[i] = u} = S \cup {Len(sends) + 1}
    BY <1>1
  <2>2. Len(sends) + 1 \notin S
    BY <1>1
  <2>3. IsFiniteSet(S)
    BY TimesType
  <2> HIDE DEF S
  <2>4. Cardinality(S \cup {Len(sends) + 1}) = Cardinality(S) + 1
    BY <2>2, <2>3, FS_AddElement
  <2> QED BY <2>1, <2>4 DEF Times, S
<1>3. ASSUME NEW t, t # u
      PROVE  Times(t)' = Times(t)
  <2>1. {i \in DOMAIN sends' : sends'[i] = t} = {i \in DOMAIN sends : sends[i] = t}
    BY <1>1, <1>3
  <2> QED BY <2>1 DEF Times
<1> QED BY <1>2, <1>3
----------------------------------------------------------------------------
(* What is said of events holds when no event moves but that some are let  *)
(* go: by a listener that returns, in a crash, or by the store.            *)
LEMMA EventsFrame ==
  ASSUME PipelineInv, UNCHANGED <<emitted, sends>>, packets' \subseteq packets,
         \A l \in Listener : held'[l] \in {held[l], None},
         queue' \in {queue, <<>>},
         \A c \in Caller :
           \/ at'[c] = at[c] /\ handled'[c] = handled[c] /\ append'[c] = append[c]
           \/ at'[c] \in {"idle", "returned"} /\ handled'[c] = None /\ append'[c] = None
  PROVE  EventsInv'
<1>1. InFlight' \subseteq InFlight
  BY DEF InFlight
<1>2. Numbered' \subseteq Numbered /\ Through' \subseteq Through
  BY <1>1 DEF Numbered, Through
<1>3. \A i \in DOMAIN queue' : i \in DOMAIN queue /\ queue'[i] = queue[i]
  OBVIOUS
<1>4. EventsAreGenuine'
  BY <1>2, <1>3 DEF PipelineInv, EventsAreGenuine, Genuine, RequestAt
<1>5. StagesAgree'
  <2>1. ASSUME NEW c \in Caller
        PROVE  StagesAgree!1!(c)'
    BY <1>2 DEF PipelineInv, StagesAgree, IsRequest
  <2>2. ASSUME NEW c \in Caller, NEW d \in Caller, c # d, handled'[c] # None, handled'[d] # None
        PROVE  handled'[c].time # handled'[d].time
    BY <2>2 DEF PipelineInv, StagesAgree
  <2> QED BY <1>2, <2>1, <2>2 DEF PipelineInv, StagesAgree
<1>6. LineInOrder'
  <2>1. handled'[Run] # None => handled'[Run] = handled[Run] /\ at'[Run] = at[Run]
    BY PipelineAssumption
  <2> QED BY <1>2, <1>3, <2>1 DEF PipelineInv, LineInOrder, SameListener
<1>7. MirroredTwice'
  <2>1. \A t : Times(t)' = Times(t)
    BY DEF Times
  <2> QED BY <2>1 DEF PipelineInv, MirroredTwice
<1>8. CaptureOrder'
  BY <1>1, <1>2 DEF PipelineInv, CaptureOrder, SameListener, Numbered
<1> QED BY <1>4, <1>5, <1>6, <1>7, <1>8 DEF EventsInv

(* The new event comes after all others. *)
LEMMA EmittedGrows ==
  ASSUME PipelineTypeOK, NEW e \in Event, New(e)
  PROVE  /\ Len(emitted) \in Nat /\ DOMAIN emitted = 1 .. Len(emitted)
         /\ emitted' \in Seq(Event) /\ Len(emitted') <= MaxEvents
         /\ DOMAIN emitted' = 1 .. Len(emitted) + 1
         /\ Len(emitted) + 1 \in 1 .. MaxEvents
         /\ emitted'[Len(emitted) + 1] = e
         /\ \A t \in DOMAIN emitted : emitted'[t] = emitted[t]
BY PipelineAssumption DEF PipelineTypeOK, New

LEMMA NewEventType ==
  ASSUME PipelineTypeOK, NEW kind \in Kind, NEW from \in Listener \cup {None},
         Len(emitted) < MaxEvents
  PROVE  /\ NewEvent(kind, from) \in Event /\ NewEvent(kind, from) # None
         /\ NewEvent(kind, from).time = Len(emitted) + 1
         /\ NewEvent(kind, from).kind = kind /\ NewEvent(kind, from).from = from
<1>1. Len(emitted) + 1 \in 1 .. MaxEvents
  BY PipelineAssumption DEF PipelineTypeOK
<1> QED BY <1>1, PipelineAssumption DEF NewEvent, Event

LEMMA EmitFrame ==
  ASSUME PipelineInv, NEW e \in Event, New(e), e.time = Len(emitted) + 1
  PROVE  /\ \A t \in Through : t \in 1 .. Len(emitted)
         /\ \A t, u \in 1 .. Len(emitted) : SameListener(t, u)' <=> SameListener(t, u)
         /\ \A t : RequestAt(t) => t \in 1 .. Len(emitted) /\ RequestAt(t)'
         /\ \A x : Genuine(x) => Genuine(x)' /\ x.time \in 1 .. Len(emitted)
<1>1. PipelineTypeOK
  BY DEF PipelineInv
<1>2. \A t \in Through : t \in 1 .. Len(emitted)
  BY <1>1, EmittedGrows DEF Through, PipelineInv, EventsAreGenuine, RequestAt
<1>3. \A t, u \in 1 .. Len(emitted) : SameListener(t, u)' <=> SameListener(t, u)
  BY <1>1, EmittedGrows DEF SameListener
<1>4. \A t : RequestAt(t) => t \in 1 .. Len(emitted) /\ RequestAt(t)'
  BY <1>1, EmittedGrows DEF RequestAt
<1>5. \A x : Genuine(x) => Genuine(x)' /\ x.time \in 1 .. Len(emitted)
  BY <1>1, EmittedGrows DEF Genuine
<1> QED BY <1>2, <1>3, <1>4, <1>5

LEMMA ReceiveKeeps ==
  ASSUME PipelineInv, NEW l \in Listener, NEW kind \in {"captured", "answer"},
         Receive(l, kind)
  PROVE  PipelineTypeOK' /\ EventsInv'
<1> DEFINE e == NewEvent(kind, l)
<1> DEFINE n == Len(emitted) + 1
<1>1. PipelineTypeOK
  BY DEF PipelineInv
<1>2. /\ e \in Event /\ e # None /\ e.time = n /\ e.kind = kind /\ e.from = l
      /\ New(e) /\ n \in Nat /\ l # None
  BY <1>1, NewEventType, EmittedGrows, PipelineAssumption DEF Receive, New, Kind
<1>3. /\ held[l] = None /\ held' = [held EXCEPT ![l] = e]
      /\ UNCHANGED <<append, packets, queue, at, handled, stopped, gone, sends, since, lost>>
  BY DEF Receive, vars, storeVars
<1> HIDE DEF e
<1>4. Numbered' = Numbered /\ InFlight' = InFlight /\ Through' = Through
  BY <1>3 DEF Numbered, InFlight, Through
<1>5. PipelineTypeOK'
  BY <1>1, <1>2, <1>3, EmittedGrows DEF PipelineTypeOK
<1>6. EventsAreGenuine'
  <2>1. \A t \in DOMAIN emitted' :
          /\ emitted'[t].kind = "captured" => emitted'[t].from # None
          /\ emitted'[t].kind = "mirrored" => emitted'[t].from = None
    BY <1>1, <1>2, EmittedGrows DEF PipelineInv, EventsAreGenuine
  <2>2. \A m \in Listener : held'[m] # None => Genuine(held[m])' /\ held'[m].from = m
    BY <1>1, <1>2, <1>3, EmitFrame, EmittedGrows
       DEF PipelineTypeOK, PipelineInv, EventsAreGenuine, Genuine
  <2>3. /\ \A i \in DOMAIN queue : Genuine(queue[i])' /\ queue[i].from # None
        /\ \A c \in Caller : handled[c] # None =>
              Genuine(handled[c])' /\ (c # Run => handled[c].from = None)
        /\ \A i \in DOMAIN sends : RequestAt(sends[i])'
        /\ \A p \in Numbered : RequestAt(p.time)'
    BY <1>2, <1>3, EmitFrame DEF PipelineInv, EventsAreGenuine
  <2> QED BY <1>3, <1>4, <2>1, <2>2, <2>3 DEF EventsAreGenuine
<1>7. StagesAgree'
  BY <1>3, <1>4 DEF PipelineInv, StagesAgree, IsRequest
<1>8. LineInOrder'
  <2>1. /\ \A i \in DOMAIN queue : queue[i].time \in 1 .. Len(emitted)
        /\ handled[Run] # None => handled[Run].time \in 1 .. Len(emitted)
        /\ \A m \in Listener : held[m] # None => held[m].time \in 1 .. Len(emitted)
    BY <1>2, EmitFrame, PipelineAssumption DEF PipelineInv, EventsAreGenuine
  <2>2. \A m \in Listener \ {l} : held'[m] = held[m]
    BY <1>1, <1>3 DEF PipelineTypeOK
  <2>3. held'[l] = e
    BY <1>1, <1>3 DEF PipelineTypeOK
  <2>4. ASSUME NEW m \in Listener, held'[m] # None
        PROVE  /\ \A t \in Through : SameListener(t, held[m].time)' => t < held'[m].time
               /\ \A i \in DOMAIN queue : queue[i].from = m => queue[i].time < held'[m].time
               /\ handled[Run] # None /\ handled[Run].from = m =>
                     handled[Run].time < held'[m].time
    <3>1. CASE m = l
      BY <1>2, <2>1, <2>3, <3>1, EmitFrame
    <3>2. CASE m # l
      BY <1>2, <2>1, <2>2, <2>4, <3>2, EmitFrame DEF PipelineInv, LineInOrder
    <3> QED BY <3>1, <3>2
  <2>5. \A i \in DOMAIN queue :
          /\ \A t \in Through : SameListener(t, queue[i].time)' => t < queue[i].time
          /\ \A j \in DOMAIN queue :
                i < j /\ queue[i].from = queue[j].from => queue[i].time < queue[j].time
          /\ handled[Run] # None /\ handled[Run].from = queue[i].from =>
                handled[Run].time < queue[i].time
    <3> SUFFICES ASSUME NEW i \in DOMAIN queue
                 PROVE  /\ \A t \in Through :
                              SameListener(t, queue[i].time)' => t < queue[i].time
                        /\ \A j \in DOMAIN queue :
                              i < j /\ queue[i].from = queue[j].from => queue[i].time < queue[j].time
                        /\ handled[Run] # None /\ handled[Run].from = queue[i].from =>
                              handled[Run].time < queue[i].time
      OBVIOUS
    <3>1. \A t \in Through : SameListener(t, queue[i].time)' <=> SameListener(t, queue[i].time)
      BY <1>2, <1>3, <2>1, EmitFrame
    <3> QED BY <1>3, <3>1 DEF PipelineInv, LineInOrder
  <2>6. handled[Run] # None =>
          /\ \A i \in DOMAIN sends :
                SameListener(sends[i], handled[Run].time)' => sends[i] < handled[Run].time
          /\ at[Run] = "record" => \A p \in Numbered :
                SameListener(p.time, handled[Run].time)' => p.time < handled[Run].time
    <3> SUFFICES ASSUME handled[Run] # None
                 PROVE  /\ \A i \in DOMAIN sends :
                              SameListener(sends[i], handled[Run].time)' => sends[i] < handled[Run].time
                        /\ at[Run] = "record" => \A p \in Numbered :
                              SameListener(p.time, handled[Run].time)' => p.time < handled[Run].time
      OBVIOUS
    <3>1. \A t \in Through :
             SameListener(t, handled[Run].time)' <=> SameListener(t, handled[Run].time)
      BY <1>2, <1>3, <2>1, EmitFrame
    <3> QED BY <1>3, <3>1 DEF PipelineInv, LineInOrder, Through
  <2> QED BY <1>3, <1>4, <2>4, <2>5, <2>6 DEF LineInOrder, SameListener
<1>9. MirroredTwice'
  <2> SUFFICES ASSUME NEW t \in DOMAIN emitted', emitted'[t].kind = "mirrored"
               PROVE  /\ Times(t)' <= 2
                      /\ \A c \in Caller : handled'[c] # None /\ handled'[c].time = t
                            => Times(t)' <= 1
    BY DEF MirroredTwice
  <2>1. t \in DOMAIN emitted /\ emitted[t].kind = "mirrored"
    BY <1>1, <1>2, EmittedGrows
  <2>2. Times(t)' = Times(t)
    BY <1>3 DEF Times
  <2> QED BY <1>3, <2>1, <2>2 DEF PipelineInv, MirroredTwice
<1>10. CaptureOrder'
  <2>1. \A i \in DOMAIN sends : sends[i] \in 1 .. Len(emitted)
    BY <1>2, EmitFrame DEF PipelineInv, EventsAreGenuine
  <2>2. \A p \in Numbered : p.time \in 1 .. Len(emitted)
    BY <1>2, EmitFrame DEF PipelineInv, EventsAreGenuine
  <2> QED BY <1>2, <1>3, <1>4, <2>1, <2>2, EmitFrame DEF PipelineInv, CaptureOrder, Numbered
<1> QED BY <1>5, <1>6, <1>7, <1>8, <1>9, <1>10 DEF EventsInv

LEMMA EmitKeeps ==
  ASSUME PipelineInv, NEW c \in Caller, Mirror(c) \/ Answer(c)
  PROVE  PipelineTypeOK' /\ EventsInv'
<1> DEFINE n == Len(emitted) + 1
<1>1. PipelineTypeOK
  BY DEF PipelineInv
<1>2. PICK kind \in {"mirrored", "answer"} :
        /\ New(NewEvent(kind, None)) /\ Begin(c, NewEvent(kind, None))
        /\ sends' = IF kind = "mirrored" THEN Append(sends, n) ELSE sends
  BY <1>1 DEF Mirror, Answer, New, PipelineTypeOK
<1> DEFINE e == NewEvent(kind, None)
<1>3. /\ e \in Event /\ e # None /\ e.time = n /\ e.kind = kind /\ e.from = None
      /\ New(e) /\ n \in 1 .. MaxEvents /\ Len(emitted) \in Nat
  BY <1>1, <1>2, NewEventType, EmittedGrows DEF New, Kind
<1>4. /\ c # Run /\ at[c] = "idle"
      /\ handled' = [handled EXCEPT ![c] = e]
      /\ at' = [at EXCEPT ![c] = IF kind = "mirrored" THEN "record" ELSE "forward"]
      /\ UNCHANGED <<append, packets, held, queue, stopped, gone, since, lost>>
  BY <1>2, <1>3 DEF Mirror, Answer, Begin, IsRequest, vars, storeVars
<1> HIDE DEF e
<1>5. /\ handled'[c] = e /\ at'[c] = IF kind = "mirrored" THEN "record" ELSE "forward"
      /\ \A d \in Caller \ {c} : handled'[d] = handled[d] /\ at'[d] = at[d]
      /\ handled[c] = None /\ append[c] = None
  BY <1>1, <1>4 DEF PipelineTypeOK, PipelineInv, StagesAgree
<1>6. Numbered' = Numbered /\ InFlight' = InFlight
  BY <1>4 DEF Numbered, InFlight
<1>7. /\ sends' \in Seq(1 .. MaxEvents)
      /\ \A i \in DOMAIN sends' :
            \/ i \in DOMAIN sends /\ sends'[i] = sends[i]
            \/ sends'[i] = n /\ kind = "mirrored"
  <2>1. CASE kind = "mirrored"
    <3>1. sends' = Append(sends, n) /\ sends \in Seq(1 .. MaxEvents) /\ n \in 1 .. MaxEvents
      BY <1>1, <1>2, <1>3, <2>1 DEF PipelineTypeOK
    <3> QED BY <2>1, <3>1, AppendProperties
  <2>2. CASE kind # "mirrored"
    BY <1>1, <1>2, <2>2 DEF PipelineTypeOK
  <2> QED BY <2>1, <2>2
<1>8. \A u : Times(u)' = IF u = n /\ kind = "mirrored" THEN Times(u) + 1 ELSE Times(u)
  <2>1. CASE kind = "mirrored"
    BY <1>1, <1>2, <1>3, <2>1, TimesAppend
  <2>2. CASE kind # "mirrored"
    BY <1>2, <2>2 DEF Times
  <2> QED BY <2>1, <2>2
<1>9. /\ \A t \in Through : t \in 1 .. Len(emitted)
      /\ \A i \in DOMAIN sends : sends[i] \in 1 .. Len(emitted)
      /\ \A p \in Numbered : p.time \in 1 .. Len(emitted)
      /\ \A d \in Caller : handled[d] # None => handled[d].time \in 1 .. Len(emitted)
      /\ \A i \in DOMAIN queue : queue[i].time \in 1 .. Len(emitted)
      /\ \A l \in Listener : held[l] # None => held[l].time \in 1 .. Len(emitted)
  BY <1>3, EmitFrame DEF PipelineInv, EventsAreGenuine
<1>10. /\ DOMAIN emitted = 1 .. Len(emitted) /\ DOMAIN emitted' = 1 .. n
       /\ emitted'[n] = e
       /\ \A t \in 1 .. Len(emitted) : emitted'[t] = emitted[t]
  BY <1>1, <1>3, EmittedGrows
<1>11. \A t, u \in 1 .. n : SameListener(t, u)' =>
          t \in 1 .. Len(emitted) /\ u \in 1 .. Len(emitted) /\ SameListener(t, u)
  BY <1>3, <1>10 DEF SameListener
<1>12. PipelineTypeOK'
  BY <1>1, <1>3, <1>4, <1>7, EmittedGrows DEF PipelineTypeOK, Stage
<1>13. EventsAreGenuine'
  <2>1. \A t \in DOMAIN emitted' :
          /\ emitted'[t].kind = "captured" => emitted'[t].from # None
          /\ emitted'[t].kind = "mirrored" => emitted'[t].from = None
    BY <1>3, <1>10 DEF PipelineInv, EventsAreGenuine
  <2>2. /\ \A l \in Listener : held[l] # None => Genuine(held[l])' /\ held[l].from = l
        /\ \A i \in DOMAIN queue : Genuine(queue[i])' /\ queue[i].from # None
        /\ \A p \in Numbered : RequestAt(p.time)'
    BY <1>3, <1>4, <1>10 DEF PipelineInv, EventsAreGenuine, Genuine, RequestAt
  <2>3. \A d \in Caller : handled'[d] # None =>
          Genuine(handled[d])' /\ (d # Run => handled'[d].from = None)
    BY <1>3, <1>5, <1>10 DEF PipelineInv, EventsAreGenuine, Genuine
  <2>4. \A i \in DOMAIN sends' : RequestAt(sends[i])'
    BY <1>3, <1>7, <1>9, <1>10 DEF PipelineInv, EventsAreGenuine, RequestAt
  <2> QED BY <1>4, <1>6, <2>1, <2>2, <2>3, <2>4 DEF EventsAreGenuine
<1>14. StagesAgree'
  <2>1. ASSUME NEW d \in Caller
        PROVE  StagesAgree!1!(d)'
    <3>1. CASE d = c
      BY <1>3, <1>4, <1>5, <1>6, <1>9, <3>1 DEF IsRequest
    <3>2. CASE d # c
      BY <1>4, <1>5, <1>6, <3>2 DEF PipelineInv, StagesAgree, IsRequest
    <3> QED BY <3>1, <3>2
  <2>2. ASSUME NEW d1 \in Caller, NEW d2 \in Caller,
               d1 # d2, handled'[d1] # None, handled'[d2] # None
        PROVE  handled'[d1].time # handled'[d2].time
    BY <1>3, <1>5, <1>9, <2>2 DEF PipelineInv, StagesAgree
  <2> QED BY <1>6, <2>1, <2>2 DEF PipelineInv, StagesAgree
<1>15. \A t \in Through' : t \in Through \/ t = n
  BY <1>6, <1>7 DEF Through
<1>16. Run \in Caller \ {c}
  BY <1>4, PipelineAssumption
<1>17. LineInOrder'
  <2>1. ASSUME NEW l \in Listener, held[l] # None, NEW t \in Through', SameListener(t, held[l].time)'
        PROVE  t < held[l].time
    BY <1>3, <1>4, <1>9, <1>11, <1>15, <2>1 DEF PipelineInv, LineInOrder
  <2>2. ASSUME NEW i \in DOMAIN queue, NEW t \in Through', SameListener(t, queue[i].time)'
        PROVE  t < queue[i].time
    BY <1>3, <1>4, <1>9, <1>11, <1>15, <2>2 DEF PipelineInv, LineInOrder
  <2>3. ASSUME handled[Run] # None, NEW i \in DOMAIN sends',
               SameListener(sends[i], handled[Run].time)'
        PROVE  sends'[i] < handled[Run].time
    BY <1>3, <1>5, <1>7, <1>9, <1>11, <1>16, <2>3 DEF PipelineInv, LineInOrder
  <2>4. ASSUME handled[Run] # None, at[Run] = "record", NEW p \in Numbered,
               SameListener(p.time, handled[Run].time)'
        PROVE  p.time < handled[Run].time
    BY <1>3, <1>5, <1>9, <1>11, <1>16, <2>4 DEF PipelineInv, LineInOrder
  <2>5. /\ \A l \in Listener : held[l] # None =>
              /\ \A i \in DOMAIN queue : queue[i].from = l => queue[i].time < held[l].time
              /\ handled[Run] # None /\ handled[Run].from = l => handled[Run].time < held[l].time
        /\ \A i \in DOMAIN queue :
              /\ \A j \in DOMAIN queue :
                    i < j /\ queue[i].from = queue[j].from => queue[i].time < queue[j].time
              /\ handled[Run] # None /\ handled[Run].from = queue[i].from =>
                    handled[Run].time < queue[i].time
    BY DEF PipelineInv, LineInOrder
  <2>6. handled'[Run] = handled[Run] /\ at'[Run] = at[Run]
    BY <1>5, <1>16
  <2> QED BY <1>4, <1>6, <2>1, <2>2, <2>3, <2>4, <2>5, <2>6 DEF LineInOrder
<1>18. MirroredTwice'
  <2> SUFFICES ASSUME NEW t \in 1 .. n, emitted'[t].kind = "mirrored"
               PROVE  /\ Times(t)' <= 2
                      /\ \A d \in Caller : handled'[d] # None /\ handled'[d].time = t
                            => Times(t)' <= 1
    BY <1>10 DEF MirroredTwice
  <2>1. CASE t = n
    <3>1. Times(n) = 0
      BY <1>3, <1>9, TimesNone
    <3> QED BY <1>8, <2>1, <3>1
  <2>2. CASE t # n
    <3>1. t \in DOMAIN emitted /\ emitted[t].kind = "mirrored" /\ Times(t)' = Times(t)
      BY <1>3, <1>8, <1>10, <2>2
    <3> QED BY <1>3, <1>5, <2>2, <3>1 DEF PipelineInv, MirroredTwice
  <2> QED BY <2>1, <2>2
<1>19. CaptureOrder'
  <2>1. ASSUME NEW i \in DOMAIN sends', NEW j \in DOMAIN sends', i < j,
               SameListener(sends[i], sends[j])'
        PROVE  sends'[i] < sends'[j]
    BY <1>3, <1>7, <1>9, <1>11, <2>1 DEF PipelineInv, CaptureOrder
  <2>2. ASSUME NEW p \in Numbered, NEW q \in Numbered, p.recording = q.recording,
               p.time < q.time, SameListener(p.time, q.time)'
        PROVE  p.seq < q.seq
    BY <1>3, <1>9, <1>11, <2>2 DEF PipelineInv, CaptureOrder, Numbered
  <2> QED BY <1>6, <2>1, <2>2 DEF CaptureOrder, Numbered
<1> QED BY <1>12, <1>13, <1>14, <1>17, <1>18, <1>19 DEF EventsInv

LEMMA PutKeeps ==
  ASSUME PipelineInv, NEW l \in Listener, Put(l)
  PROVE  PipelineTypeOK' /\ EventsInv'
<1> DEFINE e == held[l]
<1> DEFINE n == Len(queue) + 1
<1>1. PipelineTypeOK
  BY DEF PipelineInv
<1>2. /\ e \in Event /\ e.from = l /\ Genuine(e) /\ l # None
      /\ queue' = Append(queue, e)
      /\ held' = [held EXCEPT ![l] = None]
      /\ UNCHANGED <<append, packets, emitted, at, handled, stopped, gone, sends, since, lost>>
  BY <1>1, PipelineAssumption
     DEF Put, vars, storeVars, PipelineTypeOK, PipelineInv, EventsAreGenuine
<1>3. /\ held'[l] = None /\ \A m \in Listener \ {l} : held'[m] = held[m]
      /\ held[l] # None
  BY <1>1, <1>2 DEF PipelineTypeOK, Put
<1> HIDE DEF e
<1>4. /\ Len(queue) \in Nat /\ DOMAIN queue = 1 .. Len(queue)
      /\ DOMAIN queue' = 1 .. n /\ queue'[n] = e
      /\ \A i \in 1 .. Len(queue) : queue'[i] = queue[i]
      /\ queue' \in Seq(Event)
  BY <1>1, <1>2, AppendProperties DEF PipelineTypeOK
<1>5. Numbered' = Numbered /\ InFlight' = InFlight /\ Through' = Through
  BY <1>2 DEF Numbered, InFlight, Through
<1>6. PipelineTypeOK'
  BY <1>1, <1>2, <1>4 DEF PipelineTypeOK
<1>7. EventsAreGenuine'
  <2>1. \A m \in Listener : held'[m] # None => Genuine(held[m])' /\ held'[m].from = m
    BY <1>2, <1>3 DEF PipelineInv, EventsAreGenuine, Genuine
  <2>2. \A i \in DOMAIN queue' : Genuine(queue[i])' /\ queue'[i].from # None
    BY <1>2, <1>4 DEF PipelineInv, EventsAreGenuine, Genuine
  <2> QED BY <1>2, <1>5, <2>1, <2>2 DEF PipelineInv, EventsAreGenuine, Genuine, RequestAt
<1>8. StagesAgree' /\ MirroredTwice' /\ CaptureOrder'
  BY <1>2, <1>5 DEF PipelineInv, StagesAgree, IsRequest, MirroredTwice, CaptureOrder, Times, SameListener
<1>9. LineInOrder'
  <2>1. /\ \A t, u : SameListener(t, u)' <=> SameListener(t, u)
    BY <1>2 DEF SameListener
  <2>2. ASSUME NEW m \in Listener, held'[m] # None
        PROVE  /\ m # l /\ held'[m] = held[m]
               /\ \A t \in Through : SameListener(t, held'[m].time) => t < held'[m].time
               /\ \A i \in DOMAIN queue' : queue'[i].from = m => queue'[i].time < held'[m].time
               /\ handled[Run] # None /\ handled[Run].from = m =>
                     handled[Run].time < held'[m].time
    BY <1>2, <1>3, <1>4, <2>2 DEF PipelineInv, LineInOrder
  <2>3. ASSUME NEW i \in DOMAIN queue'
        PROVE  /\ \A t \in Through : SameListener(t, queue'[i].time) => t < queue'[i].time
               /\ handled[Run] # None /\ handled[Run].from = queue'[i].from =>
                     handled[Run].time < queue'[i].time
    <3>1. CASE i = n
      BY <1>2, <1>3, <1>4, <3>1 DEF PipelineInv, LineInOrder, e
    <3>2. CASE i # n
      BY <1>4, <3>2 DEF PipelineInv, LineInOrder
    <3> QED BY <3>1, <3>2
  <2>4. ASSUME NEW i \in DOMAIN queue', NEW j \in DOMAIN queue', i < j,
               queue'[i].from = queue'[j].from
        PROVE  queue'[i].time < queue'[j].time
    <3>1. i \in 1 .. Len(queue) /\ queue'[i] = queue[i]
      BY <1>4, <2>4
    <3>2. CASE j = n
      BY <1>2, <1>3, <1>4, <2>4, <3>1, <3>2 DEF PipelineInv, LineInOrder, e
    <3>3. CASE j # n
      BY <1>4, <2>4, <3>1, <3>3 DEF PipelineInv, LineInOrder
    <3> QED BY <3>2, <3>3
  <2>5. handled[Run] # None =>
          /\ \A i \in DOMAIN sends :
                SameListener(sends[i], handled[Run].time) => sends[i] < handled[Run].time
          /\ at[Run] = "record" => \A p \in Numbered :
                SameListener(p.time, handled[Run].time) => p.time < handled[Run].time
    BY DEF PipelineInv, LineInOrder
  <2> QED BY <1>2, <1>5, <2>1, <2>2, <2>3, <2>4, <2>5 DEF LineInOrder
<1> QED BY <1>6, <1>7, <1>8, <1>9 DEF EventsInv

LEMMA TakeKeeps ==
  ASSUME PipelineInv, Take
  PROVE  PipelineTypeOK' /\ EventsInv'
<1> DEFINE e == Head(queue)
<1>1. PipelineTypeOK
  BY DEF PipelineInv
<1>2. /\ queue # <<>> /\ queue' = Tail(queue)
      /\ handled' = [handled EXCEPT ![Run] = e]
      /\ at' = [at EXCEPT ![Run] = IF IsRequest(e) THEN "record" ELSE "forward"]
      /\ UNCHANGED <<append, packets, held, emitted, stopped, gone, sends, since, lost>>
  BY DEF Take, Begin, vars, storeVars
<1>3. /\ Len(queue) \in Nat \ {0} /\ DOMAIN queue = 1 .. Len(queue)
      /\ e = queue[1] /\ 1 \in DOMAIN queue
      /\ queue' \in Seq(Event) /\ DOMAIN queue' = 1 .. Len(queue) - 1
      /\ \A i \in DOMAIN queue' : queue'[i] = queue[i + 1] /\ i + 1 \in DOMAIN queue
  BY <1>1, <1>2, HeadTailProperties DEF PipelineTypeOK
<1>4. e \in Event /\ e # None /\ e.from # None /\ Genuine(e)
  <2>1. queue[1] \in Event
    BY <1>1, <1>3 DEF PipelineTypeOK
  <2>2. queue[1].from # None /\ Genuine(queue[1])
    BY <1>3 DEF PipelineInv, EventsAreGenuine
  <2> QED BY <1>3, <2>1, <2>2, PipelineAssumption
<1> HIDE DEF e
<1>5. /\ handled'[Run] = e /\ at'[Run] = IF IsRequest(e) THEN "record" ELSE "forward"
      /\ \A d \in Caller \ {Run} : handled'[d] = handled[d] /\ at'[d] = at[d]
      /\ append[Run] = None /\ Run \in Caller
  BY <1>1, <1>2, PipelineAssumption DEF PipelineTypeOK, PipelineInv, StagesAgree, Take
<1>6. Numbered' = Numbered /\ InFlight' = InFlight /\ Through' = Through
  BY <1>2 DEF Numbered, InFlight, Through
<1>7. PipelineTypeOK'
  BY <1>1, <1>2, <1>3, <1>4 DEF PipelineTypeOK, Stage
<1>8. EventsAreGenuine'
  <2>1. \A i \in DOMAIN queue' : Genuine(queue[i])' /\ queue'[i].from # None
    BY <1>2, <1>3 DEF PipelineInv, EventsAreGenuine, Genuine
  <2>2. \A d \in Caller : handled'[d] # None =>
          Genuine(handled[d])' /\ (d # Run => handled'[d].from = None)
    BY <1>2, <1>4, <1>5 DEF PipelineInv, EventsAreGenuine, Genuine
  <2> QED BY <1>2, <1>6, <2>1, <2>2 DEF PipelineInv, EventsAreGenuine, Genuine, RequestAt
<1>9. \A t \in Through : t # e.time
  <2> SUFFICES ASSUME e.time \in Through PROVE FALSE
    OBVIOUS
  <2>1. SameListener(e.time, e.time)
    BY <1>4 DEF SameListener, Genuine
  <2>2. e.time < e.time
    BY <1>3, <2>1 DEF PipelineInv, LineInOrder
  <2> QED BY <1>4, <2>2 DEF Event
<1>10. StagesAgree'
  <2>1. ASSUME NEW d \in Caller
        PROVE  StagesAgree!1!(d)'
    <3>1. CASE d = Run
      <4>1. append'[Run] = None /\ \A p \in Numbered' : p.time # e.time
        BY <1>2, <1>5, <1>6, <1>9 DEF Through
      <4>2. at'[Run] = "record" => IsRequest(e)
        BY <1>5
      <4> QED BY <1>4, <1>5, <3>1, <4>1, <4>2
    <3>2. CASE d # Run
      BY <1>2, <1>5, <1>6, <3>2 DEF PipelineInv, StagesAgree, IsRequest
    <3> QED BY <3>1, <3>2
  <2>2. ASSUME NEW d \in Caller \ {Run}, handled[d] # None
        PROVE  handled[d].time # e.time
    BY <1>4, <2>2 DEF PipelineInv, EventsAreGenuine, Genuine
  <2>3. ASSUME NEW d1 \in Caller, NEW d2 \in Caller,
               d1 # d2, handled'[d1] # None, handled'[d2] # None
        PROVE  handled'[d1].time # handled'[d2].time
    BY <1>5, <2>2, <2>3 DEF PipelineInv, StagesAgree
  <2> QED BY <1>6, <2>1, <2>3 DEF PipelineInv, StagesAgree
<1>11. LineInOrder'
  <2>1. \A t, u : SameListener(t, u)' <=> SameListener(t, u)
    BY <1>2 DEF SameListener
  <2>2. \A t : SameListener(t, e.time) <=> emitted[t].from # None /\ emitted[t].from = e.from
    BY <1>4 DEF SameListener, Genuine
  <2>3. ASSUME NEW m \in Listener, held[m] # None
        PROVE  /\ \A t \in Through : SameListener(t, held[m].time) => t < held[m].time
               /\ \A i \in DOMAIN queue' : queue'[i].from = m => queue'[i].time < held[m].time
               /\ e.from = m => e.time < held[m].time
    BY <1>3, <2>3 DEF PipelineInv, LineInOrder
  <2>4. ASSUME NEW i \in DOMAIN queue'
        PROVE  /\ \A t \in Through : SameListener(t, queue'[i].time) => t < queue'[i].time
               /\ \A j \in DOMAIN queue' :
                    i < j /\ queue'[i].from = queue'[j].from => queue'[i].time < queue'[j].time
               /\ e.from = queue'[i].from => e.time < queue'[i].time
    BY <1>3, <2>4 DEF PipelineInv, LineInOrder
  <2>5. /\ \A i \in DOMAIN sends : SameListener(sends[i], e.time) => sends[i] < e.time
        /\ \A p \in Numbered : SameListener(p.time, e.time) => p.time < e.time
    BY <1>3 DEF PipelineInv, LineInOrder, Through
  <2> QED BY <1>2, <1>5, <1>6, <2>1, <2>3, <2>4, <2>5 DEF LineInOrder
<1>12. MirroredTwice'
  <2>1. \A t : Times(t)' = Times(t)
    BY <1>2 DEF Times
  <2>2. emitted[e.time].kind # "mirrored"
    BY <1>4 DEF PipelineInv, EventsAreGenuine, Genuine
  <2> QED BY <1>2, <1>5, <2>1, <2>2 DEF PipelineInv, MirroredTwice
<1>13. CaptureOrder'
  BY <1>2, <1>6 DEF PipelineInv, CaptureOrder, SameListener
<1> QED BY <1>7, <1>8, <1>10, <1>11, <1>12, <1>13 DEF EventsInv

(* A packet gets its number. *)
LEMMA RecordKeeps ==
  ASSUME PipelineInv, NEW c \in Caller, Record(c), activeID # None
  PROVE  /\ MaybeRecord(c, handled[c].time) /\ handled[c].time \in Time
         /\ append'[c].recording = activeID
         /\ PipelineTypeOK' /\ EventsInv'
<1> DEFINE t == handled[c].time
<1> DEFINE p == Numbering(t)
<1>1. PipelineTypeOK /\ TypeOK /\ RecorderInv
  BY DEF PipelineInv, RecorderInv
<1>2. /\ at[c] = "record" /\ at' = [at EXCEPT ![c] = "append"]
      /\ MaybeRecord(c, t)
      /\ append' = [append EXCEPT ![c] = p] /\ append[c] = None
      /\ UNCHANGED <<packets, emitted, held, queue, handled, stopped, gone, sends, since, lost>>
  BY DEF Record, MaybeRecord, storeVars
<1>3. /\ handled[c] \in Event /\ Genuine(handled[c]) /\ IsRequest(handled[c])
      /\ t \in 1 .. MaxEvents /\ t \in Time /\ t \in Int
  BY <1>1, <1>2, PipelineAssumption
     DEF PipelineTypeOK, PipelineInv, StagesAgree, EventsAreGenuine, Event
<1>4. /\ p \in Packet /\ p # None /\ p.recording = activeID /\ p.seq = seq /\ p.time = t
  <2>1. activeID \in Recording /\ seq \in Nat /\ lastTimestamp \in Int \cup {None}
    BY <1>1, RecorderAssumption DEF TypeOK, PipelineInv
  <2>2. lastTimestamp # None => Milliseconds(t - lastTimestamp) \in Int
    BY <1>3, <2>1, MillisecondsFit
  <2>3. p \in Packet
    BY <1>3, <2>1, <2>2 DEF Packet, Numbering
  <2>4. p.recording = activeID /\ p.seq = seq /\ p.time = t
    BY DEF Numbering
  <2> QED BY <2>3, <2>4, NoneIsNoRow
<1> HIDE DEF p
<1>5. /\ append'[c] = p /\ at'[c] = "append"
      /\ \A d \in Caller \ {c} : append'[d] = append[d] /\ at'[d] = at[d]
      /\ Numbered' = Numbered \cup {p}
  BY <1>1, <1>2, <1>4 DEF PipelineTypeOK, TypeOK, Numbered, InFlight
<1>6. \A q \in Numbered : q.time # t
  BY <1>2 DEF PipelineInv, StagesAgree
<1>7. PipelineTypeOK'
  BY <1>1, <1>2 DEF PipelineTypeOK, Stage
<1>8. EventsAreGenuine'
  <2>1. RequestAt(t)
    BY <1>3 DEF RequestAt, Genuine, IsRequest
  <2>2. \A q \in Numbered' : RequestAt(q.time)'
    BY <1>2, <1>4, <1>5, <2>1 DEF PipelineInv, EventsAreGenuine, RequestAt
  <2> QED BY <1>2, <2>2 DEF PipelineInv, EventsAreGenuine, Genuine, RequestAt
<1>9. StagesAgree'
  <2>1. ASSUME NEW d \in Caller
        PROVE  StagesAgree!1!(d)'
    <3>1. CASE d = c
      BY <1>2, <1>3, <1>4, <1>5, <3>1 DEF PipelineInv, StagesAgree, IsRequest
    <3>2. CASE d # c
      <4>1. at[d] = "record" => handled[d].time # t
        BY <1>2, <3>2 DEF PipelineInv, StagesAgree
      <4> QED BY <1>2, <1>4, <1>5, <3>2, <4>1 DEF PipelineInv, StagesAgree, IsRequest
    <3> QED BY <3>1, <3>2
  <2>2. \A q1, q2 \in Numbered' : q1.time = q2.time => q1 = q2
    BY <1>4, <1>5, <1>6 DEF PipelineInv, StagesAgree
  <2> QED BY <1>2, <2>1, <2>2 DEF PipelineInv, StagesAgree
<1>10. handled[c].from # None => c = Run
  BY <1>2 DEF PipelineInv, EventsAreGenuine, StagesAgree
<1>11. \A u, v : SameListener(u, v)' <=> SameListener(u, v)
  BY <1>2 DEF SameListener
<1>12. \A u : (SameListener(t, u) \/ SameListener(u, t)) =>
          c = Run /\ handled[Run] # None
  BY <1>2, <1>3, <1>10 DEF SameListener, Genuine, PipelineInv, StagesAgree
<1>13. Through' = Through \cup {t}
  BY <1>2, <1>4, <1>5 DEF Through
<1>14. LineInOrder'
  <2>1. ASSUME NEW m \in Listener, held[m] # None, SameListener(t, held[m].time)
        PROVE  t < held[m].time
    BY <1>3, <1>12, <2>1 DEF PipelineInv, LineInOrder, EventsAreGenuine, SameListener, Genuine
  <2>2. ASSUME NEW i \in DOMAIN queue, SameListener(t, queue[i].time)
        PROVE  t < queue[i].time
    BY <1>3, <1>12, <2>2 DEF PipelineInv, LineInOrder, EventsAreGenuine, SameListener, Genuine
  <2>3. ASSUME at'[Run] = "record", NEW q \in Numbered', handled[Run] # None,
               SameListener(q.time, handled[Run].time)
        PROVE  q.time < handled[Run].time
    <3>1. c # Run /\ at[Run] = "record"
      BY <1>5, <2>3, PipelineAssumption
    <3>2. q \in Numbered
      BY <1>4, <1>5, <1>12, <2>3, <3>1
    <3> QED BY <2>3, <3>1, <3>2 DEF PipelineInv, LineInOrder
  <2> QED BY <1>2, <1>11, <1>13, <2>1, <2>2, <2>3 DEF PipelineInv, LineInOrder
<1>15. MirroredTwice'
  BY <1>2 DEF PipelineInv, MirroredTwice, Times
<1>16. CaptureOrder'
  <2>1. ASSUME NEW q1 \in Numbered', NEW q2 \in Numbered', q1.recording = q2.recording,
               q1.time < q2.time, SameListener(q1.time, q2.time)
        PROVE  q1.seq < q2.seq
    <3>1. CASE q1 \in Numbered /\ q2 \in Numbered
      BY <2>1, <3>1 DEF PipelineInv, CaptureOrder, Numbered
    <3>2. CASE q1 = p /\ q2 = p
      BY <1>3, <1>4, <2>1, <3>2
    <3>3. CASE q1 \in Numbered /\ q2 = p
      BY <1>4, <2>1, <3>3 DEF PipelineInv, RecorderInv, MemoryIsCurrent
    <3>4. CASE q1 = p /\ q2 \in Numbered
      <4>1. c = Run /\ handled[Run] # None /\ at[Run] = "record"
        BY <1>2, <1>4, <1>12, <2>1, <3>4
      <4>2. SameListener(q2.time, t)
        BY <1>4, <2>1, <3>4 DEF SameListener
      <4>3. q2.time < t
        BY <3>4, <4>1, <4>2 DEF PipelineInv, LineInOrder
      <4>4. q2.time \in Int
        BY <1>1, <3>4, NumberedType, RecorderAssumption DEF Packet
      <4> QED BY <1>3, <1>4, <2>1, <3>4, <4>3, <4>4
    <3> QED BY <1>5, <3>1, <3>2, <3>3, <3>4
  <2> QED BY <1>2, <1>11, <2>1 DEF PipelineInv, CaptureOrder, Numbered
<1> QED BY <1>2, <1>3, <1>4, <1>5, <1>7, <1>8, <1>9, <1>14, <1>15, <1>16 DEF EventsInv
(* Whether or not it was recorded, a packet goes on to the forwarder. *)
LEMMA GoesOn ==
  ASSUME PipelineInv, NEW c \in Caller, at[c] \in {"record", "append"},
         UNCHANGED <<emitted, held, queue, handled, stopped, gone, sends, since>>,
         at' = [at EXCEPT ![c] = "forward"],
         append' = [append EXCEPT ![c] = None],
         Numbered' \subseteq Numbered,
         lost' \subseteq 1 .. MaxEvents
  PROVE  PipelineTypeOK' /\ EventsInv'
<1>1. PipelineTypeOK /\ TypeOK
  BY DEF PipelineInv, RecorderInv
<1>2. /\ at'[c] = "forward" /\ append'[c] = None
      /\ \A d \in Caller \ {c} : at'[d] = at[d] /\ append'[d] = append[d]
  BY <1>1 DEF PipelineTypeOK, TypeOK
<1>3. PipelineTypeOK'
  BY <1>1 DEF PipelineTypeOK, Stage
<1>4. Through' \subseteq Through
  BY DEF Through
<1>5. \A t, u : SameListener(t, u)' <=> SameListener(t, u)
  BY DEF SameListener
<1>6. EventsAreGenuine'
  BY DEF PipelineInv, EventsAreGenuine, Genuine, RequestAt
<1>7. StagesAgree'
  <2>1. ASSUME NEW d \in Caller
        PROVE  StagesAgree!1!(d)'
    <3>1. CASE d = c
      BY <1>2, <3>1 DEF PipelineInv, StagesAgree, IsRequest
    <3>2. CASE d # c
      BY <1>2, <3>2 DEF PipelineInv, StagesAgree, IsRequest
    <3> QED BY <3>1, <3>2
  <2> QED BY <2>1 DEF PipelineInv, StagesAgree
<1>8. LineInOrder'
  <2>1. at'[Run] = "record" => at[Run] = "record"
    BY <1>2, PipelineAssumption
  <2> QED BY <1>4, <1>5, <2>1 DEF PipelineInv, LineInOrder
<1>9. MirroredTwice'
  BY DEF PipelineInv, MirroredTwice, Times
<1>10. CaptureOrder'
  BY <1>5 DEF PipelineInv, CaptureOrder, Numbered
<1> QED BY <1>3, <1>6, <1>7, <1>8, <1>9, <1>10 DEF EventsInv

LEMMA RecordSkips ==
  ASSUME PipelineInv, NEW c \in Caller, Record(c), activeID = None
  PROVE  PipelineTypeOK' /\ EventsInv'
<1>1. PipelineTypeOK /\ TypeOK
  BY DEF PipelineInv, RecorderInv
<1>2. /\ at[c] = "record" /\ at' = [at EXCEPT ![c] = "forward"]
      /\ UNCHANGED <<append, packets, emitted, held, queue, handled, stopped, gone, sends, since, lost>>
  BY DEF Record, vars, storeVars
<1>3. append[c] = None /\ append' = [append EXCEPT ![c] = None]
  BY <1>1, <1>2 DEF TypeOK, PipelineInv, StagesAgree
<1>4. Numbered' = Numbered
  BY <1>2 DEF Numbered, InFlight
<1>5. lost' \subseteq 1 .. MaxEvents
  BY <1>1, <1>2 DEF PipelineTypeOK
<1> QED BY <1>2, <1>3, <1>4, <1>5, GoesOn

(* The store takes the packet, or the packet is lost. *)
LEMMA AppendToStoreKeeps ==
  ASSUME PipelineInv, NEW c \in Caller, AppendToStore(c)
  PROVE  /\ PipelineTypeOK' /\ EventsInv'
         /\ handled[c].time \in lost' \/ (append[c] \in packets' /\ append[c].time = handled[c].time)
<1>1. PipelineTypeOK /\ TypeOK
  BY DEF PipelineInv, RecorderInv
<1>2. /\ at[c] = "append" /\ at' = [at EXCEPT ![c] = "forward"]
      /\ append[c] # None /\ append' = [append EXCEPT ![c] = None]
      /\ packets' \in {packets, packets \cup {append[c]}}
      /\ lost' = IF packets' = packets THEN lost \cup {handled[c].time} ELSE lost
      /\ UNCHANGED <<emitted, held, queue, handled, stopped, gone, sends, since>>
  BY DEF AppendToStore, RecordAppends, AppendFails, AppendRecordingPacket, StoreUnchanged, storeVars
<1>3. append[c].time = handled[c].time /\ handled[c].time \in 1 .. MaxEvents
  BY <1>1, <1>2 DEF PipelineInv, StagesAgree, PipelineTypeOK, Event
<1>4. Numbered' \subseteq Numbered
  <2>1. append[c] \in InFlight
    BY <1>2 DEF InFlight
  <2>2. InFlight' \subseteq InFlight
    BY <1>1, <1>2 DEF InFlight, TypeOK
  <2> QED BY <1>2, <2>1, <2>2 DEF Numbered
<1>5. lost' \subseteq 1 .. MaxEvents
  BY <1>1, <1>2, <1>3 DEF PipelineTypeOK
<1>6. PipelineTypeOK' /\ EventsInv'
  BY <1>2, <1>4, <1>5, GoesOn
<1> QED BY <1>2, <1>3, <1>6

(* A request is forwarded, and the goroutine has nothing in hand any more. *)
LEMMA FinishKeeps ==
  ASSUME PipelineInv, NEW c \in Caller, Finish(c)
  PROVE  PipelineTypeOK' /\ EventsInv'
<1> DEFINE t == handled[c].time
<1>1. PipelineTypeOK
  BY DEF PipelineInv
<1>2. /\ at[c] = "forward" /\ at' = [at EXCEPT ![c] = "idle"]
      /\ handled' = [handled EXCEPT ![c] = None]
      /\ sends' = IF IsRequest(handled[c]) THEN Append(sends, t) ELSE sends
      /\ UNCHANGED <<append, packets, emitted, held, queue, stopped, gone, since, lost>>
  BY DEF Finish, Handed, vars, storeVars
<1>3. handled[c] # None /\ append[c] = None
  BY <1>2 DEF PipelineInv, StagesAgree
<1>4. handled[c] \in Event /\ Genuine(handled[c]) /\ t \in 1 .. MaxEvents
  BY <1>1, <1>3 DEF PipelineTypeOK, PipelineInv, EventsAreGenuine, Event
<1>5. /\ handled'[c] = None /\ at'[c] = "idle"
      /\ \A d \in Caller \ {c} : handled'[d] = handled[d] /\ at'[d] = at[d]
  BY <1>1, <1>2 DEF PipelineTypeOK
<1>6. Numbered' = Numbered /\ InFlight' = InFlight
  BY <1>2 DEF Numbered, InFlight
<1>7. /\ sends' \in Seq(1 .. MaxEvents)
      /\ Len(sends) \in Nat /\ DOMAIN sends = 1 .. Len(sends)
      /\ \A i \in DOMAIN sends' :
            \/ i \in DOMAIN sends /\ sends'[i] = sends[i]
            \/ i = Len(sends) + 1 /\ sends'[i] = t /\ IsRequest(handled[c])
  <2>1. CASE IsRequest(handled[c])
    <3>1. sends' = Append(sends, t) /\ sends \in Seq(1 .. MaxEvents)
      BY <1>1, <1>2, <2>1 DEF PipelineTypeOK
    <3> HIDE DEF t
    <3> QED BY <1>4, <2>1, <3>1, AppendProperties
  <2>2. CASE ~IsRequest(handled[c])
    BY <1>1, <1>2, <2>2 DEF PipelineTypeOK
  <2> QED BY <2>1, <2>2
<1>8. PipelineTypeOK'
  BY <1>1, <1>2, <1>7 DEF PipelineTypeOK, Stage
<1>9. \A u, v : SameListener(u, v)' <=> SameListener(u, v)
  BY <1>2 DEF SameListener
<1>10. IsRequest(handled[c]) => RequestAt(t)
  BY <1>4 DEF RequestAt, Genuine, IsRequest
<1>11. \A u \in Through' : u \in Through \/ u = t
  BY <1>6, <1>7 DEF Through
<1>12. \A u : (SameListener(t, u) \/ SameListener(u, t)) => c = Run
  BY <1>3, <1>4 DEF SameListener, Genuine, PipelineInv, EventsAreGenuine
<1> HIDE DEF t
<1>13. EventsAreGenuine'
  <2>1. \A i \in DOMAIN sends' : RequestAt(sends[i])'
    BY <1>2, <1>7, <1>10 DEF PipelineInv, EventsAreGenuine, RequestAt
  <2>2. \A d \in Caller : handled'[d] # None =>
          Genuine(handled[d])' /\ (d # Run => handled'[d].from = None)
    BY <1>2, <1>5 DEF PipelineInv, EventsAreGenuine, Genuine
  <2> QED BY <1>2, <1>6, <2>1, <2>2 DEF PipelineInv, EventsAreGenuine, Genuine, RequestAt
<1>14. StagesAgree'
  <2>1. ASSUME NEW d \in Caller
        PROVE  StagesAgree!1!(d)'
    <3>1. CASE d = c
      BY <1>2, <1>3, <1>5, <3>1
    <3>2. CASE d # c
      BY <1>2, <1>5, <1>6, <3>2 DEF PipelineInv, StagesAgree, IsRequest
    <3> QED BY <3>1, <3>2
  <2>2. ASSUME NEW d1 \in Caller, NEW d2 \in Caller,
               d1 # d2, handled'[d1] # None, handled'[d2] # None
        PROVE  handled'[d1].time # handled'[d2].time
    BY <1>5, <2>2 DEF PipelineInv, StagesAgree
  <2> QED BY <1>6, <2>1, <2>2 DEF PipelineInv, StagesAgree
<1>15. LineInOrder'
  <2>1. ASSUME NEW m \in Listener, held[m] # None, SameListener(t, held[m].time)
        PROVE  t < held[m].time
    BY <1>3, <1>4, <1>12, <2>1
       DEF PipelineInv, LineInOrder, EventsAreGenuine, SameListener, Genuine, t
  <2>2. ASSUME NEW i \in DOMAIN queue, SameListener(t, queue[i].time)
        PROVE  t < queue[i].time
    BY <1>3, <1>4, <1>12, <2>2
       DEF PipelineInv, LineInOrder, EventsAreGenuine, SameListener, Genuine, t
  <2>3. ASSUME handled'[Run] # None
        PROVE  /\ c # Run /\ handled'[Run] = handled[Run] /\ at'[Run] = at[Run]
               /\ \A i \in DOMAIN sends' :
                     SameListener(sends'[i], handled[Run].time) => sends'[i] < handled[Run].time
    <3>1. c # Run /\ handled'[Run] = handled[Run] /\ at'[Run] = at[Run]
      BY <1>5, <2>3, PipelineAssumption
    <3> QED BY <1>7, <1>12, <2>3, <3>1 DEF PipelineInv, LineInOrder
  <2>4. ASSUME NEW m \in Listener, held[m] # None
        PROVE  /\ \A u \in Through' : SameListener(u, held[m].time) => u < held[m].time
               /\ \A i \in DOMAIN queue : queue[i].from = m => queue[i].time < held[m].time
    BY <1>11, <2>1, <2>4 DEF PipelineInv, LineInOrder
  <2>5. ASSUME NEW i \in DOMAIN queue
        PROVE  /\ \A u \in Through' : SameListener(u, queue[i].time) => u < queue[i].time
               /\ \A j \in DOMAIN queue :
                    i < j /\ queue[i].from = queue[j].from => queue[i].time < queue[j].time
    BY <1>11, <2>2, <2>5 DEF PipelineInv, LineInOrder
  <2>6. handled[Run] # None =>
          /\ \A m \in Listener : held[m] # None /\ handled[Run].from = m =>
                handled[Run].time < held[m].time
          /\ \A i \in DOMAIN queue : handled[Run].from = queue[i].from =>
                handled[Run].time < queue[i].time
          /\ at[Run] = "record" => \A p \in Numbered :
                SameListener(p.time, handled[Run].time) => p.time < handled[Run].time
    BY DEF PipelineInv, LineInOrder
  <2> QED BY <1>2, <1>6, <1>9, <2>3, <2>4, <2>5, <2>6 DEF LineInOrder
<1>16. MirroredTwice'
  <2> SUFFICES ASSUME NEW u \in DOMAIN emitted, emitted[u].kind = "mirrored"
               PROVE  /\ Times(u)' <= 2
                      /\ \A d \in Caller : handled'[d] # None /\ handled'[d].time = u
                            => Times(u)' <= 1
    BY <1>2 DEF MirroredTwice
  <2>1. Times(u) \in Nat
    BY <1>1, TimesType
  <2>2. CASE u = t
    <3>1. Times(u) <= 1
      BY <1>3, <2>2 DEF PipelineInv, MirroredTwice, t
    <3>2. Times(u)' \in {Times(u), Times(u) + 1}
      <4>1. CASE IsRequest(handled[c])
        BY <1>1, <1>2, <1>4, <2>2, <4>1, TimesAppend
      <4>2. CASE ~IsRequest(handled[c])
        BY <1>2, <4>2 DEF Times
      <4> QED BY <4>1, <4>2
    <3>3. \A d \in Caller : handled'[d] # None => handled'[d].time # u
      BY <1>3, <1>5, <2>2 DEF PipelineInv, StagesAgree, t
    <3> QED BY <2>1, <3>1, <3>2, <3>3
  <2>3. CASE u # t
    <3>1. Times(u)' = Times(u)
      <4>1. CASE IsRequest(handled[c])
        BY <1>1, <1>2, <1>4, <2>3, <4>1, TimesAppend
      <4>2. CASE ~IsRequest(handled[c])
        BY <1>2, <4>2 DEF Times
      <4> QED BY <4>1, <4>2
    <3> QED BY <1>5, <3>1 DEF PipelineInv, MirroredTwice
  <2> QED BY <2>2, <2>3
<1>17. CaptureOrder'
  <2>1. ASSUME NEW i \in DOMAIN sends', NEW j \in DOMAIN sends', i < j,
               SameListener(sends'[i], sends'[j])
        PROVE  sends'[i] < sends'[j]
    <3>1. i \in DOMAIN sends /\ sends'[i] = sends[i]
      BY <1>7, <2>1
    <3>2. CASE j \in DOMAIN sends /\ sends'[j] = sends[j]
      BY <2>1, <3>1, <3>2 DEF PipelineInv, CaptureOrder
    <3>3. CASE sends'[j] = t
      BY <1>3, <1>12, <2>1, <3>1, <3>3 DEF PipelineInv, LineInOrder, t
    <3> QED BY <1>7, <3>2, <3>3
  <2> QED BY <1>2, <1>6, <1>9, <2>1 DEF PipelineInv, CaptureOrder
<1> QED BY <1>8, <1>13, <1>14, <1>15, <1>16, <1>17 DEF EventsInv
----------------------------------------------------------------------------
(* The times of the requests of the active recording that need not be      *)
(* looked for any more.                                                    *)
Kept == lost \cup {p.time : p \in Stored(activeID)}
Complete == RecordedBeforeForward /\ RecordingIsComplete

(* While no other recording becomes active and no row of it goes, a packet *)
(* has only to be in the store before it is forwarded.                     *)
LEMMA StaysComplete ==
  ASSUME PipelineInv, activeID # None, UNCHANGED <<activeID, since>>, lost \subseteq lost',
         recordings'[activeID] # None =>
             recordings[activeID] # None /\ Stored(activeID) \subseteq Stored(activeID)',
         \A c \in Caller : handled'[c] # None =>
           \/ handled'[c] = handled[c] /\ at'[c] = at[c] /\ append'[c] = append[c]
           \/ at'[c] = "record"
           \/ at'[c] = "append" /\ append'[c].recording = activeID
           \/ at'[c] = "forward" /\ ~IsRequest(handled'[c])
           \/ /\ at'[c] = "forward"
              /\ since < handled'[c].time /\ recordings'[activeID] # None =>
                    handled'[c].time \in Kept',
         \A t \in DOMAIN emitted' : Processed(t)' =>
           \/ t \in DOMAIN emitted /\ Processed(t)
           \/ since < t /\ recordings'[activeID] # None => t \in Kept'
  PROVE  Complete'
<1>1. recordings'[activeID] # None => recordings[activeID] # None /\ Kept \subseteq Kept'
  BY DEF Kept
<1>2. RecordedBeforeForward'
  <2> SUFFICES ASSUME NEW c \in Caller, handled'[c] # None, since < handled'[c].time
               PROVE  /\ at'[c] = "append" => append'[c].recording = activeID
                      /\ at'[c] = "forward" /\ IsRequest(handled'[c]) /\ recordings'[activeID] # None =>
                            handled'[c].time \in Kept'
    BY DEF RecordedBeforeForward, Kept, IsRequest
  <2>1. CASE handled'[c] = handled[c] /\ at'[c] = at[c] /\ append'[c] = append[c]
    BY <1>1, <2>1 DEF PipelineInv, RecordedBeforeForward, Kept
  <2>2. CASE ~(handled'[c] = handled[c] /\ at'[c] = at[c] /\ append'[c] = append[c])
    BY <2>2
  <2> QED BY <2>1, <2>2
<1>3. RecordingIsComplete'
  <2> SUFFICES ASSUME NEW t \in DOMAIN emitted', since < t, Processed(t)',
                      recordings'[activeID] # None
               PROVE  t \in Kept'
    BY DEF RecordingIsComplete, Kept
  <2>1. CASE t \in DOMAIN emitted /\ Processed(t)
    BY <1>1, <2>1 DEF PipelineInv, RecordingIsComplete, Kept
  <2> QED BY <2>1
<1> QED BY <1>2, <1>3 DEF Complete

LEMMA InactiveComplete ==
  ASSUME activeID' = None
  PROVE  Complete'
BY DEF Complete, RecordedBeforeForward, RecordingIsComplete

(* A recording that starts has no packets to wait for. *)
LEMMA StartComplete ==
  ASSUME PipelineInv, UNCHANGED <<emitted, handled>>, since' = Len(emitted)
  PROVE  Complete'
<1>1. DOMAIN emitted = 1 .. Len(emitted) /\ Len(emitted) \in Nat
  BY DEF PipelineInv, PipelineTypeOK
<1>2. \A c \in Caller : handled[c] # None => ~(since' < handled[c].time)
  BY <1>1 DEF PipelineInv, EventsAreGenuine, Genuine
<1>3. \A t \in DOMAIN emitted : ~(since' < t)
  BY <1>1
<1> QED BY <1>2, <1>3 DEF Complete, RecordedBeforeForward, RecordingIsComplete

(* What is new has not been processed. *)
LEMMA NewIsNotProcessed ==
  ASSUME PipelineInv, NEW e \in Event, New(e), e.time = Len(emitted) + 1,
         \/ sends' = sends
         \/ sends' = Append(sends, e.time) /\ e.kind = "mirrored",
         NEW t \in DOMAIN emitted', Processed(t)'
  PROVE  t \in DOMAIN emitted /\ Processed(t)
<1> PICK n : n = Len(emitted) + 1
  OBVIOUS
<1>1. PipelineTypeOK
  BY DEF PipelineInv
<1>2. /\ DOMAIN emitted' = 1 .. n /\ DOMAIN emitted = 1 .. Len(emitted) /\ Len(emitted) \in Nat
      /\ emitted'[n] = e /\ n \in 1 .. MaxEvents
      /\ \A u \in DOMAIN emitted : emitted'[u] = emitted[u]
  BY <1>1, EmittedGrows
<1>3. Times(n) = 0
  <2>1. \A i \in DOMAIN sends : sends[i] # n
    BY <1>2 DEF PipelineInv, EventsAreGenuine, RequestAt
  <2> QED BY <2>1, TimesNone
<1>4. t # n => Times(t)' = Times(t)
  <2>1. CASE sends' = sends
    BY <2>1 DEF Times
  <2>2. CASE sends' = Append(sends, n)
    BY <1>1, <1>2, <2>2, TimesAppend
  <2> QED BY <2>1, <2>2
<1>5. CASE t = n
  <2>1. CASE sends' = sends
    <3>1. Times(n)' = 0
      BY <1>3, <2>1 DEF Times
    <3> QED BY <1>2, <1>5, <3>1 DEF Processed
  <2>2. CASE sends' = Append(sends, n) /\ e.kind = "mirrored"
    <3>1. Times(n)' = 1
      BY <1>1, <1>2, <1>3, <2>2, TimesAppend
    <3> QED BY <1>2, <1>5, <2>2, <3>1 DEF Processed
  <2> QED BY <2>1, <2>2
<1>6. CASE t # n
  BY <1>2, <1>4, <1>6 DEF Processed
<1> QED BY <1>5, <1>6
(* Events that come and move leave the recorder alone. *)
LEMMA EventComplete ==
  ASSUME PipelineInv,
         \/ \E l \in Listener : (\E k \in {"captured", "answer"} : Receive(l, k)) \/ Put(l)
         \/ Take
         \/ \E c \in Caller : Mirror(c) \/ Answer(c)
  PROVE  Complete'
<1>1. UNCHANGED <<activeID, recordings, packets, append, since, lost>>
  BY DEF Receive, Put, Take, Mirror, Answer, vars, memoryVars, storeVars
<1>2. CASE activeID = None
  BY <1>1, <1>2, InactiveComplete
<1>3. CASE activeID # None
  <2>1. \A c \in Caller : handled'[c] # None =>
          \/ handled'[c] = handled[c] /\ at'[c] = at[c]
          \/ at'[c] = "record"
          \/ at'[c] = "forward" /\ ~IsRequest(handled'[c])
    <3>1. CASE UNCHANGED <<handled, at>>
      BY <3>1
    <3>2. ASSUME NEW c \in Caller, NEW e, Begin(c, e)
          PROVE  \A d \in Caller : handled'[d] # None =>
                   \/ handled'[d] = handled[d] /\ at'[d] = at[d]
                   \/ at'[d] = "record"
                   \/ at'[d] = "forward" /\ ~IsRequest(handled'[d])
      BY <3>2 DEF Begin, PipelineInv, PipelineTypeOK
    <3> QED BY <3>1, <3>2, PipelineAssumption DEF Receive, Put, Take, Mirror, Answer
  <2>2. ASSUME NEW t \in DOMAIN emitted', Processed(t)'
        PROVE  t \in DOMAIN emitted /\ Processed(t)
    <3>1. CASE UNCHANGED <<emitted, sends>>
      BY <2>2, <3>1 DEF Processed, Times
    <3>2. ASSUME NEW l \in Listener, NEW k \in {"captured", "answer"}, Receive(l, k)
          PROVE  t \in DOMAIN emitted /\ Processed(t)
      <4>1. /\ NewEvent(k, l) \in Event /\ New(NewEvent(k, l)) /\ sends' = sends
            /\ NewEvent(k, l).time = Len(emitted) + 1
        BY <3>2, NewEventType DEF Receive, New, PipelineInv, Kind
      <4> QED BY <2>2, <4>1, NewIsNotProcessed
    <3>3. ASSUME NEW c \in Caller, Mirror(c)
          PROVE  t \in DOMAIN emitted /\ Processed(t)
      <4>1. /\ NewEvent("mirrored", None) \in Event /\ New(NewEvent("mirrored", None))
            /\ NewEvent("mirrored", None).time = Len(emitted) + 1
            /\ NewEvent("mirrored", None).kind = "mirrored"
            /\ sends' = Append(sends, Len(emitted) + 1)
        BY <3>3, NewEventType, EmittedGrows DEF Mirror, New, PipelineInv, PipelineTypeOK, Kind
      <4> QED BY <2>2, <4>1, NewIsNotProcessed
    <3>4. ASSUME NEW c \in Caller, Answer(c)
          PROVE  t \in DOMAIN emitted /\ Processed(t)
      <4>1. /\ NewEvent("answer", None) \in Event /\ New(NewEvent("answer", None))
            /\ NewEvent("answer", None).time = Len(emitted) + 1
            /\ sends' = sends
        BY <3>4, NewEventType DEF Answer, New, PipelineInv, Kind
      <4> QED BY <2>2, <4>1, NewIsNotProcessed
    <3> QED BY <3>1, <3>2, <3>3, <3>4 DEF Put, Take
  <2>3. Stored(activeID)' = Stored(activeID) /\ activeID' # None
    BY <1>1, <1>3 DEF Stored
  <2> QED BY <1>1, <1>3, <2>1, <2>2, <2>3, StaysComplete
<1> QED BY <1>2, <1>3

LEMMA RecordComplete ==
  ASSUME PipelineInv, NEW c \in Caller, Record(c)
  PROVE  Complete'
<1>1. /\ UNCHANGED <<activeID, recordings, packets, emitted, handled, sends, since, lost>>
      /\ \A d \in Caller \ {c} : at'[d] = at[d] /\ append'[d] = append[d]
  BY DEF Record, MaybeRecord, vars, memoryVars, storeVars,
         PipelineInv, PipelineTypeOK, RecorderInv, TypeOK
<1>2. CASE activeID = None
  BY <1>1, <1>2, InactiveComplete
<1>3. CASE activeID # None
  <2>1. at'[c] = "append" /\ append'[c].recording = activeID
    BY <1>3, RecordKeeps DEF Record, PipelineInv, PipelineTypeOK
  <2>2. \A t : Processed(t)' <=> Processed(t)
    BY <1>1 DEF Processed, Times
  <2>3. Stored(activeID)' = Stored(activeID)
    BY <1>1 DEF Stored
  <2> QED BY <1>1, <1>3, <2>1, <2>2, <2>3, StaysComplete
<1> QED BY <1>2, <1>3

(* What was numbered is in the rows after this, or it is lost. *)
LEMMA AppendComplete ==
  ASSUME PipelineInv, NEW c \in Caller, AppendToStore(c)
  PROVE  Complete'
<1>1. /\ UNCHANGED <<activeID, emitted, handled, sends, since>>
      /\ at[c] = "append" /\ at'[c] = "forward" /\ packets \subseteq packets'
      /\ lost \subseteq lost'
      /\ \A r \in Recording : recordings'[r] # None => recordings[r] # None
      /\ \A d \in Caller \ {c} : at'[d] = at[d] /\ append'[d] = append[d]
  <2>1. append[c] \in Packet /\ append[c].recording \in Recording
    BY DEF AppendToStore, RecordAppends, AppendFails, PipelineInv, RecorderInv, TypeOK, Packet
  <2>2. \/ UNCHANGED recordings
        \/ recordings' = [recordings EXCEPT ![append[c].recording].packet_count = @ + 1]
           /\ recordings[append[c].recording] # None
    BY DEF AppendToStore, RecordAppends, AppendFails, AppendRecordingPacket, StoreUnchanged, storeVars
  <2>3. \A r \in Recording : recordings'[r] # None => recordings[r] # None
    BY <2>1, <2>2 DEF PipelineInv, RecorderInv, TypeOK
  <2> QED BY <2>3 DEF AppendToStore, RecordAppends, AppendFails, AppendRecordingPacket,
        StoreUnchanged, memoryVars, storeVars,
        PipelineInv, PipelineTypeOK, RecorderInv, TypeOK
<1>2. CASE activeID = None
  BY <1>1, <1>2, InactiveComplete
<1>3. CASE activeID # None
  <2>1. activeID \in Recording
    BY <1>3 DEF PipelineInv, RecorderInv, TypeOK
  <2>2. \A t : Processed(t)' <=> Processed(t)
    BY <1>1 DEF Processed, Times
  <2>3. Stored(activeID) \subseteq Stored(activeID)'
    BY <1>1 DEF Stored
  <2>4. handled[c] # None /\ since < handled[c].time => handled[c].time \in Kept'
    <3> SUFFICES ASSUME handled[c] # None, since < handled[c].time PROVE handled[c].time \in Kept'
      OBVIOUS
    <3>1. append[c].recording = activeID
      BY <1>1, <1>3 DEF PipelineInv, RecordedBeforeForward
    <3> QED BY <1>1, <3>1, AppendToStoreKeeps DEF Kept, Stored
  <2> QED BY <1>1, <1>3, <2>1, <2>2, <2>3, <2>4, StaysComplete
<1> QED BY <1>2, <1>3

LEMMA FinishComplete ==
  ASSUME PipelineInv, NEW c \in Caller, Finish(c)
  PROVE  Complete'
<1>1. /\ UNCHANGED <<activeID, recordings, packets, append, emitted, since, lost>>
      /\ at[c] = "forward" /\ handled'[c] = None /\ handled[c] # None
      /\ \A d \in Caller \ {c} : handled'[d] = handled[d] /\ at'[d] = at[d]
  BY DEF Finish, vars, memoryVars, storeVars, PipelineInv, PipelineTypeOK, StagesAgree
<1>2. CASE activeID = None
  BY <1>1, <1>2, InactiveComplete
<1>3. CASE activeID # None
  <2>1. Stored(activeID)' = Stored(activeID) /\ Kept' = Kept
    BY <1>1 DEF Stored, Kept
  <2>2. ASSUME NEW t \in DOMAIN emitted', Processed(t)'
        PROVE  \/ t \in DOMAIN emitted /\ Processed(t)
               \/ since < t /\ recordings'[activeID] # None => t \in Kept'
    <3>1. CASE ~IsRequest(handled[c])
      BY <1>1, <2>2, <3>1 DEF Finish, Handed, Processed, Times
    <3>2. CASE IsRequest(handled[c]) /\ t = handled[c].time
      BY <1>1, <1>3, <2>1, <3>2 DEF PipelineInv, RecordedBeforeForward, Kept
    <3>3. CASE IsRequest(handled[c]) /\ t # handled[c].time
      <4>1. handled[c].time \in 1 .. MaxEvents /\ sends' = Append(sends, handled[c].time)
        BY <1>1, <3>3 DEF Finish, Handed, PipelineInv, PipelineTypeOK, Event
      <4>2. Times(t)' = Times(t)
        BY <3>3, <4>1, TimesAppend DEF PipelineInv
      <4> QED BY <1>1, <2>2, <4>2 DEF Processed
    <3> QED BY <3>1, <3>2, <3>3
  <2> QED BY <1>1, <1>3, <2>1, <2>2, StaysComplete
<1> QED BY <1>2, <1>3
(* The other steps of recordings, and those of the process: nothing is     *)
(* forwarded, and events are only let go.                                  *)
LEMMA RecordingsKeep ==
  ASSUME PipelineInv, Recordings,
         UNCHANGED <<emitted, held, queue, at, handled, stopped, gone, sends, lost>>
  PROVE  PipelineTypeOK' /\ EventsInv' /\ Complete'
<1>1. packets' \subseteq packets /\ UNCHANGED append
  BY DEF Recordings, Start, CreateRecording, Delete, DeleteRecording, Stop, StopStores,
         StopRecording, StoreUnchanged, StopFails, storeVars
<1>2. EventsInv'
  BY <1>1, EventsFrame
<1>3. since' \in Nat
  BY DEF Recordings, PipelineInv, PipelineTypeOK
<1>4. PipelineTypeOK'
  BY <1>3 DEF PipelineInv, PipelineTypeOK
<1>5. ASSUME NEW r \in Recording, Start(r) /\ since' = Len(emitted)
      PROVE  Complete'
  BY <1>5, StartComplete
<1>6. ASSUME NEW h \in Handler, Stop(h)
      PROVE  Complete'
  BY <1>6, InactiveComplete DEF Stop
<1>7. ASSUME UNCHANGED since,
             \/ \E r \in Recording : Delete(r)
             \/ \E h \in Handler : StopStores(h) \/ StopFails(h)
      PROVE  Complete'
  <2>1. UNCHANGED activeID
    BY <1>7 DEF Delete, StopStores, StopFails, memoryVars
  <2>2. CASE activeID = None
    BY <2>1, <2>2, InactiveComplete
  <2>3. CASE activeID # None
    <3>1. activeID \in Recording
      BY <2>3 DEF PipelineInv, RecorderInv, TypeOK
    <3>2. recordings'[activeID] # None =>
             recordings[activeID] # None /\ Stored(activeID) \subseteq Stored(activeID)'
      <4>1. ASSUME NEW r \in Recording, Delete(r)
            PROVE  recordings'[activeID] # None =>
                     recordings[activeID] # None /\ Stored(activeID) \subseteq Stored(activeID)'
        BY <2>1, <3>1, <4>1 DEF Delete, DeleteRecording, Stored, PipelineInv, RecorderInv, TypeOK
      <4>2. ASSUME NEW h \in Handler, StopStores(h) \/ StopFails(h)
            PROVE  recordings'[activeID] # None =>
                     recordings[activeID] # None /\ Stored(activeID) \subseteq Stored(activeID)'
        <5>1. UNCHANGED packets
          BY <4>2 DEF StopStores, StopRecording, StoreUnchanged, StopFails, storeVars
        <5>2. recordings'[activeID] # None => recordings[activeID] # None
          BY <3>1, <4>2 DEF StopStores, StopRecording, StoreUnchanged, StopFails, storeVars,
                            PipelineInv, RecorderInv, TypeOK
        <5> QED BY <2>1, <5>1, <5>2 DEF Stored
      <4> QED BY <1>7, <4>1, <4>2
    <3>3. \A t : Processed(t)' <=> Processed(t)
      BY DEF Processed, Times
    <3> QED BY <1>1, <1>7, <2>1, <2>3, <3>2, <3>3, StaysComplete
  <2> QED BY <2>2, <2>3
<1>8. Complete'
  BY <1>5, <1>6, <1>7 DEF Recordings
<1> QED BY <1>2, <1>4, <1>8

LEMMA RestartKeeps ==
  ASSUME PipelineInv, PipelineRestart
  PROVE  PipelineTypeOK' /\ EventsInv' /\ Complete'
<1>1. /\ UNCHANGED <<packets, emitted, sends, since, lost>> /\ activeID' = None
      /\ append' = [c \in Caller |-> None] /\ held' = [l \in Listener |-> None]
      /\ queue' = <<>> /\ stopped' = FALSE /\ gone' = {}
      /\ at' = [c \in Caller |-> "idle"] /\ handled' = [c \in Caller |-> None]
  BY DEF PipelineRestart, Restart, storeVars
<1>2. EventsInv'
  BY <1>1, EventsFrame
<1>3. PipelineTypeOK'
  <2>1. queue' \in Seq(Event)
    BY <1>1, EmptySeq
  <2> QED BY <1>1, <2>1 DEF PipelineInv, PipelineTypeOK, Stage
<1> QED BY <1>1, <1>2, <1>3, InactiveComplete

LEMMA ReturnsKeep ==
  ASSUME PipelineInv,
         Interrupt \/ RunReturns \/ (\E l \in Listener : ListenerReturns(l))
             \/ UNCHANGED pipelineVars
  PROVE  PipelineTypeOK' /\ EventsInv' /\ Complete'
<1>1. /\ UNCHANGED <<activeID, recordings, packets, append, emitted, queue, handled, sends, since, lost>>
      /\ \A l \in Listener : held'[l] \in {held[l], None}
      /\ \A c \in Caller : at'[c] = at[c] \/ (at'[c] = "returned" /\ handled[c] = None /\ append[c] = None)
  <2>1. ASSUME NEW l \in Listener, ListenerReturns(l)
        PROVE  <1>1!:
    BY <2>1 DEF ListenerReturns, vars, memoryVars, storeVars, PipelineInv, PipelineTypeOK
  <2>2. ASSUME RunReturns PROVE <1>1!:
    <3>1. at[Run] = "idle" /\ handled[Run] = None /\ append[Run] = None
      BY <2>2, PipelineAssumption DEF RunReturns, PipelineInv, StagesAgree
    <3> QED BY <2>2, <3>1 DEF RunReturns, vars, memoryVars, storeVars, PipelineInv, PipelineTypeOK
  <2>3. ASSUME Interrupt \/ UNCHANGED pipelineVars PROVE <1>1!:
    BY <2>3 DEF Interrupt, pipelineVars, pipeVars, vars, memoryVars, storeVars
  <2> QED BY <2>1, <2>2, <2>3
<1>2. EventsInv'
  BY <1>1, EventsFrame
<1>3. PipelineTypeOK'
  BY DEF Interrupt, RunReturns, ListenerReturns, pipelineVars, pipeVars,
         PipelineInv, PipelineTypeOK, Stage
<1>4. Complete'
  <2>1. CASE activeID = None
    BY <1>1, <2>1, InactiveComplete
  <2>2. CASE activeID # None
    <3>1. \A t : Processed(t)' <=> Processed(t)
      BY <1>1 DEF Processed, Times
    <3>2. Stored(activeID)' = Stored(activeID)
      BY <1>1 DEF Stored
    <3> QED BY <1>1, <2>2, <3>1, <3>2, StaysComplete
  <2> QED BY <2>1, <2>2
<1> QED BY <1>2, <1>3, <1>4
----------------------------------------------------------------------------
(* A step of the pipeline is one of the recorder, or leaves it alone: what *)
(* is proved of the recorder holds of it as it is used here.               *)
LEMMA PipelineStepsRecorder == PipelineInv /\ [PipelineNext]_pipelineVars => [Next]_vars
<1> SUFFICES ASSUME PipelineInv, [PipelineNext]_pipelineVars PROVE [Next]_vars
  OBVIOUS
<1>1. ASSUME NEW c \in Caller, Record(c)
      PROVE  [Next]_vars
  <2>1. CASE activeID = None
    BY <1>1, <2>1 DEF Record
  <2>2. CASE activeID # None
    BY <1>1, <2>2, RecordKeeps DEF Next
  <2> QED BY <2>1, <2>2
<1>2. ASSUME NEW c \in Caller, AppendToStore(c)
      PROVE  [Next]_vars
  BY <1>2 DEF AppendToStore, Next
<1>3. ASSUME Recordings PROVE [Next]_vars
  BY <1>3 DEF Recordings, Next
<1>4. ASSUME PipelineRestart PROVE [Next]_vars
  BY <1>4 DEF PipelineRestart, Next
<1>5. ASSUME NEW c \in Caller, Mirror(c) \/ Answer(c) \/ Finish(c)
      PROVE  UNCHANGED vars
  BY <1>5 DEF Mirror, Answer, Finish
<1>6. ASSUME NEW l \in Listener,
             (\E k \in {"captured", "answer"} : Receive(l, k)) \/ Put(l) \/ ListenerReturns(l)
      PROVE  UNCHANGED vars
  BY <1>6 DEF Receive, Put, ListenerReturns
<1>7. ASSUME Take \/ Interrupt \/ RunReturns PROVE UNCHANGED vars
  BY <1>7 DEF Take, Interrupt, RunReturns
<1>8. UNCHANGED pipelineVars => UNCHANGED vars
  BY DEF pipelineVars
<1> QED BY <1>1, <1>2, <1>3, <1>4, <1>5, <1>6, <1>7, <1>8 DEF PipelineNext, Process

LEMMA PipelineInvStep == PipelineInv /\ [PipelineNext]_pipelineVars => PipelineInv'
<1> SUFFICES ASSUME PipelineInv, [PipelineNext]_pipelineVars PROVE PipelineInv'
  OBVIOUS
<1> DEFINE Goal == PipelineTypeOK' /\ EventsInv' /\ Complete'
<1>1. RecorderInv'
  BY PipelineStepsRecorder, RecorderNext DEF PipelineInv
<1>2. ASSUME NEW l \in Listener,
             (\E k \in {"captured", "answer"} : Receive(l, k)) \/ Put(l)
      PROVE  Goal
  BY <1>2, ReceiveKeeps, PutKeeps, EventComplete
<1>3. ASSUME Take PROVE Goal
  BY <1>3, TakeKeeps, EventComplete
<1>4. ASSUME NEW c \in Caller, Mirror(c) \/ Answer(c)
      PROVE  Goal
  BY <1>4, EmitKeeps, EventComplete
<1>5. ASSUME NEW c \in Caller, Process(c)
      PROVE  Goal
  BY <1>5, RecordKeeps, RecordSkips, RecordComplete, AppendToStoreKeeps, AppendComplete,
     FinishKeeps, FinishComplete DEF Process
<1>6. ASSUME Recordings, UNCHANGED <<emitted, held, queue, at, handled, stopped, gone, sends, lost>>
      PROVE  Goal
  BY <1>6, RecordingsKeep
<1>7. PipelineRestart => Goal
  BY RestartKeeps
<1>8. Interrupt \/ RunReturns \/ (\E l \in Listener : ListenerReturns(l)) \/ UNCHANGED pipelineVars
        => Goal
  BY ReturnsKeep
<1>9. Goal
  BY <1>2, <1>3, <1>4, <1>5, <1>6, <1>7, <1>8 DEF PipelineNext
<1> QED BY <1>1, <1>9, PipelineInvNext DEF Complete

LEMMA PipelineInvariance == PipelineSpec => []PipelineInv
BY PipelineInitInv, PipelineInvStep, PTL DEF PipelineSpec

(* The events of one listener are numbered and forwarded in the order of   *)
(* their capture, whatever engines, readers and other listeners do between.*)
THEOREM CaptureOrderKept == PipelineSpec => []CaptureOrder
<1>1. PipelineInv => CaptureOrder
  BY DEF PipelineInv
<1> QED BY <1>1, PipelineInvariance, PTL

(* No answer is recorded or forwarded, no captured request is forwarded    *)
(* twice, no mirrored one a third time, and none is recorded twice.        *)
THEOREM NothingEverGoesRound == PipelineSpec => []NothingGoesRound
<1>1. PipelineInv => NothingGoesRound
  <2> SUFFICES ASSUME PipelineInv PROVE NothingGoesRound
    OBVIOUS
  <2>1. PipelineTypeOK
    BY DEF PipelineInv
  <2>2. ASSUME NEW t \in DOMAIN emitted, emitted[t].kind = "answer"
        PROVE  Times(t) = 0
    BY <2>2, TimesNone DEF PipelineInv, EventsAreGenuine, RequestAt
  <2>3. ASSUME NEW t \in DOMAIN emitted, emitted[t].kind = "captured"
        PROVE  Times(t) <= 1
    <3> DEFINE S == {i \in DOMAIN sends : sends[i] = t}
    <3>1. \A i, j \in S : i = j
      <4>1. SameListener(t, t)
        BY <2>3 DEF SameListener, PipelineInv, EventsAreGenuine
      <4>2. \A i, j \in DOMAIN sends : i < j => ~(sends[i] = t /\ sends[j] = t)
        BY <2>1, <4>1 DEF PipelineInv, CaptureOrder, PipelineTypeOK
      <4> QED BY <2>1, <4>2 DEF PipelineTypeOK
    <3>2. CASE S = {}
      BY <3>2, FS_EmptySet DEF Times
    <3>3. CASE S # {}
      <4>1. PICK i : S = {i}
        BY <3>1, <3>3
      <4> QED BY <4>1, FS_Singleton DEF Times
    <3> QED BY <3>2, <3>3
  <2>4. ASSUME NEW t \in DOMAIN emitted, emitted[t].kind = "mirrored"
        PROVE  Times(t) <= 2
    BY <2>4 DEF PipelineInv, MirroredTwice
  <2>5. \A t \in DOMAIN emitted : emitted[t].kind \in Kind
    <3>1. \A t \in DOMAIN emitted : emitted[t] \in Event
      BY <2>1 DEF PipelineTypeOK
    <3> QED BY <3>1 DEF Event
  <2>6. \A t \in DOMAIN emitted :
          Times(t) <= CASE emitted[t].kind = "answer" -> 0
                        [] emitted[t].kind = "captured" -> 1
                        [] emitted[t].kind = "mirrored" -> 2
    BY <2>2, <2>3, <2>4, <2>5 DEF Kind
  <2>7. \A p \in Numbered : emitted[p.time].kind # "answer"
    BY DEF PipelineInv, EventsAreGenuine, RequestAt
  <2>8. \A p, q \in Numbered : p.time = q.time => p = q
    BY DEF PipelineInv, StagesAgree
  <2> QED BY <2>6, <2>7, <2>8 DEF NothingGoesRound, Numbered
<1> QED BY <1>1, PipelineInvariance, PTL

(* While a recording is active, every request that came since it began is  *)
(* in its rows by the time it has been forwarded, or the store refused it. *)
THEOREM RecordingsAreComplete == PipelineSpec => []RecordingIsComplete
<1>1. PipelineInv => RecordingIsComplete
  BY DEF PipelineInv
<1> QED BY <1>1, PipelineInvariance, PTL

(* The pipeline uses the recorder as module Recorder says: all that is     *)
(* proved of Spec holds under it too.                                      *)
THEOREM PipelineUsesRecorder == PipelineSpec => Spec
<1>1. PipelineInit => Init
  BY DEF PipelineInit
<1> QED BY <1>1, PipelineStepsRecorder, PipelineInvariance, PTL DEF PipelineSpec, Spec
=============================================================================

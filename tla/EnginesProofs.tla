--------------------------- MODULE EnginesProofs ---------------------------
(***************************************************************************)
(* The inductive invariant of Engines and what follows from it, for any    *)
(* number of handlers and of runs, and whatever is asked for.              *)
(***************************************************************************)
EXTENDS Engines, SequenceTheorems, FiniteSetTheorems, TLAPS

(* Units. *)

Instr == {"wait", "send", "return"}

(* What is left of a unit has no more packets than the unit.               *)
LEMMA SendsLeft ==
  ASSUME NEW u \in Seq(Instr)
  PROVE  /\ Sends(u) \in Nat
         /\ u # <<>> => /\ Tail(u) \in Seq(Instr) /\ Sends(Tail(u)) \in Nat
                        /\ Sends(Tail(u)) <= Sends(u)
                        /\ Head(u) = "send" => Sends(Tail(u)) + 1 <= Sends(u)
<1> DEFINE S == {i \in DOMAIN u : u[i] = "send"}
<1>1. IsFiniteSet(S) /\ Cardinality(S) \in Nat /\ Sends(u) = Cardinality(S)
  <2>1. Len(u) \in Nat /\ DOMAIN u = 1 .. Len(u)
    BY LenProperties
  <2>2. IsFiniteSet(1 .. Len(u)) /\ S \in SUBSET (1 .. Len(u))
    BY <2>1, FS_Interval
  <2> HIDE DEF S
  <2>3. IsFiniteSet(S)
    BY <2>2, FS_Subset
  <2>4. Cardinality(S) \in Nat
    BY <2>3, FS_CardinalityType
  <2> QED BY <2>3, <2>4 DEF Sends, S
<1>2. ASSUME u # <<>>
      PROVE  /\ Tail(u) \in Seq(Instr) /\ Sends(Tail(u)) \in Nat
             /\ Sends(Tail(u)) <= Sends(u)
             /\ Head(u) = "send" => Sends(Tail(u)) + 1 <= Sends(u)
  <2>1. /\ Tail(u) \in Seq(Instr) /\ Len(u) \in Nat \ {0} /\ Head(u) = u[1]
        /\ DOMAIN u = 1 .. Len(u) /\ DOMAIN Tail(u) = 1 .. Len(u) - 1
        /\ \A i \in 1 .. Len(u) - 1 : Tail(u)[i] = u[i + 1]
    BY <1>2, HeadTailProperties, EmptySeq
  <2> DEFINE T == {i \in DOMAIN Tail(u) : Tail(u)[i] = "send"}
             f == [i \in T |-> i + 1]
  <2>2. f \in Injection(T, S \ {1})
    <3>1. ASSUME NEW i \in T PROVE i \in Nat /\ i + 1 \in S \ {1}
      BY <2>1
    <3> HIDE DEF T, S
    <3> QED BY <3>1 DEF Injection, IsInjective
  <2>3. /\ IsFiniteSet(S \ {1})
        /\ Cardinality(S \ {1}) = IF 1 \in S THEN Cardinality(S) - 1 ELSE Cardinality(S)
    BY <1>1, FS_RemoveElement
  <2>4. IsFiniteSet(T) /\ Cardinality(T) <= Cardinality(S \ {1})
    <3> HIDE DEF T, S, f
    <3> QED BY <2>2, <2>3, FS_Injection
  <2>5. Cardinality(T) \in Nat
    BY <2>4, FS_CardinalityType
  <2>6. Head(u) = "send" => 1 \in S
    BY <2>1
  <2>7. Sends(Tail(u)) = Cardinality(T)
    BY DEF Sends
  <2> HIDE DEF T, S, f
  <2> QED BY <1>1, <2>1, <2>3, <2>4, <2>5, <2>6, <2>7
<1> QED BY <1>1, <1>2

LEMMA PacketsAreUnit ==
  ASSUME NEW n \in Nat
  PROVE  Packets(n) \in Seq(Instr)
<1>1. 2 * n \in Nat
  OBVIOUS
<1>2. Packets(n) \in [1 .. 2 * n -> Instr]
  BY DEF Packets, Instr
<1> QED BY <1>1, <1>2, SeqDef

LEMMA SessionIsUnit ==
  ASSUME NEW pattern, NEW built \in BOOLEAN, NEW interims \in Nat
  PROVE  Session(pattern, built, interims) \in Seq(Instr)
<1>1. \A n \in Nat : Packets(n) \in Seq(Instr)
  BY PacketsAreUnit
<1>2. <<"wait">> \in Seq(Instr) /\ <<"return">> \in Seq(Instr)
  BY DEF Instr
<1>3. <<"wait">> \o Packets(interims + 2) \in Seq(Instr)
  <2>1. PICK w : w = <<"wait">> /\ w \in Seq(Instr)
    BY <1>2
  <2>2. PICK s : s = Packets(interims + 2) /\ s \in Seq(Instr)
    BY <1>1
  <2>3. w \o s \in Seq(Instr)
    BY <2>1, <2>2, ConcatProperties
  <2> QED BY <2>1, <2>2, <2>3
<1>4. CASE pattern = "auth_only"
  BY <1>1, <1>4 DEF Session
<1>5. CASE pattern = "acct_only"
  BY <1>1, <1>5 DEF Session
<1>6. CASE pattern = "full_session"
  BY <1>1, <1>3, <1>6 DEF Session
<1>7. CASE pattern \notin {"auth_only", "acct_only", "full_session"}
  BY <1>2, <1>7 DEF Session
<1> QED BY <1>4, <1>5, <1>6, <1>7

(* Whatever is asked for, a job is a row of units, and one of replay has   *)
(* one packet a unit.                                                      *)
OnePacket(units) == \A u \in Range(units) : Sends(u) <= 1

LEMMA ReplayUnitsAre ==
  ASSUME NEW n \in Nat, NEW waits
  PROVE  ReplayUnits(n, waits) \in Seq(Seq(Instr)) /\ OnePacket(ReplayUnits(n, waits))
<1>1. <<"send">> \in Seq(Instr) /\ <<"wait", "send">> \in Seq(Instr)
  BY DEF Instr
<1>2. Sends(<<"send">>) = 1 /\ Sends(<<"wait", "send">>) = 1
  <2>1. {i \in DOMAIN <<"send">> : <<"send">>[i] = "send"} = {1}
    OBVIOUS
  <2>2. {i \in DOMAIN <<"wait", "send">> : <<"wait", "send">>[i] = "send"} = {2}
    OBVIOUS
  <2> QED BY <2>1, <2>2, FS_Singleton DEF Sends
<1> DEFINE units == [i \in 1 .. n |-> IF i \in waits \ {1} THEN <<"wait", "send">> ELSE <<"send">>]
<1>3. \A i \in 1 .. n : units[i] \in Seq(Instr) /\ Sends(units[i]) <= 1
  <2>1. 1 <= 1
    OBVIOUS
  <2> QED BY <1>1, <1>2, <2>1
<1>4. units \in [1 .. n -> Seq(Instr)] /\ DOMAIN units = 1 .. n
  BY <1>1
<1>5. ReplayUnits(n, waits) = units
  BY DEF ReplayUnits
<1> HIDE DEF units
<1>6. units \in Seq(Seq(Instr))
  BY <1>4, SeqDef
<1> QED BY <1>3, <1>4, <1>5, <1>6 DEF OnePacket, Range

LEMMA JobsAreUnits ==
  /\ \A j \in Jobs \cup {NoJob} : j.units \in Seq(Seq(Instr))
  /\ kind = "replay" => \A j \in Jobs \cup {NoJob} : OnePacket(j.units)
<1>1. NoJob.units \in Seq(Seq(Instr)) /\ OnePacket(NoJob.units)
  BY EmptySeq DEF NoJob, OnePacket, Range
<1>2. ASSUME NEW j \in ReplayJobs PROVE j.units \in Seq(Seq(Instr)) /\ OnePacket(j.units)
  <2>1. PICK q \in ReplayRequest : j = [units |-> ReplayUnits(q.packets, q.waits), loop |-> q.loop]
    BY <1>2 DEF ReplayJobs
  <2>2. q.packets \in Nat /\ j.units = ReplayUnits(q.packets, q.waits)
    BY <2>1, EnginesAssumption
  <2> QED BY <2>2, ReplayUnitsAre
<1>3. ASSUME NEW j \in SynthJobs PROVE j.units \in Seq(Seq(Instr))
  <2>1. PICK q \in SynthRequest :
          j = [units |-> [i \in 1 .. q.sessions |-> Session(q.pattern, q.built, q.interims)],
               loop |-> FALSE]
    BY <1>3 DEF SynthJobs
  <2>2. q.sessions \in Nat /\ q.built \in BOOLEAN /\ q.interims \in Nat
    BY EnginesAssumption
  <2>3. PICK unit : unit = Session(q.pattern, q.built, q.interims) /\ unit \in Seq(Instr)
    BY <2>2, SessionIsUnit
  <2>4. [i \in 1 .. q.sessions |-> unit] \in Seq(Seq(Instr))
    BY <2>2, <2>3, SeqDef
  <2> QED BY <2>1, <2>3, <2>4
<1> QED BY <1>1, <1>2, <1>3 DEF Jobs
----------------------------------------------------------------------------
(* Steps. *)

(* The steps of a goroutine that no other actor can tell from one another: *)
(* it is alive before and after, and touches no cancel function.           *)
Moves(r) ==
    /\ UNCHANGED <<kind, cancel, cancelled, grabbed, overlapped>>
    /\ pc[r] \in {"run", "wait", "count"}
    /\ \E to \in {"run", "wait", "count", "defer"} : pc' = [pc EXCEPT ![r] = to]
    /\ \A q \in Run \ {r} : sent'[q] = sent[q] /\ late'[q] = late[q]
                            /\ job'[q] = job[q] /\ todo'[q] = todo[q] /\ doing'[q] = doing[q]
    /\ \/ UNCHANGED <<status, sent>>
       \/ status'.active = status.active /\ status'.sent = sent'[r]
       \/ ~status'.active /\ pc'[r] = "defer"

LEMMA MovesShape ==
  ASSUME TypeOK, NEW r \in Run,
         \/ Check(r) \/ Wait(r) \/ TimerFires(r) \/ WaitCancelled(r)
         \/ Send(r) \/ Count(r) \/ Return(r) \/ Loop(r) \/ Finish(r)
  PROVE  Moves(r)
<1>1. pc \in [Actor -> {"idle", "stop", "start", "install", "unborn", "run", "wait",
                         "count", "defer", "defer_stop", "gone"}]
      /\ r \in Actor
  BY DEF TypeOK, Actor
<1>2. pc = [pc EXCEPT ![r] = pc[r]]
  BY <1>1
<1>3. CASE Check(r)
  BY <1>2, <1>3 DEF TypeOK, Check, Between, Leave, Begin, Goto, Local, Moves, engineVars
<1>4. CASE Wait(r)
  BY <1>4 DEF TypeOK, Wait, Instruction, Advance, Goto, Local, Moves, engineVars
<1>5. CASE TimerFires(r)
  BY <1>5 DEF TypeOK, TimerFires, Step, Local, Moves, engineVars, runVars
<1>6. CASE WaitCancelled(r)
  BY <1>6 DEF TypeOK, WaitCancelled, Leave, Goto, Local, Moves, engineVars
<1>7. CASE Send(r)
  BY <1>7 DEF TypeOK, Send, Instruction, Advance, Goto, Local, Moves, engineVars
<1>8. CASE Count(r)
  BY <1>8 DEF TypeOK, Count, Step, Moves
<1>9. CASE Return(r)
  BY <1>9 DEF TypeOK, Return, Instruction, Leave, Goto, Local, Moves, engineVars
<1>10. CASE Loop(r)
  BY <1>2, <1>10 DEF TypeOK, Loop, Between, Moves
<1>11. CASE Finish(r)
  <2>1. \/ UNCHANGED <<status, sent>>
        \/ ~status'.active /\ pc'[r] = "defer"
    <3>1. pc'[r] = "defer"
      BY <1>1, <1>11 DEF Finish, Leave, Goto
    <3>2. status' = [status EXCEPT !.active = FALSE] \/ status' = status
      BY <1>11 DEF Finish
    <3>3. ~[status EXCEPT !.active = FALSE].active
      BY DEF TypeOK
    <3>4. sent' = sent
      BY <1>11 DEF Finish, Leave
    <3> QED BY <3>1, <3>2, <3>3, <3>4, Zenon
  <2> QED BY <1>11, <2>1 DEF TypeOK, Finish, Between, Leave, Goto, Moves
<1> QED BY <1>3, <1>4, <1>5, <1>6, <1>7, <1>8, <1>9, <1>10, <1>11

(* What an actor may do, with Moves for what it does on its own. *)
LEMMA StepShapes ==
  ASSUME TypeOK, Next
  PROVE  \/ \E h \in Handler : Stop(h) \/ Start(h)
         \/ \E a \in Actor : CallCancel(a)
         \/ \E h \in Handler, r \in Run, j \in Jobs : Install(h, r, j)
         \/ \E r \in Run : ClearCancel(r) \/ DeferStop(r) \/ Moves(r)
<1>1. CASE \E h \in Handler : Handle(h)
  BY <1>1 DEF Handle, Actor
<1>2. CASE \E r \in Run : Progress(r)
  <2>1. PICK r \in Run : Progress(r)
    BY <1>2
  <2>2. Moves(r) \/ ClearCancel(r) \/ DeferStop(r) \/ CallCancel(r)
    BY <2>1, MovesShape DEF Progress
  <2> QED BY <2>2 DEF Actor
<1> QED BY <1>1, <1>2 DEF Next
----------------------------------------------------------------------------
(* Types. *)

LEMMA EnginesInitInv == Init => EnginesIInv
<1> SUFFICES ASSUME Init PROVE EnginesIInv
  OBVIOUS
<1>1. <<>> \in Seq(Seq({"wait", "send", "return"})) /\ <<>> \in Seq({"wait", "send", "return"})
  BY EmptySeq
<1>2. TypeOK
  BY <1>1 DEF Init, TypeOK, Idle, Actor
<1>3. HeldToBeCalled
  BY EnginesAssumption DEF Init, HeldToBeCalled, Actor
<1>4. WithinUnit
  BY DEF Init, WithinUnit, NoJob, Range
<1>5. \A r \in Run : ~Alive(r)
  BY EnginesAssumption DEF Init, Alive, Actor
<1>6. OneAtATime /\ StoppableApart
  BY <1>5, EnginesAssumption DEF Init, OneAtATime, StoppableApart, Stoppable, Actor
<1>7. StatusApart
  BY EnginesAssumption DEF Init, StatusApart, Idle
<1> QED BY <1>2, <1>3, <1>4, <1>6, <1>7 DEF EnginesIInv

LEMMA EnginesTypeStep ==
  ASSUME TypeOK, Next
  PROVE  TypeOK' /\ Jobs' = Jobs
<1>1. kind' = kind
  <2>1. \A a \in Actor : CallCancel(a) \/ Stop(a) \/ Start(a) => kind' = kind
    BY DEF CallCancel, Stop, Start
  <2>2. \A h \in Handler, r \in Run, j \in Jobs : Install(h, r, j) => kind' = kind
    BY DEF Install
  <2>3. \A r \in Run : ClearCancel(r) \/ DeferStop(r) \/ Moves(r) => kind' = kind
    BY DEF ClearCancel, DeferStop, Moves
  <2> QED BY <2>1, <2>2, <2>3, StepShapes DEF Actor
<1>2. Jobs' = Jobs
  BY <1>1 DEF Jobs
<1>3. \A j \in Jobs \cup {NoJob} : j.units \in Seq(Seq({"wait", "send", "return"}))
  BY JobsAreUnits DEF Instr
<1>4. ASSUME NEW r \in Run, doing[r] # <<>>
      PROVE  Tail(doing[r]) \in Seq({"wait", "send", "return"})
  <2>1. doing[r] \in Seq({"wait", "send", "return"})
    BY DEF TypeOK
  <2> QED BY <1>4, <2>1, HeadTailProperties
<1>5. <<>> \in Seq(Seq({"wait", "send", "return"})) /\ <<>> \in Seq({"wait", "send", "return"})
  BY EmptySeq
<1>6. ASSUME NEW h \in Handler, Stop(h) PROVE TypeOK'
  BY <1>2, <1>6 DEF TypeOK, Stop, Step, TakeCancel, Idle, Actor, runVars
<1>7. ASSUME NEW h \in Handler, Start(h) PROVE TypeOK'
  BY <1>2, <1>7 DEF TypeOK, Start, Step, TakeCancel, Idle, Actor, runVars
<1>8. ASSUME NEW a \in Actor, CallCancel(a) PROVE TypeOK'
  BY <1>2, <1>8 DEF TypeOK, CallCancel, Step, runVars
<1>9. ASSUME NEW h \in Handler, NEW r \in Run, NEW j \in Jobs, Install(h, r, j) PROVE TypeOK'
  <2>1. todo' \in [Run -> Seq(Seq({"wait", "send", "return"}))]
    BY <1>3, <1>9 DEF TypeOK, Install
  <2>2. doing' \in [Run -> Seq({"wait", "send", "return"})]
    BY <1>5, <1>9 DEF TypeOK, Install
  <2>3. job' \in [Run -> Jobs \cup {NoJob}]
    BY <1>9 DEF TypeOK, Install
  <2> QED BY <1>2, <1>9, <2>1, <2>2, <2>3 DEF TypeOK, Install, Actor
<1>10. ASSUME NEW r \in Run, ClearCancel(r) \/ DeferStop(r) PROVE TypeOK'
  <2>1. status' \in [active : BOOLEAN, sent : Nat]
    <3>1. status \in [active : BOOLEAN, sent : Nat]
      BY DEF TypeOK
    <3>2. status' = [status EXCEPT !.active = FALSE] \/ status' = [active |-> FALSE, sent |-> 0]
      BY <1>10, Zenon DEF ClearCancel, DeferStop, TakeCancel, Idle
    <3>3. [status EXCEPT !.active = FALSE] \in [active : BOOLEAN, sent : Nat]
      BY <3>1
    <3>4. [active |-> FALSE, sent |-> 0] \in [active : BOOLEAN, sent : Nat]
      OBVIOUS
    <3> QED BY <3>2, <3>3, <3>4, Zenon
  <2>2. CASE ClearCancel(r)
    BY <1>2, <2>1, <2>2 DEF TypeOK, ClearCancel, Step, Forget, Actor
  <2>3. CASE DeferStop(r)
    BY <1>2, <2>1, <2>3 DEF TypeOK, DeferStop, Step, TakeCancel, Forget, Actor
  <2> QED BY <1>10, <2>2, <2>3
<1>11. ASSUME NEW r \in Run, doing[r] # <<>>, Advance(r)
       PROVE  doing' \in [Run -> Seq({"wait", "send", "return"})]
  BY <1>4, <1>11 DEF Advance, TypeOK
<1>12. ASSUME NEW r \in Run, Leave(r)
       PROVE  /\ todo' \in [Run -> Seq(Seq({"wait", "send", "return"}))]
              /\ doing' \in [Run -> Seq({"wait", "send", "return"})]
              /\ job' \in [Run -> Jobs \cup {NoJob}]
              /\ late' \in [Run -> Nat] /\ sent' \in [Run -> Nat]
              /\ pc' \in [Actor -> {"idle", "stop", "start", "install", "unborn", "run", "wait",
                         "count", "defer", "defer_stop", "gone"}]
  <2>1. todo' \in [Run -> Seq(Seq({"wait", "send", "return"}))]
    BY <1>5, <1>12 DEF Leave, TypeOK
  <2>2. doing' \in [Run -> Seq({"wait", "send", "return"})]
    BY <1>5, <1>12 DEF Leave, TypeOK
  <2> QED BY <1>12, <2>1, <2>2 DEF Leave, Goto, TypeOK
<1>13. ASSUME NEW r \in Run, Check(r) PROVE TypeOK'
  <2>1. CASE Leave(r)
    BY <1>2, <1>12, <1>13, <2>1 DEF TypeOK, Check, Local, engineVars
  <2>2. CASE Begin(r)
    <3>1. todo[r] \in Seq(Seq({"wait", "send", "return"})) /\ todo[r] # <<>>
      BY <1>13 DEF TypeOK, Check
    <3>2. /\ Head(todo[r]) \in Seq({"wait", "send", "return"})
          /\ Tail(todo[r]) \in Seq(Seq({"wait", "send", "return"}))
      BY <3>1, HeadTailProperties
    <3>3. doing' \in [Run -> Seq({"wait", "send", "return"})]
      BY <2>2, <3>2 DEF Begin, TypeOK
    <3>4. todo' \in [Run -> Seq(Seq({"wait", "send", "return"}))]
      BY <2>2, <3>2 DEF Begin, TypeOK
    <3> QED BY <1>2, <1>13, <2>2, <3>3, <3>4 DEF TypeOK, Check, Begin, Local, engineVars
  <2> QED BY <1>13, <2>1, <2>2 DEF Check
<1>14. ASSUME NEW r \in Run, Wait(r) PROVE TypeOK'
  BY <1>2, <1>11, <1>14 DEF TypeOK, Wait, Instruction, Goto, Local, engineVars, Actor
<1>15. ASSUME NEW r \in Run, TimerFires(r) PROVE TypeOK'
  BY <1>2, <1>15 DEF TypeOK, TimerFires, Step, Local, engineVars, runVars
<1>16. ASSUME NEW r \in Run, WaitCancelled(r) \/ Return(r) PROVE TypeOK'
  <2>1. Leave(r) /\ Local(r)
    BY <1>16 DEF WaitCancelled, Return
  <2> QED BY <1>2, <1>12, <2>1 DEF TypeOK, Local, engineVars
<1>17. ASSUME NEW r \in Run, Finish(r) PROVE TypeOK'
  <2>1. status' \in [active : BOOLEAN, sent : Nat]
    BY <1>17 DEF TypeOK, Finish
  <2> QED BY <1>2, <1>12, <1>17, <2>1 DEF TypeOK, Finish
<1>18. ASSUME NEW r \in Run, Send(r) PROVE TypeOK'
  <2>1. late' \in [Run -> Nat]
    BY <1>18 DEF TypeOK, Send
  <2> QED BY <1>2, <1>11, <1>18, <2>1
          DEF TypeOK, Send, Instruction, Goto, Local, engineVars, Actor
<1>19. ASSUME NEW r \in Run, Count(r) PROVE TypeOK'
  <2>1. status' \in [active : BOOLEAN, sent : Nat] /\ sent' \in [Run -> Nat]
    <3>1. /\ status \in [active : BOOLEAN, sent : Nat] /\ sent \in [Run -> Nat]
          /\ status' = [status EXCEPT !.sent = sent[r] + 1]
          /\ sent' = [sent EXCEPT ![r] = sent[r] + 1]
      BY <1>19 DEF TypeOK, Count
    <3>2. sent[r] + 1 \in Nat
      BY <3>1
    <3> QED BY <3>1, <3>2
  <2> QED BY <1>2, <1>19, <2>1 DEF TypeOK, Count, Step, Actor
<1>20. ASSUME NEW r \in Run, Loop(r) PROVE TypeOK'
  BY <1>2, <1>3, <1>20 DEF TypeOK, Loop
<1>21. ASSUME NEW h \in Handler, Handle(h) PROVE TypeOK'
  BY <1>6, <1>7, <1>8, <1>9, <1>21 DEF Handle, Actor
<1>22. ASSUME NEW r \in Run, Progress(r) PROVE TypeOK'
  BY <1>8, <1>10, <1>13, <1>14, <1>15, <1>16, <1>17, <1>18, <1>19, <1>20, <1>22, Zenon
    DEF Progress, Actor
<1>23. TypeOK'
  BY <1>21, <1>22 DEF Next
<1> QED BY <1>2, <1>23
----------------------------------------------------------------------------
(* Cancel functions. *)

Placed ==
    /\ pc \in [Actor -> {"idle", "stop", "start", "install", "unborn", "run", "wait",
                         "count", "defer", "defer_stop", "gone"}]
    /\ grabbed \in [Actor -> Run \cup {None}]
    /\ cancel \in Run \cup {None} /\ cancelled \subseteq Run

(* Who takes the cancel function had none, and it is in nobody's hands. *)
LEMMA TakeKeepsHeld ==
  ASSUME Placed, HeldToBeCalled, NEW a \in Actor, NEW to \in {"stop", "start", "defer_stop"},
         pc' = [pc EXCEPT ![a] = to], TakeCancel(a),
         \/ a \in Handler /\ pc[a] = "idle" /\ to \in {"stop", "start"}
         \/ a \in Run /\ pc[a] = "defer" /\ to = "defer_stop",
         \A r \in Run : pc[r] = "unborn" => sent'[r] = sent[r]
  PROVE  HeldToBeCalled'
<1>1. grabbed[a] = None
  BY DEF HeldToBeCalled
<1>2. /\ grabbed' = [grabbed EXCEPT ![a] = cancel] /\ cancel' = None /\ cancelled' = cancelled
      /\ \A b \in Actor : pc'[b] = IF b = a THEN to ELSE pc[b]
      /\ \A b \in Actor : grabbed'[b] = IF b = a THEN cancel ELSE grabbed[b]
  BY DEF TakeCancel, Placed
<1>3. /\ \A h \in Handler : pc'[h] \in {"idle", "stop", "start", "install"}
      /\ \A r \in Run : pc'[r] \notin {"idle", "stop", "start", "install"}
  BY <1>2, EnginesAssumption DEF HeldToBeCalled, Actor
<1>4. ASSUME NEW b \in Actor, grabbed'[b] # None
      PROVE  /\ pc'[b] \in {"stop", "start", "defer_stop"}
             /\ cancel' # grabbed'[b] /\ grabbed'[b] \notin cancelled'
             /\ pc'[grabbed'[b]] # "unborn"
  <2>1. grabbed'[b] \notin cancelled /\ pc[grabbed'[b]] # "unborn" /\ grabbed'[b] \in Actor
    BY <1>2, <1>4 DEF HeldToBeCalled, Placed, Actor
  <2>2. pc'[b] \in {"stop", "start", "defer_stop"}
    BY <1>2, <1>4 DEF HeldToBeCalled
  <2> QED BY <1>2, <1>4, <2>1, <2>2
<1>5. \A b, c \in Actor : grabbed'[b] # None /\ grabbed'[b] = grabbed'[c] => b = c
  BY <1>2 DEF HeldToBeCalled
<1>6. \A r \in Run :
         /\ pc'[r] = "unborn" => r \notin cancelled' /\ sent'[r] = 0
         /\ pc'[r] = "defer_stop" => cancel' # r
  BY <1>2, EnginesAssumption DEF HeldToBeCalled, Actor
<1> QED BY <1>2, <1>3, <1>4, <1>5, <1>6 DEF HeldToBeCalled

LEMMA EnginesHeldStep ==
  ASSUME TypeOK, HeldToBeCalled, Next
  PROVE  HeldToBeCalled'
<1>1. Placed
  BY DEF TypeOK, Placed
<1>2. ASSUME NEW h \in Handler, Stop(h) \/ Start(h) PROVE HeldToBeCalled'
  <2>1. PICK to \in {"stop", "start"} : pc[h] = "idle" /\ pc' = [pc EXCEPT ![h] = to]
    BY <1>2 DEF Stop, Start, Step
  <2>2. TakeCancel(h) /\ sent' = sent
    BY <1>2 DEF Stop, Start, runVars
  <2> QED BY <1>1, <2>1, <2>2, TakeKeepsHeld DEF Actor
<1>3. ASSUME NEW r \in Run, DeferStop(r) PROVE HeldToBeCalled'
  <2>1. pc[r] = "defer" /\ pc' = [pc EXCEPT ![r] = "defer_stop"] /\ TakeCancel(r)
    BY <1>3 DEF DeferStop, Step
  <2>2. \A q \in Run : pc[q] = "unborn" => sent'[q] = sent[q]
    BY <1>3, <2>1 DEF DeferStop, Forget, TypeOK
  <2> QED BY <1>1, <2>1, <2>2, TakeKeepsHeld DEF Actor
<1>4. ASSUME NEW a \in Actor, CallCancel(a) PROVE HeldToBeCalled'
  <2>2. PICK to \in {"idle", "install", "gone"} :
          /\ pc' = [pc EXCEPT ![a] = to]
          /\ \/ pc[a] = "stop" /\ to = "idle"
             \/ pc[a] = "start" /\ to = "install"
             \/ pc[a] = "defer_stop" /\ to = "gone"
    BY <1>4 DEF CallCancel, Step
  <2>3. /\ cancelled' = cancelled \cup ({grabbed[a]} \ {None})
        /\ cancel' = cancel /\ sent' = sent
        /\ \A b \in Actor : pc'[b] = IF b = a THEN to ELSE pc[b]
        /\ \A b \in Actor : grabbed'[b] = IF b = a THEN None ELSE grabbed[b]
    BY <1>1, <1>4, <2>2 DEF CallCancel, runVars, Placed
  <2>4. /\ \A h \in Handler : pc'[h] \in {"idle", "stop", "start", "install"}
        /\ \A r \in Run : pc'[r] \notin {"idle", "stop", "start", "install"}
    BY <2>2, <2>3 DEF HeldToBeCalled, Actor
  <2>5. ASSUME NEW b \in Actor, grabbed'[b] # None
        PROVE  /\ pc'[b] \in {"stop", "start", "defer_stop"}
               /\ cancel' # grabbed'[b] /\ grabbed'[b] \notin cancelled'
               /\ pc'[grabbed'[b]] # "unborn"
    <3>1. b # a /\ grabbed'[b] = grabbed[b] /\ grabbed[b] # grabbed[a] /\ grabbed[b] \in Actor
      BY <1>1, <2>3, <2>5 DEF HeldToBeCalled, Placed, Actor
    <3> QED BY <2>3, <2>5, <3>1 DEF HeldToBeCalled
  <2>6. \A b, c \in Actor : grabbed'[b] # None /\ grabbed'[b] = grabbed'[c] => b = c
    BY <2>3 DEF HeldToBeCalled
  <2>7. cancel' # None => cancel' \notin cancelled' /\ pc'[cancel'] # "unborn"
    <3>1. cancel # None => cancel \in Actor /\ cancel # grabbed[a]
      BY <1>1 DEF HeldToBeCalled, Placed, Actor
    <3> QED BY <2>3, <3>1 DEF HeldToBeCalled
  <2>8. ASSUME NEW r \in Run
        PROVE  /\ pc'[r] = "unborn" => r \notin cancelled' /\ sent'[r] = 0
               /\ pc'[r] = "defer_stop" => cancel' # r
    BY <2>3 DEF HeldToBeCalled, Actor
  <2> QED BY <2>4, <2>5, <2>6, <2>7, <2>8 DEF HeldToBeCalled
<1>5. ASSUME NEW h \in Handler, NEW r \in Run, NEW j \in Jobs, Install(h, r, j) PROVE HeldToBeCalled'
  <2>1. /\ pc[h] = "install" /\ pc[r] = "unborn" /\ h \in Actor /\ r \in Actor
        /\ cancel' = r /\ UNCHANGED <<cancelled, grabbed, sent>>
        /\ \A b \in Actor : pc'[b] = IF b = r THEN "run" ELSE IF b = h THEN "idle" ELSE pc[b]
    BY <1>1, <1>5 DEF Install, Placed, Actor
  <2>2. /\ \A g \in Handler : pc'[g] \in {"idle", "stop", "start", "install"}
        /\ \A q \in Run : pc'[q] \notin {"idle", "stop", "start", "install"}
    BY <2>1, EnginesAssumption DEF HeldToBeCalled, Actor
  <2>3. ASSUME NEW b \in Actor, grabbed[b] # None
        PROVE  /\ pc'[b] \in {"stop", "start", "defer_stop"}
               /\ cancel' # grabbed[b] /\ pc'[grabbed[b]] # "unborn"
    <3>1. grabbed[b] \in Actor
      BY <1>1, <2>3 DEF Placed, Actor
    <3> QED BY <2>1, <2>3, <3>1 DEF HeldToBeCalled
  <2>4. cancel' # None /\ cancel' \notin cancelled' /\ pc'[cancel'] # "unborn"
    BY <2>1, EnginesAssumption DEF HeldToBeCalled
  <2>5. ASSUME NEW q \in Run
        PROVE  /\ pc'[q] = "unborn" => q \notin cancelled' /\ sent'[q] = 0
               /\ pc'[q] = "defer_stop" => cancel' # q
    BY <2>1 DEF HeldToBeCalled, Actor
  <2> QED BY <2>1, <2>2, <2>3, <2>4, <2>5 DEF HeldToBeCalled
<1>6. ASSUME NEW r \in Run, ClearCancel(r) PROVE HeldToBeCalled'
  <2>1. /\ pc[r] = "defer" /\ r \in Actor
        /\ cancel' = None /\ UNCHANGED <<cancelled, grabbed>>
        /\ \A b \in Actor : pc'[b] = IF b = r THEN "gone" ELSE pc[b]
        /\ \A q \in Run \ {r} : sent'[q] = sent[q]
    BY <1>1, <1>6 DEF ClearCancel, Step, Forget, Placed, Actor, TypeOK
  <2>2. ASSUME NEW b \in Actor, grabbed[b] # None
        PROVE  /\ pc'[b] \in {"stop", "start", "defer_stop"}
               /\ cancel' # grabbed[b] /\ pc'[grabbed[b]] # "unborn"
    <3>1. grabbed[b] \in Actor
      BY <1>1, <2>2 DEF Placed, Actor
    <3> QED BY <2>1, <2>2, <3>1 DEF HeldToBeCalled
  <2> QED BY <2>1, <2>2, EnginesAssumption DEF HeldToBeCalled, Actor
<1>7. ASSUME NEW r \in Run, Moves(r) PROVE HeldToBeCalled'
  <2>1. PICK to \in {"run", "wait", "count", "defer"} : pc' = [pc EXCEPT ![r] = to]
    BY <1>7 DEF Moves
  <2>2. /\ pc[r] \in {"run", "wait", "count"} /\ r \in Actor
        /\ UNCHANGED <<cancel, cancelled, grabbed>>
        /\ \A b \in Actor : pc'[b] = IF b = r THEN to ELSE pc[b]
        /\ \A q \in Run \ {r} : sent'[q] = sent[q]
    BY <1>1, <1>7, <2>1 DEF Moves, Placed, Actor
  <2>3. ASSUME NEW b \in Actor, grabbed[b] # None
        PROVE  /\ pc'[b] \in {"stop", "start", "defer_stop"}
               /\ cancel' # grabbed[b] /\ pc'[grabbed[b]] # "unborn"
    <3>1. grabbed[b] \in Actor
      BY <1>1, <2>3 DEF Placed, Actor
    <3> QED BY <2>2, <2>3, <3>1 DEF HeldToBeCalled
  <2>4. cancel # None => cancel \in Actor
    BY <1>1 DEF Placed, Actor
  <2> QED BY <2>2, <2>3, <2>4, EnginesAssumption DEF HeldToBeCalled, Actor
<1> QED BY <1>2, <1>3, <1>4, <1>5, <1>6, <1>7, StepShapes
----------------------------------------------------------------------------
(* What is sent after a cancel, which is about one goroutine at a time.    *)

WithinOf(r) ==
    /\ Range(todo[r]) \subseteq Range(job[r].units)
    /\ kind = "replay" => OnePacket(job[r].units)
    /\ late[r] # 0 => r \in cancelled
    /\ late[r] # 0 \/ doing[r] # <<>> =>
         \E unit \in Range(job[r].units) : late[r] + Sends(doing[r]) <= Sends(unit)

LEMMA WithinParts == WithinUnit <=> \A r \in Run : WithinOf(r)
BY DEF WithinUnit, WithinOf, OnePacket

(* A goroutine that somebody else steps past, or that comes to its end.    *)
LEMMA WithinStays ==
  ASSUME NEW r \in Run, WithinOf(r), kind' = kind,
         job'[r] = job[r], todo'[r] = todo[r], doing'[r] = doing[r], late'[r] = late[r],
         cancelled \subseteq cancelled'
  PROVE  WithinOf(r)'
BY DEF WithinOf

LEMMA WithinLeaves ==
  ASSUME TypeOK, NEW r \in Run, Leave(r), kind' = kind
  PROVE  WithinOf(r)'
<1>1. todo'[r] = <<>> /\ doing'[r] = <<>> /\ job'[r] = NoJob /\ late'[r] = 0
  BY DEF Leave, TypeOK
<1>2. Range(<<>>) = {} /\ Range(NoJob.units) = {}
  BY DEF Range, NoJob
<1> QED BY <1>1, <1>2 DEF WithinOf, OnePacket

LEMMA EnginesWithinStep ==
  ASSUME TypeOK, HeldToBeCalled, \A r \in Run : WithinOf(r), Next
  PROVE  \A r \in Run : WithinOf(r)'
<1>1. \A j \in Jobs : kind = "replay" => OnePacket(j.units)
  BY JobsAreUnits
<1>2. \A r \in Run : r \in Actor /\ r \notin Handler
  BY EnginesAssumption DEF Actor
<1> SUFFICES ASSUME NEW q \in Run PROVE WithinOf(q)'
  OBVIOUS
<1>3. ASSUME NEW h \in Handler, Stop(h) \/ Start(h) PROVE WithinOf(q)'
  <2>1. UNCHANGED <<kind, job, todo, doing, late, cancelled>>
    BY <1>3 DEF Stop, Start, TakeCancel, runVars
  <2> QED BY <2>1, WithinStays
<1>4. ASSUME NEW a \in Actor, CallCancel(a) PROVE WithinOf(q)'
  <2>1. UNCHANGED <<kind, job, todo, doing, late>> /\ cancelled \subseteq cancelled'
    BY <1>4 DEF CallCancel, runVars
  <2> QED BY <2>1, WithinStays
<1>5. ASSUME NEW h \in Handler, NEW r \in Run, NEW j \in Jobs, Install(h, r, j) PROVE WithinOf(q)'
  <2>1. UNCHANGED <<kind, cancelled, late>>
    BY <1>5 DEF Install
  <2>2. CASE q = r
    <3>1. /\ pc[r] = "unborn" /\ job'[r] = j /\ todo'[r] = j.units /\ doing'[r] = <<>>
      BY <1>5 DEF Install, TypeOK
    <3>2. late[r] = 0
      BY <3>1 DEF HeldToBeCalled, WithinOf
    <3> QED BY <1>1, <2>1, <2>2, <3>1, <3>2 DEF WithinOf
  <2>3. CASE q # r
    <3>1. job'[q] = job[q] /\ todo'[q] = todo[q] /\ doing'[q] = doing[q]
      BY <1>5, <2>3 DEF Install, TypeOK
    <3> QED BY <2>1, <3>1, WithinStays
  <2> QED BY <2>2, <2>3
<1>6. ASSUME NEW r \in Run, ClearCancel(r) \/ DeferStop(r) PROVE WithinOf(q)'
  <2>1. UNCHANGED <<kind, job, todo, doing, late, cancelled>>
    BY <1>6 DEF ClearCancel, DeferStop, Forget, TakeCancel
  <2> QED BY <2>1, WithinStays
<1>7. ASSUME NEW r \in Run, Moves(r), r # q PROVE WithinOf(q)'
  BY <1>7, WithinStays DEF Moves
<1>8. CASE Check(q)
  <2>1. todo[q] # <<>> /\ doing[q] = <<>> /\ UNCHANGED <<kind, cancelled>>
    BY <1>8 DEF Check, Between, Local, engineVars
  <2>2. CASE q \in cancelled
    BY <1>8, <2>1, <2>2, WithinLeaves DEF Check
  <2>3. CASE q \notin cancelled
    <3>1. /\ todo'[q] = Tail(todo[q]) /\ doing'[q] = Head(todo[q])
          /\ job'[q] = job[q] /\ late'[q] = late[q]
      BY <1>8, <2>3 DEF Check, Begin, TypeOK
    <3>2. late[q] = 0
      BY <2>3 DEF WithinOf
    <3>3. todo[q] \in Seq(Seq(Instr))
      BY DEF TypeOK, Instr
    <3>4. /\ Head(todo[q]) \in Seq(Instr) /\ Head(todo[q]) \in Range(todo[q])
          /\ Range(Tail(todo[q])) \subseteq Range(todo[q])
      <4>1. /\ Head(todo[q]) = todo[q][1] /\ Len(todo[q]) \in Nat \ {0}
            /\ DOMAIN todo[q] = 1 .. Len(todo[q])
            /\ Head(todo[q]) \in Seq(Instr)
            /\ DOMAIN Tail(todo[q]) = 1 .. Len(todo[q]) - 1
            /\ \A i \in 1 .. Len(todo[q]) - 1 : Tail(todo[q])[i] = todo[q][i + 1]
        BY <2>1, <3>3, HeadTailProperties, EmptySeq
      <4> QED BY <4>1 DEF Range
    <3>5. Sends(Head(todo[q])) \in Nat
      BY <3>4, SendsLeft
    <3> QED BY <2>1, <3>1, <3>2, <3>4, <3>5 DEF WithinOf
  <2> QED BY <2>2, <2>3
<1>9. ASSUME doing[q] # <<>>, doing'[q] = Tail(doing[q]),
             UNCHANGED <<kind, cancelled>>, job'[q] = job[q], todo'[q] = todo[q],
             \/ late'[q] = late[q]
             \/ Head(doing[q]) = "send" /\ q \in cancelled /\ late'[q] = late[q] + 1
      PROVE  WithinOf(q)'
  <2>1. /\ doing[q] \in Seq(Instr) /\ late[q] \in Nat
    BY DEF TypeOK, Instr
  <2>2. /\ Sends(doing[q]) \in Nat /\ Sends(doing'[q]) \in Nat
        /\ Sends(doing'[q]) <= Sends(doing[q])
        /\ Head(doing[q]) = "send" => Sends(doing'[q]) + 1 <= Sends(doing[q])
    BY <1>9, <2>1, SendsLeft
  <2>3. PICK unit \in Range(job[q].units) : late[q] + Sends(doing[q]) <= Sends(unit)
    BY <1>9 DEF WithinOf
  <2>4. job[q].units \in Seq(Seq(Instr))
    BY JobsAreUnits DEF TypeOK
  <2>5. Sends(unit) \in Nat
    BY <2>4, SendsLeft, ElementOfSeq, LenProperties DEF Range
  <2>6. late'[q] + Sends(doing'[q]) <= Sends(unit)
    BY <1>9, <2>1, <2>2, <2>3, <2>5
  <2> QED BY <1>9, <2>3, <2>6 DEF WithinOf
<1>10. CASE Wait(q)
  <2>1. /\ doing[q] # <<>> /\ doing'[q] = Tail(doing[q])
        /\ UNCHANGED <<kind, cancelled, job, todo, late>>
    BY <1>10 DEF Wait, Instruction, Advance, Local, engineVars, TypeOK
  <2> QED BY <1>9, <2>1
<1>11. CASE Send(q)
  <2>1. /\ doing[q] # <<>> /\ Head(doing[q]) = "send" /\ doing'[q] = Tail(doing[q])
        /\ UNCHANGED <<kind, cancelled, job, todo>>
        /\ late'[q] = IF q \in cancelled THEN late[q] + 1 ELSE late[q]
    BY <1>11 DEF Send, Instruction, Advance, Local, engineVars, TypeOK
  <2> QED BY <1>9, <2>1
<1>12. CASE TimerFires(q) \/ Count(q)
  <2>1. UNCHANGED <<kind, cancelled, job, todo, doing, late>>
    BY <1>12 DEF TimerFires, Count, Local, engineVars, runVars
  <2> QED BY <2>1, WithinStays
<1>13. CASE WaitCancelled(q) \/ Return(q) \/ Finish(q)
  BY <1>13, WithinLeaves DEF WaitCancelled, Return, Finish, Local
<1>14. CASE Loop(q)
  <2>1. /\ todo'[q] = job[q].units /\ UNCHANGED <<kind, cancelled, doing, late, job>>
    BY <1>14 DEF Loop, TypeOK
  <2> QED BY <2>1 DEF WithinOf
<1>15. ASSUME NEW r \in Run, Progress(r) PROVE WithinOf(q)'
  <2>1. CASE r # q
    <3>1. ClearCancel(r) \/ DeferStop(r) \/ CallCancel(r) \/ Moves(r)
      BY <1>15, MovesShape DEF Progress
    <3> QED BY <1>2, <1>4, <1>6, <1>7, <2>1, <3>1
  <2>2. CASE r = q
    <3> HIDE DEF WithinOf
    <3> QED BY <1>2, <1>4, <1>6, <1>8, <1>10, <1>11, <1>12, <1>13, <1>14, <1>15, <2>2
            DEF Progress
  <2> QED BY <2>1, <2>2
<1> QED BY <1>3, <1>4, <1>5, <1>15 DEF Next, Handle, Actor
----------------------------------------------------------------------------
(* As long as no Start met another.  The three invariants about it rest on *)
(* one another, and are taken together.                                    *)

Living == {r \in Run : pc[r] \notin {"unborn", "gone"}}
Starting == {h \in Handler : pc[h] \in {"start", "install"}}
Apart ==
    /\ \A g, h \in Starting : g = h
    /\ Starting # {} => Living = {}
    /\ \A r, q \in Living : r = q
    /\ \A r \in Living : r \in cancelled \/ cancel = r \/ \E a \in Actor : grabbed[a] = r
    /\ status.active => cancel \in Living /\ status.sent = sent[cancel]
    /\ \A r \in Run : pc[r] \in {"run", "wait", "count"} /\ cancel = r => status.active

LEMMA ApartParts ==
  ASSUME TypeOK
  PROVE  OneAtATime /\ StoppableApart /\ StatusApart <=> (~overlapped => Apart)
<1>1. \A r \in Run : Alive(r) <=> r \in Living
  BY DEF Alive, Living
<1>2. \A h \in Handler : pc[h] \in {"start", "install"} <=> h \in Starting
  BY DEF Starting
<1>3. Starting \subseteq Handler /\ Living \subseteq Run
  BY DEF Starting, Living
<1>4. OneAtATime <=> (~overlapped =>
        /\ \A g, h \in Starting : g = h
        /\ Starting # {} => Living = {}
        /\ \A r, q \in Living : r = q)
  BY <1>1, <1>2, <1>3 DEF OneAtATime
<1>5. StoppableApart <=> (~overlapped =>
        \A r \in Living : r \in cancelled \/ cancel = r \/ \E a \in Actor : grabbed[a] = r)
  BY <1>1, <1>3 DEF StoppableApart, Stoppable, Holders
<1>6. StatusApart <=> (~overlapped =>
        /\ status.active => cancel \in Living /\ status.sent = sent[cancel]
        /\ \A r \in Run : pc[r] \in {"run", "wait", "count"} /\ cancel = r => status.active)
  <2>1. (cancel # None /\ Alive(cancel)) <=> cancel \in Living
    BY <1>1, <1>3, EnginesAssumption DEF TypeOK
  <2> QED BY <2>1 DEF StatusApart
<1> QED BY <1>4, <1>5, <1>6 DEF Apart

(* Taking the cancel function makes nobody unstoppable. *)
LEMMA ApartTaken ==
  ASSUME Placed, HeldToBeCalled, Apart, NEW a \in Actor, pc[a] \in {"idle", "defer"}, TakeCancel(a),
         Living' \subseteq Living, \A g, h \in Starting' : g = h, Starting' # {} => Living' = {}
  PROVE  Apart'
<1>1. /\ cancel' = None /\ cancelled' = cancelled /\ ~status'.active
      /\ \A b \in Actor : grabbed'[b] = IF b = a THEN cancel ELSE grabbed[b]
      /\ grabbed[a] = None
  BY DEF TakeCancel, Idle, Placed, HeldToBeCalled
<1>2. None \notin Run /\ Living' \subseteq Run
  BY EnginesAssumption DEF Living
<1>3. ASSUME NEW r \in Living'
      PROVE  r \in cancelled' \/ \E b \in Actor : grabbed'[b] = r
  <2>1. r \in cancelled \/ cancel = r \/ \E b \in Actor : grabbed[b] = r
    BY <1>3 DEF Apart
  <2>2. r # None
    BY <1>2, <1>3
  <2> QED BY <1>1, <2>1, <2>2
<1>4. \A r, q \in Living' : r = q
  BY DEF Apart
<1> QED BY <1>1, <1>2, <1>3, <1>4 DEF Apart

LEMMA EnginesApartStep ==
  ASSUME TypeOK, TypeOK', HeldToBeCalled, ~overlapped => Apart, Next
  PROVE  ~overlapped' => Apart'
<1>1. Placed
  BY DEF TypeOK, Placed
<1>2. \A r \in Run : r \in Actor /\ r \notin Handler
  BY EnginesAssumption DEF Actor
<1>3. None \notin Run /\ Living \subseteq Run /\ Starting \subseteq Handler
  BY EnginesAssumption DEF Living, Starting
<1> SUFFICES ASSUME ~overlapped' PROVE Apart'
  OBVIOUS
<1>4. ASSUME NEW h \in Handler, Stop(h) PROVE Apart'
  <2>1. pc[h] = "idle" /\ TakeCancel(h) /\ overlapped' = overlapped
        /\ \A b \in Actor : pc'[b] = IF b = h THEN "stop" ELSE pc[b]
    BY <1>1, <1>4 DEF Stop, Step, Placed
  <2>2. Living' = Living /\ Starting' = Starting
    BY <1>2, <2>1 DEF Living, Starting, Actor
  <2> QED BY <1>1, <2>1, <2>2, ApartTaken DEF Apart, Actor
<1>5. ASSUME NEW h \in Handler, Start(h) PROVE Apart'
  <2>1. /\ pc[h] = "idle" /\ TakeCancel(h)
        /\ ~overlapped /\ Living = {} /\ Starting = {}
        /\ \A b \in Actor : pc'[b] = IF b = h THEN "start" ELSE pc[b]
    BY <1>1, <1>5 DEF Start, Step, Placed, Living, Starting, Alive
  <2>2. Living' = {} /\ Starting' = {h}
    BY <1>2, <2>1 DEF Living, Starting, Actor
  <2> QED BY <1>1, <2>1, <2>2, ApartTaken DEF Actor
<1>6. ASSUME NEW r \in Run, DeferStop(r) PROVE Apart'
  <2>1. pc[r] = "defer" /\ TakeCancel(r) /\ overlapped' = overlapped
        /\ \A b \in Actor : pc'[b] = IF b = r THEN "defer_stop" ELSE pc[b]
    BY <1>1, <1>2, <1>6 DEF DeferStop, Step, Placed
  <2>2. Living' = Living /\ Starting' = Starting
    BY <1>2, <2>1 DEF Living, Starting, Actor
  <2> QED BY <1>1, <1>2, <2>1, <2>2, ApartTaken DEF Apart
<1>7. ASSUME NEW a \in Actor, CallCancel(a) PROVE Apart'
  <2>1. PICK to \in {"idle", "install", "gone"} :
          /\ pc' = [pc EXCEPT ![a] = to]
          /\ \/ pc[a] = "stop" /\ to = "idle"
             \/ pc[a] = "start" /\ to = "install"
             \/ pc[a] = "defer_stop" /\ to = "gone"
    BY <1>7 DEF CallCancel, Step
  <2>2. /\ cancelled' = cancelled \cup ({grabbed[a]} \ {None})
        /\ UNCHANGED <<cancel, status, sent, overlapped>>
        /\ \A b \in Actor : pc'[b] = IF b = a THEN to ELSE pc[b]
        /\ \A b \in Actor : grabbed'[b] = IF b = a THEN None ELSE grabbed[b]
    BY <1>1, <1>7, <2>1 DEF CallCancel, runVars, Placed
  <2>3. Starting' = Starting
    BY <2>1, <2>2 DEF Starting, Actor, HeldToBeCalled
  <2>4. Living' = IF to = "gone" THEN Living \ {a} ELSE Living
    BY <1>2, <2>1, <2>2 DEF Living, Actor, HeldToBeCalled
  <2>5. ASSUME NEW r \in Living'
        PROVE  r \in cancelled' \/ cancel' = r \/ \E b \in Actor : grabbed'[b] = r
    <3>1. r \in Living /\ r # None
      BY <1>3, <2>4
    <3>2. r \in cancelled \/ cancel = r \/ \E b \in Actor : grabbed[b] = r
      BY <2>2, <3>1 DEF Apart
    <3> QED BY <2>2, <3>1, <3>2
  <2>6. status'.active => cancel' \in Living' /\ status'.sent = sent'[cancel']
    <3>1. to = "gone" => a \in Run /\ cancel # a
      BY <2>1 DEF HeldToBeCalled, Actor
    <3> QED BY <2>2, <2>4, <3>1 DEF Apart
  <2>7. \A r \in Run : pc'[r] \in {"run", "wait", "count"} /\ cancel' = r => status'.active
    BY <1>2, <2>2 DEF Apart
  <2> QED BY <2>2, <2>3, <2>4, <2>5, <2>6, <2>7 DEF Apart
<1>8. ASSUME NEW h \in Handler, NEW r \in Run, NEW j \in Jobs, Install(h, r, j) PROVE Apart'
  <2>1. /\ pc[h] = "install" /\ pc[r] = "unborn" /\ h \in Starting
        /\ cancel' = r /\ UNCHANGED <<cancelled, grabbed, sent, overlapped>>
        /\ status' = [active |-> TRUE, sent |-> 0]
        /\ \A b \in Actor : pc'[b] = IF b = r THEN "run" ELSE IF b = h THEN "idle" ELSE pc[b]
    BY <1>1, <1>2, <1>8 DEF Install, Placed, Starting
  <2>2. Living = {} /\ Starting = {h}
    BY <2>1 DEF Apart
  <2>3. Living' = {r} /\ Starting' = {}
    BY <1>2, <2>1, <2>2 DEF Living, Starting, Actor
  <2>4. sent[r] = 0
    BY <2>1 DEF HeldToBeCalled
  <2> QED BY <2>1, <2>3, <2>4 DEF Apart
<1>9. ASSUME NEW r \in Run, ClearCancel(r) PROVE Apart'
  <2>1. /\ pc[r] = "defer" /\ cancel' = None /\ overlapped' = overlapped
        /\ status' = [status EXCEPT !.active = FALSE]
        /\ \A b \in Actor : pc'[b] = IF b = r THEN "gone" ELSE pc[b]
    BY <1>1, <1>2, <1>9 DEF ClearCancel, Step, Placed
  <2>2. ~status'.active
    BY <2>1 DEF TypeOK
  <2>3. Living = {r}
    BY <2>1 DEF Apart, Living
  <2>4. Living' = {} /\ Starting' = Starting
    BY <1>2, <2>1, <2>3 DEF Living, Starting, Actor
  <2> QED BY <1>3, <2>1, <2>2, <2>4 DEF Apart
<1>10. ASSUME NEW r \in Run, Moves(r) PROVE Apart'
  <2>1. PICK to \in {"run", "wait", "count", "defer"} : pc' = [pc EXCEPT ![r] = to]
    BY <1>10 DEF Moves
  <2>2. /\ pc[r] \in {"run", "wait", "count"}
        /\ UNCHANGED <<cancel, cancelled, grabbed, overlapped>>
        /\ \A b \in Actor : pc'[b] = IF b = r THEN to ELSE pc[b]
    BY <1>1, <1>2, <1>10, <2>1 DEF Moves, Placed
  <2>3. Living = {r}
    BY <2>2 DEF Apart, Living
  <2>4. Living' = {r} /\ Starting' = Starting
    BY <1>2, <2>2, <2>3 DEF Living, Starting, Actor
  <2>5. Starting = {} /\ (r \in cancelled \/ cancel = r \/ \E a \in Actor : grabbed[a] = r)
        /\ (status.active => cancel = r /\ status.sent = sent[cancel])
        /\ (cancel = r => status.active)
    BY <2>2, <2>3 DEF Apart
  <2>6. /\ status'.active => cancel' \in Living' /\ status'.sent = sent'[cancel']
        /\ pc'[r] \in {"run", "wait", "count"} /\ cancel' = r => status'.active
    <3>1. CASE UNCHANGED <<status, sent>>
      BY <2>2, <2>4, <2>5, <3>1
    <3>2. CASE status'.active = status.active /\ status'.sent = sent'[r]
      BY <2>2, <2>4, <2>5, <3>2
    <3>3. CASE ~status'.active /\ pc'[r] = "defer"
      BY <3>3
    <3> QED BY <1>10, <3>1, <3>2, <3>3 DEF Moves
  <2>7. \A q \in Run : pc'[q] \in {"run", "wait", "count"} => q \in Living'
    BY DEF Living
  <2>8. \A q \in Run : pc'[q] \in {"run", "wait", "count"} /\ cancel' = q => status'.active
    BY <2>4, <2>6, <2>7
  <2> QED BY <2>2, <2>4, <2>5, <2>6, <2>8 DEF Apart
<1> QED BY <1>4, <1>5, <1>6, <1>7, <1>8, <1>9, <1>10, StepShapes
----------------------------------------------------------------------------
(* The theorems. *)

LEMMA ApartPartsNext ==
  ASSUME TypeOK', ~overlapped' => Apart'
  PROVE  OneAtATime' /\ StoppableApart' /\ StatusApart'
<1>1. \A r \in Run : Alive(r)' <=> r \in Living'
  BY DEF Alive, Living
<1>2. \A h \in Handler : pc'[h] \in {"start", "install"} <=> h \in Starting'
  BY DEF Starting
<1>3. Living' \subseteq Run
  BY DEF Living
<1>4. OneAtATime'
  BY <1>1, <1>2 DEF OneAtATime, Apart
<1>5. StoppableApart'
  BY <1>1 DEF StoppableApart, Stoppable, Holders, Apart
<1>6. StatusApart'
  <2>1. cancel' \in Living' => cancel' # None /\ Alive(cancel)'
    BY <1>3, EnginesAssumption DEF Alive, Living
  <2> QED BY <2>1 DEF StatusApart, Apart
<1> QED BY <1>4, <1>5, <1>6

LEMMA EnginesInductive == EnginesIInv /\ [Next]_vars => EnginesIInv'
<1> SUFFICES ASSUME EnginesIInv, [Next]_vars PROVE EnginesIInv'
  OBVIOUS
<1>1. /\ TypeOK /\ HeldToBeCalled /\ WithinUnit
      /\ ~overlapped => Apart
  BY ApartParts DEF EnginesIInv
<1>2. TypeOK' /\ HeldToBeCalled' /\ WithinUnit' /\ (~overlapped' => Apart')
  <2>1. CASE UNCHANGED vars
    <3>1. UNCHANGED <<kind, cancel, status, cancelled, pc, grabbed, job, todo, doing, sent, late, overlapped>>
      BY <2>1 DEF vars, engineVars, runVars
    <3>2. TypeOK'
      BY <1>1, <3>1 DEF TypeOK, Jobs
    <3>3. HeldToBeCalled'
      BY <1>1, <3>1 DEF HeldToBeCalled
    <3>4. WithinUnit'
      BY <1>1, <3>1 DEF WithinUnit
    <3>5. ~overlapped' => Apart'
      BY <1>1, <3>1 DEF Apart, Living, Starting
    <3> QED BY <3>2, <3>3, <3>4, <3>5
  <2>2. CASE Next
    <3>1. TypeOK' /\ HeldToBeCalled'
      BY <1>1, <2>2, EnginesTypeStep, EnginesHeldStep
    <3>2. \A r \in Run : WithinOf(r)'
      BY <1>1, <2>2, WithinParts, EnginesWithinStep
    <3>3. WithinUnit'
      BY <3>2 DEF WithinOf, WithinUnit, OnePacket
    <3>4. ~overlapped' => Apart'
      BY <1>1, <2>2, <3>1, EnginesApartStep
    <3> QED BY <3>1, <3>3, <3>4
  <2> QED BY <2>1, <2>2
<1> QED BY <1>2, ApartPartsNext DEF EnginesIInv

LEMMA EnginesInvariance == Spec => []EnginesIInv
<1> QED BY EnginesInitInv, EnginesInductive, PTL DEF Spec

(* Start and Stop of both engines, replay/engine.go and synth/engine.go:   *)
(* a cancel function is stored in e.cancel, or one Stop is about to call   *)
(* it, or it was called; it is never in two of these places, so no run is  *)
(* cancelled by a Stop that took it while another still holds it.          *)
THEOREM CancelsAreHeldOnce == Spec => []EnginesInv
<1>1. EnginesIInv => EnginesInv
  <2> SUFFICES ASSUME EnginesIInv PROVE EnginesInv
    OBVIOUS
  <2>1. TypeOK /\ HeldToBeCalled
    BY DEF EnginesIInv
  <2>2. ASSUME NEW r \in Run
        PROVE  /\ Cardinality(Holders(r)) <= 1
               /\ cancel = r => Holders(r) = {} /\ pc[r] # "unborn"
               /\ r \in cancelled => cancel # r /\ Holders(r) = {}
    <3>1. r # None
      BY EnginesAssumption
    <3>2. \A a \in Holders(r) : cancel # r /\ r \notin cancelled
      BY <2>1, <3>1 DEF Holders, HeldToBeCalled
    <3>3. Holders(r) = {} \/ \E a : Holders(r) = {a}
      BY <2>1, <3>1 DEF Holders, HeldToBeCalled
    <3>4. Cardinality(Holders(r)) <= 1
      <4>1. Cardinality(Holders(r)) = 0 \/ Cardinality(Holders(r)) = 1
        BY <3>3, FS_EmptySet, FS_Singleton, Zenon
      <4> QED BY <4>1
    <3>5. cancel = r => r \notin cancelled /\ pc[r] # "unborn"
      BY <2>1, <3>1 DEF HeldToBeCalled
    <3> QED BY <3>2, <3>4, <3>5
  <2> QED BY <2>1, <2>2 DEF EnginesInv, CancelHeldOnce
<1> QED BY <1>1, EnginesInvariance, PTL

(* The polls of the context in the loops of both engines: whatever the     *)
(* request, and whichever branch a select takes when its timer and its     *)
(* context are both ready, a run whose context is done goes no further     *)
(* than its unit: a replay sends one packet more, synth the rest of a      *)
(* session.                                                                *)
THEOREM CancelledWithinUnit == Spec => []RestOfUnit
<1>1. EnginesIInv => RestOfUnit
  <2> SUFFICES ASSUME EnginesIInv, NEW r \in Run, late[r] # 0
               PROVE  /\ \E unit \in Range(job[r].units) : late[r] <= Sends(unit)
                      /\ kind = "replay" => late[r] <= 1
    BY DEF RestOfUnit
  <2>1. /\ TypeOK /\ WithinUnit
    BY DEF EnginesIInv
  <2>2. PICK unit \in Range(job[r].units) : late[r] + Sends(doing[r]) <= Sends(unit)
    BY <2>1 DEF WithinUnit
  <2>3. late[r] \in Nat /\ doing[r] \in Seq(Instr) /\ job[r].units \in Seq(Seq(Instr))
    BY <2>1, JobsAreUnits DEF TypeOK, Instr
  <2>4. Sends(doing[r]) \in Nat /\ Sends(unit) \in Nat
    BY <2>3, SendsLeft, ElementOfSeq, LenProperties DEF Range
  <2>5. late[r] <= Sends(unit)
    BY <2>2, <2>3, <2>4
  <2>6. kind = "replay" => Sends(unit) <= 1
    BY <2>1 DEF WithinUnit
  <2> QED BY <2>3, <2>4, <2>5, <2>6
<1> QED BY <1>1, EnginesInvariance, PTL

(* Stop after Start, in both engines: unless a Start met another Start or  *)
(* a run that was still alive, the cancel function of a run that is not    *)
(* done can be found by the next Stop, or is about to be called.           *)
THEOREM RunsCanBeStopped == Spec => []StoppableApart
<1>1. EnginesIInv => StoppableApart
  BY DEF EnginesIInv
<1> QED BY <1>1, EnginesInvariance, PTL

(* Status of both engines: under the same condition, what Status answers   *)
(* is about the one run that is alive, and counts what that run sent.      *)
THEOREM StatusIsOfTheRun == Spec => []StatusApart
<1>1. EnginesIInv => StatusApart
  BY DEF EnginesIInv
<1> QED BY <1>1, EnginesInvariance, PTL
=============================================================================

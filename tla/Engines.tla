------------------------------ MODULE Engines ------------------------------
(***************************************************************************)
(* The two engines that generate traffic, internal/replay and              *)
(* internal/synth.  They share one shape: Start (Run in synth) stops what  *)
(* is running, stores the cancel function of a fresh context under the     *)
(* mutex and starts a goroutine; Stop takes the cancel function out under  *)
(* the mutex and calls it after unlocking.  They differ in what a          *)
(* goroutine sends and in what it defers.  kind says which one this is.    *)
(*                                                                         *)
(* What a goroutine does comes in units, a packet of a recording or a      *)
(* session of a client: it polls its context before each, and in one it    *)
(* waits for a timer or its context ("wait") and sends packets ("send").   *)
(***************************************************************************)
EXTENDS Integers, Sequences, FiniteSets, Functions

CONSTANTS None,
          Run,            \* the goroutines that may be started
          Handler,        \* HTTP handlers that may call Start and Stop
          ReplayRequest,  \* what replays are asked for
          SynthRequest    \* what synth runs are asked for

Pattern == {"auth_only", "acct_only", "full_session", "unknown"}

(* packets: of the recording; waits: those that preserve_timing or         *)
(* rate_rps have wait.  built: the Access-Requests can be built; interims: *)
(* Interim-Updates that fit in a session.                                  *)
ASSUME EnginesAssumption ==
    /\ None \notin Run /\ Run \cap Handler = {}
    /\ ReplayRequest \subseteq
         [packets : Nat \ {0}, waits : SUBSET Nat, loop : BOOLEAN]
    /\ SynthRequest \subseteq
         [sessions : Nat \ {0}, pattern : Pattern, built : BOOLEAN, interims : Nat]

VARIABLES kind,       \* "replay" or "synth"
          cancel,     \* e.cancel: the run whose context it cancels, or None
          status,     \* e.status: Active and Sent
          cancelled,  \* the runs whose context is done
          pc,         \* Handler and Run -> where it is
          grabbed,    \* Handler and Run -> the cancel function its Stop took
          job,        \* Run -> [units, loop]: what it was started with
          todo,       \* Run -> the units it has not begun
          doing,      \* Run -> the rest of the unit in hand
          sent,       \* Run -> packets sent (in this turn of the loop)
          late,       \* history: Run -> packets sent since its context is done
          overlapped  \* history: a Start met another, or a run still alive

engineVars == <<cancel, status, cancelled>>
runVars == <<job, todo, doing, sent, late>>
vars == <<kind, engineVars, pc, grabbed, runVars, overlapped>>

Actor == Handler \cup Run
Idle == [active |-> FALSE, sent |-> 0]
----------------------------------------------------------------------------
(* The units. *)

(* Replay: n packets; before all but the first a wait, unless              *)
(* preserve_timing makes it zero or negative.                              *)
ReplayUnits(n, waits) ==
    [i \in 1 .. n |-> IF i \in waits \ {1} THEN <<"wait", "send">> ELSE <<"send">>]

\* n packets, with a wait after each.
Packets(n) == [i \in 1 .. 2 * n |-> IF i % 2 = 1 THEN "send" ELSE "wait"]

(* Synth: an accounting session is Start, Interim-Updates and Stop; in     *)
(* full_session an Access-Request goes before it, which is left out but    *)
(* for the wait if it cannot be built.                                     *)
Session(pattern, built, interims) ==
    CASE pattern = "auth_only" -> Packets(IF built THEN 1 ELSE 0)
      [] pattern = "acct_only" -> Packets(interims + 2)
      [] pattern = "full_session" /\ built -> Packets(interims + 3)
      [] pattern = "full_session" /\ ~built -> <<"wait">> \o Packets(interims + 2)
      [] OTHER -> <<"return">>

ReplayJobs ==
    {[units |-> ReplayUnits(q.packets, q.waits), loop |-> q.loop] : q \in ReplayRequest}
SynthJobs ==
    {[units |-> [i \in 1 .. q.sessions |-> Session(q.pattern, q.built, q.interims)],
      loop |-> FALSE] : q \in SynthRequest}
Jobs == IF kind = "replay" THEN ReplayJobs ELSE SynthJobs
NoJob == [units |-> <<>>, loop |-> FALSE]
----------------------------------------------------------------------------
Init ==
    /\ kind \in {"replay", "synth"}
    /\ cancel = None
    /\ status = Idle
    /\ cancelled = {}
    /\ pc = [a \in Actor |-> IF a \in Handler THEN "idle" ELSE "unborn"]
    /\ grabbed = [a \in Actor |-> None]
    /\ job = [r \in Run |-> NoJob]
    /\ todo = [r \in Run |-> <<>>]
    /\ doing = [r \in Run |-> <<>>]
    /\ sent = [r \in Run |-> 0]
    /\ late = [r \in Run |-> 0]
    /\ overlapped = FALSE

Step(a, from, to) == pc[a] = from /\ pc' = [pc EXCEPT ![a] = to]
Alive(r) == pc[r] \notin {"unborn", "gone"}

\* Mutant: the cancel function stays where it is.
TakeCancelKeeps(a) ==
    /\ grabbed' = [grabbed EXCEPT ![a] = cancel]
    /\ status' = Idle
    /\ UNCHANGED <<cancel, cancelled>>

(* The critical section of Stop; the cancel function is called later. *)
TakeCancel(a) ==
    /\ grabbed' = [grabbed EXCEPT ![a] = cancel]
    /\ cancel' = None
    /\ status' = Idle
    /\ UNCHANGED cancelled

Stop(h) ==
    /\ Step(h, "idle", "stop")
    /\ TakeCancel(h)
    /\ UNCHANGED <<kind, runVars, overlapped>>

(* Start of replay, Run of synth: what is asked for exists in the store;   *)
(* whatever runs is stopped.                                               *)
Start(h) ==
    /\ \E r \in Run : pc[r] = "unborn"
    /\ Step(h, "idle", "start")
    /\ TakeCancel(h)
    /\ overlapped' = \/ overlapped
                     \/ \E r \in Run : Alive(r)
                     \/ \E g \in Handler : pc[g] \in {"start", "install"}
    /\ UNCHANGED <<kind, runVars>>

(* Stop calls what it took, outside the critical section. *)
CallCancel(a) ==
    /\ \/ Step(a, "stop", "idle")
       \/ Step(a, "start", "install")
       \/ Step(a, "defer_stop", "gone")
    /\ cancelled' = cancelled \cup ({grabbed[a]} \ {None})
    /\ grabbed' = [grabbed EXCEPT ![a] = None]
    /\ UNCHANGED <<kind, cancel, status, runVars, overlapped>>

(* A fresh goroutine, whichever. *)
Fresh == CHOOSE r \in Run : pc[r] = "unborn"

\* Mutant: the cancel function is not stored.
InstallForgets(h, r, j) ==
    /\ pc[h] = "install" /\ pc[r] = "unborn" /\ r = Fresh
    /\ pc' = [pc EXCEPT ![h] = "idle", ![r] = "run"]
    /\ status' = [active |-> TRUE, sent |-> 0]
    /\ job' = [job EXCEPT ![r] = j]
    /\ todo' = [todo EXCEPT ![r] = j.units]
    /\ doing' = [doing EXCEPT ![r] = <<>>]
    /\ UNCHANGED <<kind, cancel, cancelled, grabbed, sent, late, overlapped>>

(* The rest of Start: the new context's cancel function is stored with a   *)
(* fresh status, and the goroutine starts.                                 *)
Install(h, r, j) ==
    /\ pc[h] = "install" /\ pc[r] = "unborn" /\ r = Fresh
    /\ pc' = [pc EXCEPT ![h] = "idle", ![r] = "run"]
    /\ cancel' = r
    /\ status' = [active |-> TRUE, sent |-> 0]
    /\ job' = [job EXCEPT ![r] = j]
    /\ todo' = [todo EXCEPT ![r] = j.units]
    /\ doing' = [doing EXCEPT ![r] = <<>>]
    /\ UNCHANGED <<kind, cancelled, grabbed, sent, late, overlapped>>
----------------------------------------------------------------------------
(* The goroutine r. *)
Between(r) == pc[r] = "run" /\ doing[r] = <<>>
Instruction(r, i) == pc[r] = "run" /\ doing[r] # <<>> /\ Head(doing[r]) = i
Advance(r) == doing' = [doing EXCEPT ![r] = Tail(@)]
Goto(r, to) == pc' = [pc EXCEPT ![r] = to]
Local(r) == UNCHANGED <<kind, engineVars, grabbed, overlapped>>

(* The goroutine returns: what it defers is left to do, and what it was    *)
(* about is forgotten.                                                     *)
Leave(r) ==
    /\ Goto(r, "defer")
    /\ todo' = [todo EXCEPT ![r] = <<>>]
    /\ doing' = [doing EXCEPT ![r] = <<>>]
    /\ job' = [job EXCEPT ![r] = NoJob]
    /\ late' = [late EXCEPT ![r] = 0]
    /\ UNCHANGED sent

Begin(r) ==
    /\ doing' = [doing EXCEPT ![r] = Head(todo[r])]
    /\ todo' = [todo EXCEPT ![r] = Tail(@)]
    /\ UNCHANGED <<pc, job, sent, late>>

\* Mutant: a context that is done is not noticed.
CheckIgnores(r) ==
    /\ Between(r) /\ todo[r] # <<>>
    /\ Begin(r)
    /\ Local(r)

\* Mutant: the goroutine goes on to the next unit in place of returning.
CheckContinues(r) ==
    /\ Between(r) /\ todo[r] # <<>>
    /\ IF r \in cancelled
       THEN todo' = [todo EXCEPT ![r] = Tail(@)] /\ UNCHANGED <<pc, job, doing, sent, late>>
       ELSE Begin(r)
    /\ Local(r)

(* The select with a default branch before a packet or a session. *)
Check(r) ==
    /\ Between(r) /\ todo[r] # <<>>
    /\ IF r \in cancelled THEN Leave(r) ELSE Begin(r)
    /\ Local(r)

(* A timer is set, and the select waits for it or for the context.  If     *)
(* both are ready, be it as the select is reached, it may take either.     *)
Wait(r) ==
    /\ Instruction(r, "wait")
    /\ Goto(r, "wait")
    /\ Advance(r)
    /\ Local(r) /\ UNCHANGED <<job, todo, sent, late>>

TimerFires(r) ==
    /\ Step(r, "wait", "run")
    /\ Local(r) /\ UNCHANGED runVars

WaitCancelled(r) ==
    /\ pc[r] = "wait" /\ r \in cancelled
    /\ Leave(r)
    /\ Local(r)

(* ForwardBytes and, with mirror_to_stream, Emit; then the critical        *)
(* section that counts the packet.                                         *)
Send(r) ==
    /\ Instruction(r, "send")
    /\ Goto(r, "count")
    /\ Advance(r)
    /\ late' = [late EXCEPT ![r] = IF r \in cancelled THEN @ + 1 ELSE @]
    /\ Local(r) /\ UNCHANGED <<job, todo, sent>>

Count(r) ==
    /\ Step(r, "count", "run")
    /\ sent' = [sent EXCEPT ![r] = @ + 1]
    /\ status' = [status EXCEPT !.sent = sent[r] + 1]
    /\ UNCHANGED <<kind, cancel, cancelled, grabbed, job, todo, doing, late, overlapped>>

(* Synth does not know the pattern. *)
Return(r) ==
    /\ Instruction(r, "return")
    /\ Leave(r)
    /\ Local(r)

(* The last unit is done: replay may start over. *)
Loop(r) ==
    /\ Between(r) /\ todo[r] = <<>> /\ job[r].loop
    /\ todo' = [todo EXCEPT ![r] = job[r].units]
    /\ sent' = [sent EXCEPT ![r] = 0]
    /\ status' = [status EXCEPT !.sent = 0]
    /\ UNCHANGED <<kind, cancel, cancelled, pc, grabbed, job, doing, late, overlapped>>

Finish(r) ==
    /\ Between(r) /\ todo[r] = <<>> /\ ~job[r].loop
    /\ Leave(r)
    /\ status' = IF kind = "synth" THEN [status EXCEPT !.active = FALSE] ELSE status
    /\ UNCHANGED <<kind, cancel, cancelled, grabbed, overlapped>>

Forget(r) ==
    /\ sent' = [sent EXCEPT ![r] = 0]
    /\ UNCHANGED <<job, todo, doing, late>>

\* Mutant: the status stays active.
ClearCancelOnly(r) ==
    /\ kind = "replay"
    /\ Step(r, "defer", "gone")
    /\ cancel' = None
    /\ Forget(r)
    /\ UNCHANGED <<kind, status, cancelled, grabbed, overlapped>>

(* What the goroutine defers, replay: the cancel function is cleared,      *)
(* whose ever it is.                                                       *)
ClearCancel(r) ==
    /\ kind = "replay"
    /\ Step(r, "defer", "gone")
    /\ cancel' = None
    /\ status' = [status EXCEPT !.active = FALSE]
    /\ Forget(r)
    /\ UNCHANGED <<kind, cancelled, grabbed, overlapped>>

(* Synth: Stop, which stops whatever is running. *)
DeferStop(r) ==
    /\ kind = "synth"
    /\ Step(r, "defer", "defer_stop")
    /\ TakeCancel(r)
    /\ Forget(r)
    /\ UNCHANGED <<kind, overlapped>>

Progress(r) ==
    \/ Check(r) \/ Wait(r) \/ TimerFires(r) \/ WaitCancelled(r)
    \/ Send(r) \/ Count(r) \/ Return(r) \/ Loop(r) \/ Finish(r)
    \/ ClearCancel(r) \/ DeferStop(r) \/ CallCancel(r)

Handle(h) ==
    \/ Stop(h) \/ Start(h) \/ CallCancel(h)
    \/ \E r \in Run, j \in Jobs : Install(h, r, j)

Next == (\E h \in Handler : Handle(h)) \/ (\E r \in Run : Progress(r))

Spec == Init /\ [][Next]_vars

(* A goroutine that can run does, and timers fire.  Nothing is assumed of  *)
(* the handlers.                                                           *)
FairSpec == Spec /\ \A r \in Run : WF_vars(Progress(r))
----------------------------------------------------------------------------
TypeOK ==
    /\ kind \in {"replay", "synth"}
    /\ cancel \in Run \cup {None}
    /\ status \in [active : BOOLEAN, sent : Nat]
    /\ cancelled \subseteq Run
    /\ pc \in [Actor -> {"idle", "stop", "start", "install", "unborn", "run", "wait",
                         "count", "defer", "defer_stop", "gone"}]
    /\ grabbed \in [Actor -> Run \cup {None}]
    /\ job \in [Run -> Jobs \cup {NoJob}]
    /\ todo \in [Run -> Seq(Seq({"wait", "send", "return"}))]
    /\ doing \in [Run -> Seq({"wait", "send", "return"})]
    /\ sent \in [Run -> Nat]
    /\ late \in [Run -> Nat]
    /\ overlapped \in BOOLEAN

(* A cancel function is in one place only: in e.cancel, in the hands of    *)
(* one Stop, or called already.                                            *)
Holders(r) == {a \in Actor : grabbed[a] = r}
CancelHeldOnce ==
    \A r \in Run :
        /\ Cardinality(Holders(r)) <= 1
        /\ cancel = r => Holders(r) = {} /\ pc[r] # "unborn"
        /\ r \in cancelled => cancel # r /\ Holders(r) = {}
EnginesInv == TypeOK /\ CancelHeldOnce

(* A run that is told to stop sends no more than a unit has: it polls its  *)
(* context before the next, and in a unit each timer may win against a     *)
(* context that is done.  A replay sends one packet at most, synth the     *)
(* rest of a session.                                                      *)
Sends(unit) == Cardinality({i \in DOMAIN unit : unit[i] = "send"})
RestOfUnit ==
    \A r \in Run : late[r] # 0 =>
        /\ \E unit \in Range(job[r].units) : late[r] <= Sends(unit)
        /\ kind = "replay" => late[r] <= 1

(* README.md:77, 79: /replay/stop and /synth/stop stop what runs.  So the  *)
(* next Stop finds the cancel function of every run that is not done, or   *)
(* one is about to call it.                                                *)
Stoppable ==
    \A r \in Run : Alive(r) /\ r \notin cancelled => cancel = r \/ Holders(r) # {}

(* They do if no Start met another one or a run that was still alive.      *)
StoppableApart == ~overlapped => Stoppable

(* Then, too, the status is that of a run which is alive, and a run that   *)
(* nobody stops shows as active until it is at its end.                    *)
StatusApart ==
    ~overlapped =>
        /\ status.active => cancel # None /\ Alive(cancel) /\ status.sent = sent[cancel]
        /\ \A r \in Run : pc[r] \in {"run", "wait", "count"} /\ cancel = r => status.active

(* Whoever is told to stop does, even if it replays a recording for ever.  *)
CancelledEnds == \A r \in Run : r \in cancelled ~> pc[r] = "gone"
----------------------------------------------------------------------------
(* What the invariants rest on: an inductive invariant. *)

(* Who holds a cancel function is about to call it; nobody holds one that  *)
(* another holds, that is stored or that was called.                       *)
HeldToBeCalled ==
    /\ \A h \in Handler : pc[h] \in {"idle", "stop", "start", "install"}
    /\ \A r \in Run : pc[r] \notin {"idle", "stop", "start", "install"}
    /\ \A a \in Actor : grabbed[a] # None =>
         /\ pc[a] \in {"stop", "start", "defer_stop"}
         /\ cancel # grabbed[a] /\ grabbed[a] \notin cancelled
         /\ pc[grabbed[a]] # "unborn"
    /\ \A a, b \in Actor : grabbed[a] # None /\ grabbed[a] = grabbed[b] => a = b
    /\ cancel # None => cancel \notin cancelled /\ pc[cancel] # "unborn"
    /\ \A r \in Run :
         /\ pc[r] = "unborn" => r \notin cancelled /\ sent[r] = 0
         /\ pc[r] = "defer_stop" => cancel # r

(* Units in hand and to come are of the job; what a run has sent since its *)
(* context is done and what is left of its unit make one unit at most.     *)
WithinUnit ==
    \A r \in Run :
        /\ Range(todo[r]) \subseteq Range(job[r].units)
        /\ kind = "replay" => \A unit \in Range(job[r].units) : Sends(unit) <= 1
        /\ late[r] # 0 => r \in cancelled
        /\ late[r] # 0 \/ doing[r] # <<>> =>
             \E unit \in Range(job[r].units) : late[r] + Sends(doing[r]) <= Sends(unit)

(* As long as no Start met another: one engine at work. *)
OneAtATime ==
    ~overlapped =>
        /\ \A g, h \in Handler :
             pc[g] \in {"start", "install"} /\ pc[h] \in {"start", "install"} => g = h
        /\ \A h \in Handler, r \in Run : pc[h] \in {"start", "install"} => ~Alive(r)
        /\ \A r, q \in Run : Alive(r) /\ Alive(q) => r = q

EnginesIInv ==
    /\ TypeOK /\ HeldToBeCalled /\ WithinUnit
    /\ OneAtATime /\ StoppableApart /\ StatusApart
=============================================================================

-------------------------- MODULE UpstreamSockets --------------------------
(***************************************************************************)
(* The forwarder's configuration and its UDP sockets (forwarder.go): the   *)
(* configuration in memory (mutex mu), its copy in the settings table of   *)
(* SQLite, and one udpPath per channel (mutex sockMu).  SetConfig changes  *)
(* the three one after the other and under no common lock, so two calls of *)
(* it interleave between the steps; the thread Main opens the sockets when *)
(* the process starts (New) and closes them when it stops (Close).         *)
(***************************************************************************)
EXTENDS Channels, Naturals

CONSTANTS Sock,           \* the sockets the process may open
          Target,         \* upstream addresses; an unset one is a member too
          Config,         \* the configurations that are ever set
          DefaultConfig,  \* the one New is given when nothing is saved
          Main,           \* the main goroutine
          Admin           \* HTTP handlers that may run SetConfig

Configuration == [enabled : BOOLEAN, auth : Target, acct : Target]
Socket == [channel : Channel, target : Target, open : BOOLEAN]

ASSUME SocketsAssumption ==
    /\ None \notin Sock \cup Target
    /\ None \notin Configuration /\ None \notin Socket
    /\ Config \subseteq Configuration
    /\ DefaultConfig \in Configuration
    /\ Main \notin Admin

VARIABLES config,  \* f.config
          saved,   \* the row forwarder_config of settings, or None
          path,    \* Channel -> the socket of its udpPath, or None
          socket,  \* Sock -> [channel, target, open], or None if never dialled
          thread,  \* Main and Admin -> [pc, cfg]: cfg is what the step read
          closed   \* the channel f.closed has been closed

socketVars == <<config, saved, path, socket, thread, closed>>

ThreadPC == {"idle", "persist", "write", "sync", "auth", "acct",
             "serving", "close_auth", "close_acct", "stopped"}
Thread == Admin \cup {Main}

(* New starts from the saved configuration if there is one; Main is about  *)
(* to run syncSockets.                                                     *)
SocketsInit ==
    /\ saved \in Config \cup {None}
    /\ config = IF saved # None THEN saved ELSE DefaultConfig
    /\ path = [ch \in Channel |-> None]
    /\ socket = [k \in Sock |-> None]
    /\ thread = [a \in Thread |->
                   [pc |-> IF a = Main THEN "sync" ELSE "idle", cfg |-> None]]
    /\ closed = FALSE

Booted == thread[Main].pc \in {"serving", "close_auth", "close_acct", "stopped"}
Open(k) == socket[k] # None /\ socket[k].open
At(a, pc) == thread[a].pc = pc
Goto(a, pc, cfg) == thread' = [thread EXCEPT ![a] = [pc |-> pc, cfg |-> cfg]]
----------------------------------------------------------------------------
(* ensurePath and closePath, each one critical section of sockMu. *)
Current(ch, t) == path[ch] # None /\ socket[path[ch]].target = t

\* Mutant: the old socket stays open.
HangupForgotten(ch) == socket

Hangup(ch) == [k \in Sock |->
                 IF k = path[ch] THEN [socket[k] EXCEPT !.open = FALSE] ELSE socket[k]]

(* k is the socket ensurePath returns: the present one when its target is  *)
(* t, else a new one after the old one is closed, or None if dialling (or  *)
(* resolving the target) fails.                                            *)
EnsurePath(ch, t, k) ==
    \/ /\ Current(ch, t) /\ k = path[ch]
       /\ UNCHANGED <<path, socket>>
    \/ /\ ~Current(ch, t) /\ k \in Sock /\ socket[k] = None
       /\ path' = [path EXCEPT ![ch] = k]
       /\ socket' = [Hangup(ch) EXCEPT ![k] = [channel |-> ch, target |-> t, open |-> TRUE]]
    \/ /\ ~Current(ch, t) /\ k = None
       /\ path' = [path EXCEPT ![ch] = None]
       /\ socket' = Hangup(ch)

ClosePath(ch) ==
    /\ path' = [path EXCEPT ![ch] = None]
    /\ socket' = Hangup(ch)
----------------------------------------------------------------------------
(* SetConfig, step by step: assign, persist (read again, then write; a     *)
(* failed write is ignored), syncSockets (read again, then each channel).  *)
SetConfig(a, cfg) ==
    /\ Booted /\ a \in Admin /\ At(a, "idle")
    /\ config' = cfg
    /\ Goto(a, "persist", None)
    /\ UNCHANGED <<saved, path, socket, closed>>

PersistRead(a) ==
    /\ At(a, "persist")
    /\ Goto(a, "write", config)
    /\ UNCHANGED <<config, saved, path, socket, closed>>

PersistWrite(a) ==
    /\ At(a, "write")
    /\ saved' = thread[a].cfg
    /\ Goto(a, "sync", None)
    /\ UNCHANGED <<config, path, socket, closed>>

PersistFails(a) ==
    /\ At(a, "write")
    /\ Goto(a, "sync", None)
    /\ UNCHANGED <<config, saved, path, socket, closed>>

SyncRead(a) ==
    /\ At(a, "sync")
    /\ Goto(a, "auth", config)
    /\ UNCHANGED <<config, saved, path, socket, closed>>

AfterSync(a) == IF a = Main THEN "serving" ELSE "idle"

\* Mutant: switching the forwarder off leaves the sockets open.
SyncOnlyOpens(a, ch) ==
    /\ At(a, ch)
    /\ IF thread[a].cfg.enabled
         THEN \E k \in Sock \cup {None} : EnsurePath(ch, thread[a].cfg[ch], k)
         ELSE UNCHANGED <<path, socket>>
    /\ IF ch = "auth" THEN Goto(a, "acct", thread[a].cfg)
                      ELSE Goto(a, AfterSync(a), None)
    /\ UNCHANGED <<config, saved, closed>>

SyncChannel(a, ch) ==
    /\ At(a, ch)
    /\ IF thread[a].cfg.enabled
         THEN \E k \in Sock \cup {None} : EnsurePath(ch, thread[a].cfg[ch], k)
         ELSE ClosePath(ch)
    /\ IF ch = "auth" THEN Goto(a, "acct", thread[a].cfg)
                      ELSE Goto(a, AfterSync(a), None)
    /\ UNCHANGED <<config, saved, closed>>

(* Close, which main defers: it stops the sweeper, then closes each path.  *)
Close ==
    /\ At(Main, "serving")
    /\ closed' = TRUE
    /\ Goto(Main, "close_auth", None)
    /\ UNCHANGED <<config, saved, path, socket>>

CloseChannel(ch) ==
    /\ At(Main, IF ch = "auth" THEN "close_auth" ELSE "close_acct")
    /\ ClosePath(ch)
    /\ Goto(Main, IF ch = "auth" THEN "close_acct" ELSE "stopped", None)
    /\ UNCHANGED <<config, saved, closed>>

(* The readLoop of a closed socket returns and the socket is forgotten.    *)
ForgetSocket(k) ==
    /\ socket[k] # None /\ ~socket[k].open
    /\ socket' = [socket EXCEPT ![k] = None]
    /\ UNCHANGED <<config, saved, path, thread, closed>>
----------------------------------------------------------------------------
SocketsTypeOK ==
    /\ config \in Configuration
    /\ saved \in Configuration \cup {None}
    /\ path \in [Channel -> Sock \cup {None}]
    /\ socket \in [Sock -> Socket \cup {None}]
    /\ thread \in [Thread -> [pc : ThreadPC, cfg : Configuration \cup {None}]]
    /\ closed \in BOOLEAN

(* The sockets that are open are the ones the two paths hold, each on its  *)
(* own channel: none is leaked, none is shared, and no path is dead.       *)
PathsOwnSockets ==
    \A k \in Sock, ch \in Channel :
        path[ch] = k <=> Open(k) /\ socket[k].channel = ch

(* A step that acts on what an earlier one read has read it. *)
ThreadsHoldConfig ==
    \A a \in Thread : thread[a].pc \in {"write", "auth", "acct"} => thread[a].cfg # None
=============================================================================

---------------------------- MODULE MCForwarder ----------------------------
(* Instances of Forwarder for TLC. *)
EXTENDS Forwarder, TLC

CONSTANTS t1, t2, noTarget

Both(t) == [enabled |-> TRUE, auth |-> t, acct |-> t]
Off == [enabled |-> FALSE, auth |-> t1, acct |-> t1]
AuthOnly == [enabled |-> TRUE, auth |-> t2, acct |-> noTarget]

MCTarget == {t1, t2, noTarget}
MCDefault == Off

\* One configuration, saved before the process starts.
OneConfig == {Both(t1)}
\* Switching off and on, and changing the target.
SeveralConfigs == {Off, Both(t1), AuthOnly}

\* Two requests with the same identifier, and one with the same identifier
\* on the other channel.
CollidingRequests == {<<"auth", 0>>, <<"acct", 0>>}
OneRequest == {<<"auth", 0>>}

\* Bound: the process is not stopped.
NotStopped == ~closed

\* Bound: a call ends once it has opened its path.
OnlyPaths == \A c \in Conv : pc[c] # "track"

ConvSymmetry == Permutations(Conv)
SockSymmetry == Permutations(Sock)
=============================================================================

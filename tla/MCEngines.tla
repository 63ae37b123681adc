----------------------------- MODULE MCEngines -----------------------------
(* Instances of Engines for TLC. *)
EXTENDS Engines

Replay(n, ws, l) == [packets |-> n, waits |-> ws, loop |-> l]
Synth(n, p, b, i) == [sessions |-> n, pattern |-> p, built |-> b, interims |-> i]

\* Two packets at a rate; two at once, over and over.
MCReplayRequest == {Replay(2, {2}, FALSE), Replay(2, {}, TRUE)}

\* Each pattern; requests that cannot be built; a pattern synth does not know.
MCSynthRequest ==
    {Synth(2, "auth_only", FALSE, 0), Synth(1, "auth_only", TRUE, 0),
     Synth(1, "acct_only", TRUE, 1), Synth(1, "full_session", TRUE, 0),
     Synth(1, "unknown", TRUE, 0)}
=============================================================================

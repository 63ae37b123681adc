\* What arrives, what is built, and what the forwarder makes of it.
SPECIFICATION WireSpec
CONSTANTS
    None = None
    s1 = s1
    s2 = s2
    user = user
    random = random
    Address <- MCAddress
    Secret = {s1, s2}
    Captured <- MCCaptured
    Local <- MCLocal
    Ident = {0, 1}
    Input <- MCInput
INVARIANT StillAuthentic
INVARIANT AnswerComesBack
INVARIANT OctetsKept
INVARIANT BuiltAsAsked
INVARIANT Unwraps
CHECK_DEADLOCK FALSE

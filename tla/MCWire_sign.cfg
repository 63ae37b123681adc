\* A signed Accounting-Request, signed anew: its Authenticator is wrong.
SPECIFICATION WireSpec
CONSTANTS
    None = None
    s1 = s1
    s2 = s2
    user = user
    random = random
    Address <- MCAddress
    Secret = {s1, s2}
    Captured <- MCCaptured
    Local <- MCLocal
    Ident = {0, 1}
    Input <- MCInput
INVARIANT SignedAsSaid
CHECK_DEADLOCK FALSE

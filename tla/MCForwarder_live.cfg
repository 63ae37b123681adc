\* Whoever waits stops waiting.
SPECIFICATION FairSpec
CONSTANTS
    None = None
    Conv = {c1, c2}
    NIdent = 2
    MaxConversations = 1
    Sock = {k1}
    t1 = t1
    t2 = t2
    noTarget = noTarget
    Target <- MCTarget
    Config <- OneConfig
    DefaultConfig <- MCDefault
    Main = main
    Admin = {}
    Request <- OneRequest
    NoTarget = noTarget
PROPERTY WaitingEnds
CHECK_DEADLOCK FALSE

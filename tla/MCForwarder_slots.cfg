\* The ring takes a waiting request out of the table though identifiers are free.
SPECIFICATION FairSpec
CONSTANTS
    None = None
    Conv = {c1, c2, c3}
    NIdent = 3
    MaxConversations = 2
    Sock = {k1, k2}
    t1 = t1
    t2 = t2
    noTarget = noTarget
    Target <- MCTarget
    Config <- OneConfig
    DefaultConfig <- MCDefault
    Main = main
    Admin = {}
    Request <- CollidingRequests
    NoTarget = noTarget
PROPERTY SlotsPerChannel
CHECK_DEADLOCK FALSE

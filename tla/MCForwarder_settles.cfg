\* A listed conversation stays pending for ever.
SPECIFICATION FairSpec
CONSTANTS
    None = None
    Conv = {c1, c2}
    NIdent = 3
    MaxConversations = 2
    Sock = {k1}
    t1 = t1
    t2 = t2
    noTarget = noTarget
    Target <- MCTarget
    Config <- OneConfig
    DefaultConfig <- MCDefault
    Main = main
    Admin = {}
    Request <- OneRequest
    NoTarget = noTarget
PROPERTY ListedSettles
CHECK_DEADLOCK FALSE

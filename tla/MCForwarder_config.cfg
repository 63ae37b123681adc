\* A handler sets the configuration while a call opens its path; boot and Close too.
SPECIFICATION Spec
CONSTANTS
    None = None
    Conv = {c1}
    NIdent = 2
    MaxConversations = 1
    Sock = {k1, k2, k3}
    t1 = t1
    t2 = t2
    noTarget = noTarget
    Target <- MCTarget
    Config <- SeveralConfigs
    DefaultConfig <- MCDefault
    Main = main
    Admin = {a1}
    Request <- OneRequest
    NoTarget = noTarget
CONSTRAINT OnlyPaths
SYMMETRY SockSymmetry
INVARIANT PathsOwnSockets
INVARIANT SerialUpdatesAgree
CHECK_DEADLOCK FALSE

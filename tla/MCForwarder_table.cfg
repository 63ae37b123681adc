\* The table under three concurrent calls; the configuration never changes.
SPECIFICATION Spec
CONSTANTS
    None = None
    Conv = {c1, c2, c3}
    NIdent = 3
    MaxConversations = 2
    Sock = {k1, k2}
    t1 = t1
    t2 = t2
    noTarget = noTarget
    Target <- MCTarget
    Config <- OneConfig
    DefaultConfig <- MCDefault
    Main = main
    Admin = {}
    Request <- CollidingRequests
    NoTarget = noTarget
CONSTRAINT NotStopped
SYMMETRY ConvSymmetry
INVARIANT IInv
INVARIANT WaitingIsListed
INVARIANT InFlightBounded
INVARIANT AllocationIsFree
INVARIANT OrphanOnlyByCollision
INVARIANT AnswerMatchesKey
PROPERTY OutcomeStands
PROPERTY ImplementsExchange
CHECK_DEADLOCK FALSE

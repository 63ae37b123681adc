\* The catalog: autofill in two goroutines, edits and imports.
SPECIFICATION Spec
CONSTANTS
    None = None
    vx = vx
    d1 = d1
    d2 = d2
    mac = mac
    dashed = dashed
    alice = alice
    bob = bob
    s1 = s1
    VX = vx
    Domain <- MCDomain
    Name <- MCName
    ProxyNames <- MCProxyNames
    PROXY <- MCPROXY
    Addr <- MCAddr
    MAC <- MCMAC
    Normal <- MCNormal
    User <- MCUser
    Secret = {s1}
    Worker = {w1, w2}
    Message <- MCMessage
    NASItem <- MCNASItem
    ClientItem <- MCClientItem
    ImportRequest <- MCImportRequest
    MaxRows = 2
    MaxEdits = 2
SYMMETRY WorkerSymmetry
INVARIANT NamesAreObserved
INVARIANT LearnedOnce
INVARIANT StationsOnce
INVARIANT RoundTrip
PROPERTY AutofillOnlyAdds
PROPERTY MergeForgetsNothing
CHECK_DEADLOCK FALSE

\* Two handlers start and stop up to two runs of either engine.
SPECIFICATION FairSpec
CONSTANTS
    None = None
    Run = {r1, r2}
    Handler = {h1, h2}
    ReplayRequest <- MCReplayRequest
    SynthRequest <- MCSynthRequest
INVARIANT EnginesInv
INVARIANT RestOfUnit
INVARIANT StoppableApart
INVARIANT StatusApart
PROPERTY CancelledEnds
CHECK_DEADLOCK FALSE

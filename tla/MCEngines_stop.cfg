\* A replay that is started again cannot be stopped.
SPECIFICATION Spec
CONSTANTS
    None = None
    Run = {r1, r2}
    Handler = {h1}
    ReplayRequest <- MCReplayRequest
    SynthRequest <- MCSynthRequest
INVARIANT Stoppable
CHECK_DEADLOCK FALSE

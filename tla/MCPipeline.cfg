\* A listener, the orchestrator and an emitter, under recordings that come and go.
SPECIFICATION FairPipelineSpec
CONSTANTS
    None = None
    Recording = {r1, r2}
    Caller = {run, emitter}
    Handler = {h1}
    Listener = {l1}
    Run = run
    EventQueue = 2
    MaxEvents = 3
    Time <- MCTime
    PerMS = 2
    MaxSeq = 3
CONSTRAINT FewEmitted
CONSTRAINT FewRecorded
CONSTRAINT FewInterrupted
INVARIANT CountsPackets
INVARIANT NumbersAreUnique
INVARIANT DeltasFitTimes
INVARIANT StoppedIsClosed
INVARIANT CaptureOrder
INVARIANT NothingGoesRound
INVARIANT RecordingIsComplete
PROPERTY EventsAreProcessed
CHECK_DEADLOCK FALSE

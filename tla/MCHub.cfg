\* Two clients whose writers hold one message and whose queues hold two more;
\* filters that change, and the end of Run.
SPECIFICATION FairSpec
CONSTANTS
    Client = {c1, c2}
    Kind = {"packet"}
    QueueSize = 2
    MaxMessages = 3
INVARIANT HubOwnsQueues
INVARIANT NothingLostSilently
INVARIANT InOrder
PROPERTY SlowIsRemoved
PROPERTY WriterFollows
CHECK_DEADLOCK FALSE

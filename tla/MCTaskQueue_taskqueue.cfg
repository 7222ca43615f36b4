\* Two consumers started, stopped and crashing around one task and its trace.
SPECIFICATION FairSpec
CONSTANTS
    c1 = c1
    c2 = c2
    Consumers = {c1, c2}
    NoConsumer = NoConsumer
    NTask = 1
    MaxRetry = 1
    MaxSpans = 3
    CanCrash = TRUE
INVARIANTS SeenAsPublished CallTree StoppedIsDrained
PROPERTY NoTaskLost
CONSTRAINT Bound
CHECK_DEADLOCK FALSE

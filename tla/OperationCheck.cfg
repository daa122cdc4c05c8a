\* One polling loop that reaches its longest delay, two listeners and a user that
\* polls too.  An operation nobody waits for stops.
CONSTANTS
    u1 = u1  u2 = u2  g1 = g1
    Listeners = {u1, u2}
    Getters = {g1}
    InitialDelay = 1
    DelayMultiplier = 2
    MaxDelay = 2
    TotalTimeout = 2
    MaxMetadata = 2
    MaxLoops = 1
SPECIFICATION FairSpec
CHECK_DEADLOCK FALSE
INVARIANTS TypeOK LoopEventsInOrder EndingsAreTrue
PROPERTIES ListenersHear

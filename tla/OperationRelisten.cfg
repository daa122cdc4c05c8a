\* Two polling loops at once, started as listeners leave and return.  An
\* operation nobody waits for stops.
CONSTANTS
    u1 = u1  u2 = u2  g1 = g1
    Listeners = {u1, u2}
    Getters = {}
    InitialDelay = 1
    DelayMultiplier = 2
    MaxDelay = 1
    TotalTimeout = 2
    MaxMetadata = 1
    MaxLoops = 2
SPECIFICATION Spec
CHECK_DEADLOCK FALSE
INVARIANTS LatestLoopServesListeners
PROPERTIES NoPollWithoutListeners

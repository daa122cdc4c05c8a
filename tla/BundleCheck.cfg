\* Both limits and the count threshold, a delay, and a demultiplexed response.
\* A schedule that has answered every call stops.
CONSTANTS
    c1 = c1  c2 = c2  c3 = c3  large = large  other = other  big = big  loose = loose
    Calls = {c1, c2, c3, large, other, big, loose}
    BundleIds <- MCBundleIds
    Request <- MCRequest
    DiscriminatorFields <- MCFields
    NoBundle = NoBundle
    NoTask = NoTask
    BundleOf <- MCBundleOf
    Size <- MCSize
    Bytes <- MCBytes
    CountLimit = 6
    ByteLimit = 5
    CountThreshold = 5
    ByteThreshold = 0
    DelayThreshold = 1
    Demultiplex = TRUE
SYMMETRY MCSymmetry
SPECIFICATION Spec
CHECK_DEADLOCK FALSE
INVARIANTS TypeOK OnePlace OwnResponse WithinLimits TimerWhileWaiting InvocationsLead
           RequestSpeaksForAll
PROPERTIES NoOvertaking ImplementsBundledCalls

\* A count limit and a delay.  A schedule in which every promise is settled stops.
CONSTANTS
    c1 = c1  c2 = c2  c3 = c3  big = big  b1 = b1
    Calls = {c1, c2, c3, big}
    Unencodable = {c3}
    BundleIds = {b1}
    NoBundle = NoBundle
    NoTask = NoTask
    BundleOf <- MCBundleOf
    Size <- MCSize
    Bytes <- MCBytes
    CountLimit = 4
    ByteLimit = 0
    CountThreshold = 0
    ByteThreshold = 2
    DelayThreshold = 1
    Demultiplex = FALSE
SPECIFICATION PSpec
CHECK_DEADLOCK FALSE
PROPERTIES CancelledCallIsNotSent

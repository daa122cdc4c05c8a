\* All three readers.  A list that has been read stops.
CONSTANTS
    Modes = {"collect", "stream", "iterate"}
    Pages <- MCPages
    Null = 99
    MaxResults = {0, 1, 3}
    MaxAttemptsEmptyResponse = 1
    Consumers = {"n1", "n2"}
SPECIFICATION FairSpec
CHECK_DEADLOCK FALSE
INVARIANTS TypeOK PrefixOfList AsksForNextPage
PROPERTIES ReadersFinish

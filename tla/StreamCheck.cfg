\* Every kind of stream; a server stream is retried as its options say.  A stream
\* that is over stops.
CONSTANTS
    m1 = m1  m2 = m2
    Kinds = {"server", "client", "bidi", "rest"}
    Messages <- MCMessages
    Objects <- MCObjects
    RetryOptions <- MCRetryOptions
    Requests <- MCRequests
    SimpleTexts <- MCSimpleTexts
    Compounds <- MCCompounds
    VariableNames <- MCVariableNames
    NamesWithin <- MCNamesWithin
    NameTemplates <- MCNameTemplates
    NameValues <- MCNameValues
    HttpOptions <- MCHttpOptions
    HttpRules <- MCHttpRules
    NameField <- MCNameField
    RequiredFields <- MCRequiredFields
    OptionalFields <- MCOptionalFields
    Caseless = {"1"}
SPECIFICATION FairSpec
CHECK_DEADLOCK FALSE
INVARIANTS TypeOK DataInOrder RespondsOncePerAttempt
           CancelReachesFirstAttempt HttpDeterminesRequest NamesReadBack
PROPERTIES GrpcStreamsEnd

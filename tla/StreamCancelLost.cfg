\* A gRPC server stream and a REST stream, cancelled at any time.
CONSTANTS
    m1 = m1  m2 = m2
    Kinds = {"server", "rest"}
    Messages <- MCMessages
    Objects <- MCObjects
    RetryOptions <- MCRetryOptions
    Requests <- MCRequests
    SimpleTexts <- MCSimpleTexts
    Compounds <- MCCompounds
    VariableNames <- MCVariableNames
    NamesWithin <- MCNamesWithin
    NameTemplates <- MCNameTemplates
    NameValues <- MCNameValues
    HttpOptions <- MCHttpOptions
    HttpRules <- MCHttpRules
    NameField <- MCNameField
    RequiredFields <- MCRequiredFields
    OptionalFields <- MCOptionalFields
    Caseless = {"1"}
SPECIFICATION FairSpec
CHECK_DEADLOCK FALSE
INVARIANTS CancelReachesEveryAttempt

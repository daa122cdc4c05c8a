\* All copies of all classes.  A message is decoded once, and then nothing is left to do.
CONSTANTS
    Files = {"http", "locations", "operations", "iam_service", "compute_operations"}
    MaxFields = 2
SPECIFICATION Spec
CHECK_DEADLOCK FALSE
INVARIANTS CopiesAgree LastPartWins ObjectsKeepMessages

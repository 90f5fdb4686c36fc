SPECIFICATION FairSpec
CONSTANTS
    Secure = FALSE
    MaxAttempts = 2
PROPERTIES
    RefusedIsSignalled
CHECK_DEADLOCK FALSE

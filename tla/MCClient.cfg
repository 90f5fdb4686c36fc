SPECIFICATION FairSpec
CONSTANTS
    Secure = TRUE
    MaxAttempts = 2
INVARIANTS
    TypeOK
    EndIsSignalled
    AnsweredOnceAndFirst
PROPERTIES
    FirstAttemptIsAnswered
CHECK_DEADLOCK FALSE

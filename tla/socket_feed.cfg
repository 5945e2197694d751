\* Five attempts as in the code, three failures anywhere.
SPECIFICATION FairSpec
CONSTANTS
    Sockets = {s1, s2, s3, s4}
    NoSocket = NoSocket
    MaxReconnectAttempts = 5
    MaxFaults = 3
\* The service may crash, give up, or be connected with no failure left to come.
CHECK_DEADLOCK FALSE
INVARIANTS
    TypeOK
    NeverSilentlyDown
    EveryAttemptIsMade
PROPERTY
    ReconnectsOrGivesUp

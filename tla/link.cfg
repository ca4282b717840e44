\* Three sockets at a time, a buffer of two frames, two retries.
SPECIFICATION Spec
CONSTANTS
    Sockets = {s1, s2, s3}
    MaxBuffer = 2
    MaxRetries = 2
    MaxFrames = 4
INVARIANTS TypeOK InOrder
PROPERTIES StoppedStaysClosed UnreachableIsFatal
CHECK_DEADLOCK FALSE

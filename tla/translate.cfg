\* Two segments of up to two sentences, one of them rewritten once.
SPECIFICATION FairSpec
CONSTANTS
    Modes <- AllModes
    MaxConcurrent = 1
    MaxSentences = 2
    MaxTails = 1
    MaxSegments = 2
    MaxMessages = 2
    MaxTroubles = 1
INVARIANTS FinalsWin FinalFaithful PartialFaithful
PROPERTY FinalsComplete
CHECK_DEADLOCK FALSE

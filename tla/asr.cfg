\* Any provider, started twice, with one failure of its service.
SPECIFICATION FairSpec
CONSTANTS
    Providers <- AllProviders
    MaxBuffer = 1
    MinBuffer = 1
    MaxStarts = 2
    MaxResults = 2
    MaxFaults = 1
    MaxPreArm = 1
    MaxRetries = 1
    MaxAudio = 2
    MaxSnapshots = 2
INVARIANTS NoZombie StoppedIsQuiet PauseFollowed NoPhantomCaption AudioInOrder SecondaryPinned
PROPERTY FlushBounded
CHECK_DEADLOCK FALSE

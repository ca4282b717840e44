\* Amazon, whose start() lasts as long as its stream.
SPECIFICATION FairSpec
CONSTANTS
    Providers <- Amazon
    MaxBuffer = 1
    MinBuffer = 1
    MaxStarts = 1
    MaxResults = 1
    MaxFaults = 0
    MaxPreArm = 1
    MaxRetries = 1
    MaxAudio = 1
    MaxSnapshots = 1
PROPERTY PauseTakesHold
CHECK_DEADLOCK FALSE

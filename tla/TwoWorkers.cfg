SPECIFICATION FairSpec
CONSTANTS
    Jobs = {j1, j2}
    Workers = {w1, w2}
    NoJob = nojob
    Unhandled = {j2}
    MaxRetries = 1
    MaxFaults = 2
INVARIANTS TypeOK NothingLost OneCopy GivenUpAfterRetries
PROPERTIES AtLeastOnceDelivery

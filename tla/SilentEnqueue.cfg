SPECIFICATION Spec
CONSTANTS
    Jobs = {j1, j2}
    Workers = {w1}
    NoJob = nojob
    Unhandled = {}
    MaxRetries = 1
    MaxFaults = 1
PROPERTIES NotifiedWhenQueueingFails

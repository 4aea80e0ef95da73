\* Jobs retried after failures; a lock that expires hands a job to both slots.
SPECIFICATION Spec
CONSTANTS
    Slots = {w1, w2}
    Samples <- MCSamples
    Found = {1, 8}
    MaxFaults = 1
INVARIANTS
    TypeOK
    ResultHasIocs
    NoDuplicateIocs
    ViewHonest
    AggregateWithinMax
    SummaryOfStatic
PROPERTIES
    ContractSteps
SYMMETRY SlotSymmetry

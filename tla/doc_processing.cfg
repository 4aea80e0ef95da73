\* Two jobs that finish together.
SPECIFICATION Spec
CONSTANTS
    j1 = j1
    j2 = j2
    s1 = s1
    Jobs = {j1, j2}
    Submissions = {s1}
    SubOf <- MCSubOf
    Prio <- MCPrio
    NoJob = NoJob
    NoSub = NoSub
    Slots = {w1, w2}
    NoSlot = NoSlot
    Requests = {r1}
    Ticks = {t1}
    MaxAttempts = 2
    MaxStalled = 1
    Commands = {}
    FaultKinds = {}
    MaxFaults = 0
INVARIANTS
    ProcessingMeansActivity
SYMMETRY SlotSymmetry

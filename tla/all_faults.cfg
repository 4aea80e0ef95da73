\* One job recovered by operators who also retry its dead letter, one fault of any kind.
SPECIFICATION Spec
CONSTANTS
    j1 = j1
    j2 = j2
    s1 = s1
    Jobs = {j1}
    Submissions = {s1}
    SubOf <- MCSubOf
    Prio <- MCPrio
    NoJob = NoJob
    NoSub = NoSub
    Slots = {w1, w2}
    NoSlot = NoSlot
    Requests = {r1}
    Ticks = {t1}
    MaxAttempts = 2
    MaxStalled = 1
    Commands = {"dlq", "open"}
    FaultKinds = {"abort", "redis", "crash", "throw", "stall"}
    MaxFaults = 1
INVARIANTS
    TypeOK
    CompletedHasResult
    AckedHasResult
SYMMETRY SlotSymmetry

SPECIFICATION Spec
CONSTANTS
    c1 = c1
    c2 = c2
    b1 = b1
    b2 = b2
    Client = {c1, c2}
    Block = {b1, b2}
    Content <- Growing
    Setups <- SafetySetups
    MaxPermits = 2
    MaxQueue = 2
    NoNode = NoNode
    NoClient = NoClient
CHECK_DEADLOCK FALSE
INVARIANTS TypeOK NoPanic RequestsRespectQuota SuspendedCanResume

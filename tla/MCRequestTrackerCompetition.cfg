CONSTANTS
    a = a
    b = b
    c = c
    push = push
    inner = inner
    inner1 = inner1
    inner2 = inner2
    block = block
    NoNode = NoNode
    NoClient = NoClient
    Client <- CompetitionClient
    Key <- CompetitionKey
    Node <- CompetitionNode
    KeyOf <- CompetitionKeyOf
    Follow <- CompetitionFollow
    InitialNode <- CompetitionInitialNode
    BlockNode = {}
    Choker = {a, b, c}
    MaxPermits = 1
SPECIFICATION Spec
SYMMETRY CompetitionSymmetry
INVARIANTS TypeOK NoLostWakeup TimersMatchFlight
PROPERTIES FallsBackOnWaiters

CONSTANTS
    a = a
    b = b
    c = c
    push = push
    inner = inner
    inner1 = inner1
    inner2 = inner2
    block = block
    NoNode = NoNode
    NoClient = NoClient
    Client <- SharingClient
    Key <- CompetitionKey
    Node <- CompetitionNode
    KeyOf <- CompetitionKeyOf
    Follow <- CompetitionFollow
    InitialNode <- LiveInitialNode
    BlockNode = {}
    Choker = {a, b}
    MaxPermits = 1
SPECIFICATION FairSpec
PROPERTY ReadyIsSent

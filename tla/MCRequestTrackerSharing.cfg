CONSTANTS
    a = a
    b = b
    c = c
    push = push
    inner = inner
    inner1 = inner1
    inner2 = inner2
    block = block
    NoNode = NoNode
    NoClient = NoClient
    Client <- SharingClient
    Key <- SharingKey
    Node <- SharingNode
    KeyOf <- SharingKeyOf
    Follow <- SharingFollow
    InitialNode <- SharingInitialNode
    BlockNode = {block}
    Choker = {}
    MaxPermits = 1
SPECIFICATION Spec
SYMMETRY SharingSymmetry
INVARIANTS NoPanic TrackingConsistent PendingAccurate NoGarbage

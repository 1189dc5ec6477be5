CONSTANTS
    c1 = c1
    c2 = c2
    b1 = b1
    b2 = b2
    Client <- MCClient
    Block <- MCBlock
    MaxQueue = 2
SPECIFICATION Spec
SYMMETRY Symmetry
INVARIANTS TypeOK NoMissedRequest
PROPERTIES OfferNotLost LazyRequestsApprovedAndRequired

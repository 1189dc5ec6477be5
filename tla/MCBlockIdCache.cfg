SPECIFICATION FairSpec
CONSTANTS
    Reader = {r1, r2}
    Snap = {1, 2, 3}
    Block = {1}
    Older <- MCOlder
    Content <- MCContent
INVARIANTS TypeOK LoadingHasOwner NoLostWakeup CacheCoherent
PROPERTY LookupEnds

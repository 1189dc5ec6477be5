SPECIFICATION FairSpec
CONSTANTS
    Block = {b1, b2}
    NoBlock = NoBlock
INVARIANTS TypeOK KnownUnlessRaced
PROPERTY ReadIsMissed

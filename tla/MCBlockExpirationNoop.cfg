SPECIFICATION Spec
CONSTANTS
    Block = {b1}
    NoBlock = NoBlock
INVARIANT ExpiringIsNoop

SPECIFICATION FairSpec
CONSTANTS
    OtaTasks = {o1, o2}
    Blocks = {b1, b2, b3}
    NoBlock = NoBlock
INVARIANTS
    HeapBalanced
PROPERTIES
    UpdatesEnd

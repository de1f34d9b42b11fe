\* Up to four samples of one criterion and two cases of another.
CONSTANT
    MaxSamples = 4
SPECIFICATION Spec
INVARIANTS
    QuorumBlocks
    SacredBlocksWhenUniform
PROPERTIES
    VoteIsMonotone
    GateIsMonotone

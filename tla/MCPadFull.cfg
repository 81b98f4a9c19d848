CONSTANTS
    Workers = {w1}
    Length = 100
    k_t = 64
    MaxUpdates = 64
SPECIFICATION Spec
INVARIANT PayloadFits

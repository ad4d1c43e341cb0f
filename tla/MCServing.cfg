SPECIFICATION ServingSpec
CONSTANTS
    Workers = {w1, w2}
    Keys = {k1, k2}
    Readers = {r1}
    Writers = {x1}
    MaxSize = 1
    TTL = 2
    MaxVersion = 2
    BuildMax = 1
INVARIANTS ServingTypeOK StalenessBound StaleOnlyIfSpanned
PROPERTY Converges

SPECIFICATION ServingSpec
CONSTANTS
    Workers = {w1}
    Keys = {k1}
    Readers = {r1}
    Writers = {x1}
    MaxSize = 1
    TTL = 2
    MaxVersion = 2
    BuildMax = 1
INVARIANT ReadsReflectWrites

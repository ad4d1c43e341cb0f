SPECIFICATION Spec
CONSTANTS
    Keys = {k1, k2, k3, k4}
    Values = {v1, v2}
    None = None
    MaxSize = 3
    TTL = 2
SYMMETRY Symmetry
INVARIANTS LeastRecentlyUsed
PROPERTY ImplementsBoundedCache

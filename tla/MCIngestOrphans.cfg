SPECIFICATION IngestSpec
CONSTANTS
    root = root
    static = static
    CategoryIds = {root, static}
    Slugs = {root, static}
    ArtworkIds = {u1, u2}
    NULL = NULL
    Seeded <- MCSeeded
    TargetWidth <- MCTargetWidth
    Widths = {1, 2}
    Concurrency = 1
    AllowPurge = TRUE
    EnforceKind = TRUE
    Faults = {"put"}
INVARIANT NoOrphans

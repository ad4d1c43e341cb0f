SPECIFICATION IngestSpec
CONSTANTS
    root = root
    static = static
    CategoryIds = {root, static}
    Slugs = {root, static}
    ArtworkIds = {u1, u2}
    NULL = NULL
    Seeded <- MCSeeded
    TargetWidth <- MCTargetWidth
    Widths = {1, 2}
    Concurrency = 2
    AllowPurge = TRUE
    EnforceKind = TRUE
    Faults = {"put", "insert", "lost_commit", "delete", "crash", "erase"}
INVARIANTS IngestTypeOK PermitsConserved PublishedHasMedia GoneMeansGone RowsMatchBucket NeverUndercounted
PROPERTIES UploadIsAtomic EveryUploadAnswered

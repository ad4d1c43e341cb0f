SPECIFICATION BundleSpec
CONSTANTS
    CategoryIds = {c1, c2, c3}
    ArtworkIds = {a1, a2}
    Slugs = {s1, s2, s3}
    NULL = NULL
    Limit = 1
SYMMETRY Symmetry
CHECK_DEADLOCK FALSE
INVARIANTS TypeOK MediaOnSubcategories CountsExact NothingCutSilently

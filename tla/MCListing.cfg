SPECIFICATION ListingSpec
CONSTANTS
    Items = {i1, i2, i3, i4, i5}
    None = None
    Requested = 3
    PageSizeDefault = 1
    PageSizeMax = 2
    MaxChanges = 3
SYMMETRY Symmetry
INVARIANTS ListingTypeOK SkipsBounded RepeatsBounded WalkIsTheFeed

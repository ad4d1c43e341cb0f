SPECIFICATION MigrateSpec
CONSTANTS
    d1 = d1
    d2 = d2
    d3 = d3
    a = a
    b = b
    c = c
    Deploys = {d1, d2, d3}
    Contents = {a, b, c}
    Releases <- MCReleases
    NoDeploy = NoDeploy
    Faults = {"sql", "crash"}
INVARIANTS MigrateTypeOK AppliedOnceInOrder UpToDateMeansApplied
PROPERTY EveryRunEnds

SPECIFICATION Spec
CONSTANTS
    e1 = e1  e2 = e2
    Isolates = {i1, i2}
    Messages = {e1, e2}
    Keyed = {e1}
    Genre <- MCGenre
    Edges <- MCEdges
    MaxRows = 2
    NoJob = NoJob
SYMMETRY Symmetry
INVARIANTS MigrationsChained RecordedIsFilled ArchivedIsIndexed BundleComplete
PROPERTIES AppendsAreAtomic

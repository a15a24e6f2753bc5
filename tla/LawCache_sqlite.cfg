SPECIFICATION Spec
CONSTANTS
    Docs = {1, 2, 4}
    Edicts = {1, 2, 4}
    Keys = {"routing"}
    AnyKey = "routing"
    Key <- MCKey
    Effective <- MCEffective
    Precedence <- MCPrecedence
    Supersedes <- MCSupersedes
    NoLaw = NoLaw
    Ambiguous = Ambiguous
    Readers = {r1, r2}
    Worker = worker
    Handlers = {h1}
    SyncArchive = TRUE
    Ttl = 2
    MaxTime = 3
CHECK_DEADLOCK FALSE
SYMMETRY Symmetry
INVARIANTS TypeOK EdictAppliedAtOnce

SPECIFICATION Spec
CONSTANTS
    Docs = {2, 3}
    Edicts = {2}
    Keys = {"routing", "petition"}
    AnyKey = "routing"
    Key <- MCKey
    Effective <- MCEffective
    Precedence <- MCPrecedence
    Supersedes <- MCSupersedes
    NoLaw = NoLaw
    Ambiguous = Ambiguous
    Readers = {r1, r2}
    Worker = worker
    Handlers = {h1}
    SyncArchive = FALSE
    Ttl = 1
    MaxTime = 2
CHECK_DEADLOCK FALSE
SYMMETRY Symmetry
INVARIANT BoundedStaleness

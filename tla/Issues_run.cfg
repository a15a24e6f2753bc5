SPECIFICATION Spec
CONSTANTS
    d1 = d1  d2 = d2  x1 = x1  x2 = x2  r1 = r1  r2 = r2  r3 = r3
    Docs = {d1, d2}
    Rules = {x1, x2}
    Findings <- MCFindings
    Requests = {r1, r2, r3}
    Operations <- MCOperations
    MaxIssue = 3
    MaxJob = 1
    MaxChanges = 1
    MaxFaults = 1
    Backends <- MCBackends
    Selections <- MCSelections
    Inputs = {700, 3000}
    Windows = {0, 1000, 4300}
    Outputs = {8000}
    Asked = {0, 9000}
CHECK_DEADLOCK FALSE
INVARIANTS TypeOK MarkedIsComplete NoDuplicates BudgetFits ReadAsWritten

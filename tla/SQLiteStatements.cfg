SPECIFICATION Spec
CONSTANTS
    q1 = q1  q2 = q2
    r1 = r1  r2 = r2
    s1 = s1  s2 = s2  s3 = s3
    NoStatement = NoStatement
    Queries = {q1, q2}
    BulkQueries = {q2}
    ResultSets = {r1, r2}
    Statements = {s1, s2}
    Parameters <- MCParameters
    Rows <- MCRows
    Edits <- MCEdits
    MaxConnections = 1
SYMMETRY StatementSymmetry
CHECK_DEADLOCK FALSE
INVARIANTS
    OneOwner
    FieldsShowRow
    RunsWithGiven
    DatabaseOutlivesStatements

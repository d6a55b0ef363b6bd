\* A tool call that is no JSON ends in a 500.
SPECIFICATION Spec
CONSTANTS
    q1 = q1
    q2 = q2
    q3 = q3
    old = old
    new = new
    alias = alias
    Names <- SomeNames
    Sqls <- SomeStatements
    Uploader = Uploader
    None = None
    Questions <- TwoQuestions
    Tables <- OneTable
    FirstTables <- NoTables
    MaxUploads = 1
    HistoryTurns = 1
SYMMETRY Symmetry
INVARIANTS
    MalformedRecorded

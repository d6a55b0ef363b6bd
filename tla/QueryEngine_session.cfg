\* Two questions on a session with one table, while an upload brings another.
SPECIFICATION FairSpec
CONSTANTS
    q1 = q1
    q2 = q2
    q3 = q3
    old = old
    new = new
    alias = alias
    Names <- SomeNames
    Sqls <- SomeStatements
    Uploader = Uploader
    None = None
    Questions <- TwoQuestions
    Tables <- TwoTables
    FirstTables <- OldTable
    MaxUploads = 1
    HistoryTurns = 1
INVARIANTS
    ConnExclusive
    InterruptsOwn
    RecordedOnce
    OnlyKnownTables
    FollowUpsSeeAnswers
PROPERTIES
    LogRefined
    Answered

\* Two tabs of one browser: two page loads, two sessions, two questions, two files, one fault.
SPECIFICATION Spec
CONSTANTS
    t1 = t1
    t2 = t2
    i1 = i1
    i2 = i2
    q1 = q1
    q2 = q2
    f1 = f1
    f2 = f2
    None = None
    Tabs <- TwoTabs
    Ids <- TwoIds
    Questions <- TwoQuestions
    Files <- TwoFiles
    MaxFaults = 1
    MaxLoads = 2
SYMMETRY Symmetry
INVARIANTS
    NothingForgotten
    OnlyFailuresMoveOn
    ChatFollowsLog

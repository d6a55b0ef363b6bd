\* Two threads and two sessions; three checks each, the time of two refilled tokens.
SPECIFICATION Spec
CONSTANTS
    t1 = t1
    t2 = t2
    s1 = s1
    s2 = s2
    Threads <- TwoThreads
    Sessions <- TwoSessions
    Capacity = 2
    Cost = 2
    MaxTime = 4
    MaxChecks = 3
SYMMETRY Symmetry
INVARIANTS
    NeverInDebt
    GrantsArePaid
PROPERTIES
    RefusalJustified

\* Results of up to five rows and three columns, every intent, limits below, at and
\* above the maximum, and every way of naming the columns.
SPECIFICATION ViewSpec
CONSTANTS
    Matches <- MCMatches
    Limits <- MCLimits
    Names <- MCNames
    x = x
    a = a
    b = b
    XKey = x
    Zero = Zero
    Colours = 2
    MaxRows = 4
    BarMax = 3
    PieMax = 2
    None = None
INVARIANTS
    Readable
    DrawnAsGiven
    ToldApart
PROPERTY
    LimitTold

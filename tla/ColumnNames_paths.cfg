\* Every file of up to three columns, through both paths.
SPECIFICATION ColumnsSpec
CONSTANTS
    a = a
    upperA = upperA
    aBang = aBang
    b = b
    dot = dot
    Words <- SomeWords
    Lower <- LowerWords
    Csvs <- Files
    Cells <- SomeCells
    Header <- Headers
    Normalized <- CellNames
INVARIANTS
    NamesDistinct
    SameNames

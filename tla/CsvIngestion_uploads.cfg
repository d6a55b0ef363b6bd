\* Two uploads of up to two files of every kind, their names related, and a reader.
SPECIFICATION Spec
CONSTANTS
    u1 = u1
    u2 = u2
    r1 = r1
    data = data
    upper = upper
    lower = lower
    second = second
    None = None
    Uploads <- TwoUploads
    Readers <- OneReader
    Filenames <- ThreeFiles
    Words <- SomeWords
    Stem <- Stems
    Batches <- AllBatches
SYMMETRY Symmetry
INVARIANTS
    ListedExist
    EveryFileLoaded
    RejectedLeavesNothing
    SpoolsUnlinked
    OneTablePerFile
    ListingWhole
    ReportsOfSameFile
PROPERTIES
    OwnTablesOnly

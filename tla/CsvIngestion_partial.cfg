\* A load that fails after others have been made.
SPECIFICATION Spec
CONSTANTS
    u1 = u1
    u2 = u2
    r1 = r1
    data = data
    upper = upper
    lower = lower
    second = second
    None = None
    Uploads <- OneUpload
    Readers <- NoReaders
    Filenames <- ThreeFiles
    Words <- SomeWords
    Stem <- Stems
    Batches <- AllBatches
INVARIANTS
    AllOrNothing

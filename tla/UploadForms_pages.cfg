\* Three uploads of up to two files from three forms, the sheet opened twice.
SPECIFICATION Spec
CONSTANTS
    Files <- MCFiles
    Picks <- MCPicks
    f = f
    g = g
    MaxUploads = 3
    MaxOpens = 2
    None = None
INVARIANTS
    ListingFresh
    OneUploadsErrors
    LoadingShown
    Retryable

SPECIFICATION Spec
CONSTANTS
    d = d
    f = f
    Names <- MCNames
    Base <- MCBase
    Chunks = {"base", "new"}
    MaxBytes = 3
INVARIANTS
    TypeOK
    QuotaHolds
    CountedFilesReadable
    TreeShape
PROPERTIES
    WriteStores
    RefinesFileTree

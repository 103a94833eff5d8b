SPECIFICATION Spec
CONSTANTS
    d = d
    f = f
    Names <- MCNames
    Base <- MCBase
    Chunks = {"base", "new"}
    MaxBytes = 3
PROPERTY
    AppendExtends

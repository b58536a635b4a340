CONSTANTS
    ObjectSizes = {2}
    MaxOffset = 3
    Misbehaving = {FALSE}
    MaxBuffer = 2
    InterleavedSeeks = TRUE
SPECIFICATION Spec
INVARIANT BytesAreInPlace

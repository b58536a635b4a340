CONSTANTS
    ObjectSizes = {0, 2, 4}
    MaxOffset = 5
    Misbehaving = {TRUE, FALSE}
    MaxBuffer = 3
    InterleavedSeeks = FALSE
SPECIFICATION FairSpec
INVARIANTS
    TypeOK
    BytesAreInPlace
    EofIsTheEnd
    RangesAreSatisfiable
    DownloadIsWhole
PROPERTIES
    StartedReadEnds

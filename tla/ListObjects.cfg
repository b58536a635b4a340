CONSTANTS
    KeyOrder <- MCKeyOrder
    Sizes <- MCSizes
    Styles = {"aws", "ceph", "minio"}
    Faults = {"none", "no_token", "empty_token", "no_key", "no_size", "bad_size", "no_prefix", "html", "empty_root"}
    MaxPage = 2
    MaxChanges = 1
SPECIFICATION Spec
INVARIANTS
    ListingIsComplete
    ListingIsTrue
    LoopIsBounded

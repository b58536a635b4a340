CONSTANTS
    Names <- MCNames
    Alphabet = {97, 32, 37, 38, 61, 195}
    MaxValue = 3
    MaxParams = 2
SPECIFICATION Spec
INVARIANTS
    RequestIsReadAsAsked
    SignatureMatches

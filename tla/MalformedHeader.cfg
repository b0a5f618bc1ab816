SPECIFICATION Spec
CONSTANTS
    PREFIX <- MCPrefix
    Fields <- MCFields
    HASH_SIZE = 2
    MaxUsize = 63
    Digest <- MCDigest
    Decodes <- MCDecodes
    Scripts <- MCScripts
    MaxItems = 2
INVARIANTS
    RetriesAfterMalformed

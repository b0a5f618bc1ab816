SPECIFICATION Spec
CONSTANTS
    Paths <- MCPaths
    Definitions <- MCDefinitions
    MaxU16 = 2
    ListRequests <- MCListRequests
    InfoRequests <- MCInfoRequests
    MaxDefinitions = 3
INVARIANTS
    TypeOK
    RpvIdsAreUnique
    LastDefinitionWins
    ListIsComplete
    CountsAgreeWithList
    DetailsAgreeWithList
    LastResponseIsMarked

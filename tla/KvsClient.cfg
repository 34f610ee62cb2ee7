SPECIFICATION FairSpec
CONSTANTS
    server_number = 2
    MaxConn = 3
    MaxRequest = 2
    Dead = Dead
    Longest = 7
    BufferSize = 6
INVARIANTS TypeOK AnswerMatches ClientAssertions NoSocketLeaks CInv
PROPERTIES ReachesMaster

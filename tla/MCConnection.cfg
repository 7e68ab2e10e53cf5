CONSTANTS
    BodySizes = {0, 1}
    MaxMessages = 2
    Layouts <- RequestLayouts
    MaxRead = 2
    MaxBytes = 3
    Sizes = {2}
    MaxWrite = 2
SPECIFICATION FairSpec
CHECK_DEADLOCK FALSE
INVARIANTS
    TypeOK
    BytesStayOnTheirConnection
    WaitsForRequest
    ResponsesAreWhole
PROPERTIES
    RequestAnswered
    ImplementsWorker

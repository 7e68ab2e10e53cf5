CONSTANTS
    HdrSizes = {2}
    BodySizes = {0, 1}
    MaxMessages = 2
    MaxRead = 4
    MaxBytes = 5
    Layouts <- SmallLayouts
SPECIFICATION FairSpec
CHECK_DEADLOCK FALSE
PROPERTIES
    BufferedHeaderDelivered

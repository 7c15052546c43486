SPECIFICATION FairSpec
CONSTANTS
    HeadersMax = 2
    GetDataMax = 1
    BaseHeights = {2}
    MaxHeight = 2
    MayDrop = TRUE
PROPERTIES
    DownloadEnds
CHECK_DEADLOCK FALSE

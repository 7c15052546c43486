SPECIFICATION FairSpec
CONSTANTS
    HeadersMax = 4
    GetDataMax = 2
    BaseHeights = {0, 1, 2, 3, 4}
    MaxHeight = 5
    MayDrop = TRUE
CHECK_DEADLOCK FALSE
INVARIANT DownloadSound
PROPERTIES
    KeepsPromise
    MiningStarts
    AnnouncedIsFetched

CONSTANTS
    none = none
    host = host
    img1 = img1
    img2 = img2
    plain = plain
    NodeId <- MCNodeId
    IfaceId <- MCIfaceId
    LinkId <- MCLinkId
    NodeType = {host}
    Image = {img1, img2}
    Config = {plain}
    NoConfig = plain
    None = none
    Documents <- MCDocuments
    StrayNode <- MCStrayNode
    Submissions <- MCSubmissions
    MaxVersion = 2
    Client = {c1, c2}
    MaxFaults = 1
    MaxDisturbances = 1
    MaxRequests = 0
    MaxCrashes = 0
SPECIFICATION EngineSpec
INVARIANTS VersionNamesOneContent
INVARIANTS NoLostWakeup VersionsAreOrdered QuietMeansDone
PROPERTIES StatusNeverGoesBack
CHECK_DEADLOCK FALSE

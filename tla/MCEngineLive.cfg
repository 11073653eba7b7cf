CONSTANTS
    none = none
    host = host
    img1 = img1
    img2 = img2
    plain = plain
    NodeId <- MCNodeId
    IfaceId <- MCIfaceId
    LinkId <- MCLinkId
    NodeType = {host}
    Image = {img1, img2}
    Config = {plain}
    NoConfig = plain
    None = none
    Documents <- MCDocuments
    StrayNode <- MCStrayNode
    Submissions <- MCSubmissions
    MaxVersion = 2
    Client = {c1}
    MaxFaults = 1
    MaxDisturbances = 0
    MaxRequests = 1
    MaxCrashes = 1
SPECIFICATION FairEngineSpec
INVARIANTS EngineTypeOK AdoptedLabIsLeftAlone
PROPERTIES EveryEditIsAnswered EveryRequestStartsACycle
CHECK_DEADLOCK FALSE

CONSTANTS
    none = none
    host = host
    img1 = img1
    img2 = img2
    plain = plain
    tuned = tuned
    NodeId <- MCNodeId
    IfaceId <- MCIfaceId
    LinkId <- MCLinkId
    NodeType = {host}
    Image = {img1, img2}
    Config = {plain, tuned}
    NoConfig = plain
    None = none
    Documents <- MCDocuments
    StrayNode = {}
    MaxFaults = 2
    MaxDisturbances = 1
SPECIFICATION ReconcilerSpec
INVARIANTS CycleOnTrack FailuresStayIsolated FailuresAreExplained
INVARIANTS CleanCycleConverges StatusTellsTheOutcome
PROPERTIES NoNeedlessOutage VethsGoFirst ConfigComesLast

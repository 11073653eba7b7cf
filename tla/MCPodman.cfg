CONSTANTS
    none = none
    host = host
    switch = switch
    img1 = img1
    img2 = img2
    plain = plain
    ip1 = ip1
    ip2 = ip2
    NodeId <- MCNodeId
    IfaceId <- MCIfaceId
    LinkId <- MCLinkId
    NodeType = {host, switch}
    TypeSwitch = switch
    Image = {img1, img2}
    Config = {plain, ip1, ip2}
    NoConfig = plain
    None = none
    Desired <- MCDesired
    MaxFaults = 2
    MaxDisturbances = 2
SPECIFICATION PodmanCycleSpec
INVARIANTS PodmanCycleTypeOK SightedLinksAreWired SymlinksDoNotLeak
INVARIANTS CleanCycleBuildsTheLab RerunDisruptsNothing NewNodesAreAddressed
INVARIANTS RebuildRepairsEverything
PROPERTIES ImplementsContract

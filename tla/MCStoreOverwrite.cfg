CONSTANTS
    none = none
    host = host
    img = img
    plain = plain
    NodeId <- MCNodeId
    IfaceId <- MCIfaceId
    LinkId <- MCLinkId
    NodeType = {host}
    Image = {img}
    Config = {plain}
    NoConfig = plain
    None = none
    Client = {c1, c2}
    Submissions <- MCSubmissions
    MaxVersion = 3
SPECIFICATION StoreSpec
PROPERTY NoSilentOverwrite

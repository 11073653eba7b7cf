CONSTANTS
    none = none
    host = host
    img = img
    plain = plain
    NodeId <- MCNodeId
    IfaceId <- MCIfaceId
    LinkId <- MCLinkId
    NodeType = {host}
    Image = {img}
    Config = {plain}
    NoConfig = plain
    None = none
    Client = {f1, f2}
    Submissions = {}
    MaxVersion = 5
    Browser = {b1, b2}
    Catalog <- MCCatalog
    Running <- MCRunning
    MaxEdits = 2
    MaxAccidents = 1
SPECIFICATION EditorSpec
INVARIANTS EditorTypeOK CanvasSendsValidDocuments EveryNodeHasAPlace 
PROPERTIES EditsApplyToWhatIsStored PagesStayOnCourse
SYMMETRY MCSymmetry
CHECK_DEADLOCK FALSE

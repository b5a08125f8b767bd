SPECIFICATION CallSpec
CONSTANTS
    Kinds = {"logs", "container", "file", "blob"}
    Bodies <- MCBodies
    Fresh <- MCFresh
    Grown = 5
    Lines = 3
    MaxMessage = 2
    MaxMessages = 3
    MaxLine = 4
    MaxBody = 10
    MaxRaw = 6
    MaxContent = 4
    Documents <- MCDocuments
    Shapes <- MCShapes
    Shape <- MCShape
    Names <- MCNames
    Rank <- MCRank
    Height = 7
    MaxCuts = 6
    MaxEncap = 1
    MaxDepth = 1
    MaxNodes = 3
    MaxWidth = 2
    MaxText = 2
    MaxOutput = 40
    Asks = {"run", "refresh_node", "refresh_status", "clear"}
    Subjects <- MCSubjects
    First <- MCFirst
    Leaves <- MCLeaves
    Keywords <- MCKeywords
    MaxOthers = 2
    Tools = {"set_key", "delete_key", "enable", "disable", "disable_service", "create", "create_at_once", "certificate"}
    MaxStates = 4
INVARIANTS
    NewestLogsTold
    WholeUnlessTold
    ReductionsAreTold
    RunsToldAreOwn
    ConfirmedByHumans
    SecondReadsAreNewer
    DoneIsWritten
    ReadBackIsOfTheWrite
CHECK_DEADLOCK FALSE

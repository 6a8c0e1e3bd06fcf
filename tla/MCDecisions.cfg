SPECIFICATION DecisionsSpec
CONSTANTS
    Quantity <- MCQuantity
    Price <- MCPrice
    Status = {"RECEIVED", "MATCHED", "CLOSED"}
    Minute = 3
    Slack = 1
    Yards <- MCYards
    Tables <- MCTables
    Base = 800000
CHECK_DEADLOCK FALSE
INVARIANTS
    ApprovalBoundsExposure
    FirstFailureWins
    WindowsAreFree
    BlocksWhatIsTaken
    EngineIsTotal
    SlotsAreEarliest
    WinnerIsUndominated

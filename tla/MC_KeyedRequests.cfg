SPECIFICATION MCSpec
CONSTANTS
    Ids = {1, 2}
    Drafts = {"d1"}
    Handlers = {"h1", "h2"}
    Requests <- MCRequests
    None = None
    MaxCrashes = 1
    Calls = {"c1", "c2", "c3"}
    Asks <- MCAsks
    NoCall = NoCall
    Mails = {"m1", "m2"}
    Source = "inbox"
    Target = "archive"
    Elsewhere = "other"
    Abandoned = 1
    Prompt = {"c1", "c3"}
    MaxMoves = 2
INVARIANTS
    OneLiveSendPerDraft
    RepeatFindsItsRow
    UndoIsKept
    AppliedOnce
    PromptKeepsItsClaim
PROPERTIES
    StalledAlertsClear
    DueSendsLeave

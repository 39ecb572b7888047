SPECIFICATION MCSpec
CONSTANTS
    Ids = {1, 2}
    Drafts = {"d1"}
    Handlers = {"h1", "h2"}
    Requests <- MCApart
    None = None
    MaxCrashes = 0
    Calls = {"c1", "c2", "c3"}
    Asks <- MCAsks
    NoCall = NoCall
    Mails = {"m1", "m2"}
    Source = "inbox"
    Target = "archive"
    Elsewhere = "other"
    Abandoned = 1
    Prompt = {"c1", "c3"}
    MaxMoves = 2
PROPERTY
    PoisonStaysAlone

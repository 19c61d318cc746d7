SPECIFICATION Spec
CONSTANTS
    Calls = {c1}
    Names = {personal}
    MaxPeers = 1
    MaxTokens = 1
    MaxAsked = 1
    CanFail = FALSE
    Star = Star
    NotString = NotString
    None = None
PROPERTIES
    RevokedForGood

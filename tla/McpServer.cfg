SPECIFICATION Spec
CONSTANTS
    Calls = {c1}
    Names = {personal, business}
    MaxPeers = 2
    MaxTokens = 1
    MaxAsked = 2
    CanFail = TRUE
    Star = Star
    NotString = NotString
    None = None
INVARIANTS
    NeverBeyondGrant
    CrossPeerComplete
    RetiredStaysOut

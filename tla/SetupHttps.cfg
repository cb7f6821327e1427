CONSTANTS
    h1 = h1
    good = good
    Host = {h1}
    Token = {shipped, good, drawn}
    Long = {shipped, good, drawn}
    Placeholder = shipped
    Missing = Missing
    Empty = Empty
    Mode = {"app", "nginx"}
    Legacy <- MCLegacy
    Overrides <- MCOverrides
    Saved <- MCSaved
    NewToken = drawn
    MaxSecond = 2
    NoFile = NoFile
    Torn = Torn
    Created = Created
    Down = Down
SPECIFICATION Spec
PROPERTY HttpsAfterSetup

CONSTANTS
    Host = {h1}
    Token = {short, shipped, good}
    Long = {shipped, good}
    Placeholder = shipped
    Missing = Missing
    Empty = Empty
    CustomerFile <- MCCustomerFile
SPECIFICATION ServiceSpec
INVARIANTS TypeOK CheckedServes
PROPERTIES UpgradeKeepsMeaning UpgradeSettles

SPECIFICATION Spec
CONSTANTS
    HostNameLength = 15
    ServerLengths <- MCServerLengths
    Requests <- MCFewRequests
    MenuSettings = {TRUE}
INVARIANTS
    ThisServerCanBeChosen

SPECIFICATION Spec
CONSTANTS
    HostNameLength = 15
    ServerLengths <- MCLongerList
    Requests <- MCFewRequests
    MenuSettings = {TRUE}
INVARIANTS
    VendorOptionsAreWhole

SPECIFICATION AllSpec
CONSTANTS
    Kinds = {"location", "device", "user", "account", "subscription"}
    Values <- TwoValues
    Location = {1, 2, 3}
    User = {owner, guest}
    Owner = owner
    AccountType = "personal"
    Request = {r1, r2}
    PageSize = 1
    MaxRequests = 2
SYMMETRY Symmetry
INVARIANTS
    RequestsReachTheirHandler
    RequestsAreAccepted
    RequestsAreTold
    KeepsTheRest
    ViewsAgree
    RootsCover
    AccessIsFound
    RolesEndWithLocation
CHECK_DEADLOCK FALSE

SPECIFICATION FairSpec
CONSTANTS
    b1 = b1
    e1 = e1
    v1 = v1
    v2 = v2
    None = None
    NoEUID = NoEUID
    MaxRequests = 2
    Beacons = {b1}
    EUIDs = {e1}
    Posts <- MCPosts
    OnlineCounts = {1, 2}
    Windows = {1}
    StartTime = 3
    Budgets <- MCBudgets
INVARIANTS AdvertsAccounted RowsTellTheirPost HeartbeatsAgree
PROPERTIES KeptForWindow ExpiredGone

SPECIFICATION CoreSpec
CONSTANTS
    b1 = b1
    b2 = b2
    a1 = a1
    a2 = a2
    a3 = a3
    n1 = n1
    n2 = n2
    office = office
    den = den
    Beacons = {b1}
    APs = {a1, a2, a3}
    Names = {n1}
    Labels = {office, den}
    RSSIs <- CoreRSSIs
    AlphaUnit = 2
    Topologies <- CoreTopologies
    TunableDocs <- CoreDocs
    None = None
    NoEvent = NoEvent
    MaxTime = 3
    MaxLead = 2
INVARIANTS BackingCoherent TickClearsStale OffFadedAP
PROPERTIES ArrivalImmediate ArrivalGrounded MovesConfirmed

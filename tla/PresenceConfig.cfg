SPECIFICATION Spec
CONSTANTS
    b1 = b1
    b2 = b2
    a1 = a1
    a2 = a2
    a3 = a3
    n1 = n1
    n2 = n2
    office = office
    den = den
    Beacons = {b1, b2}
    APs = {a1, a2}
    Names = {n1, n2}
    Labels = {office, den}
    RSSIs <- ConfigRSSIs
    AlphaUnit = 2
    Topologies <- ConfigTopologies
    TunableDocs <- ConfigDocs
    None = None
    NoEvent = NoEvent
    MaxTime = 2
INVARIANTS TypeOK ConfigCoherent EmittedIsCurrent
PROPERTIES StickyHold ContractHolds

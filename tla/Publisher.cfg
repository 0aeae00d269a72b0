SPECIFICATION FairSpec
CONSTANTS
    b1 = b1
    b2 = b2
    volt = volt
    q1 = q1
    q2 = q2
    None = None
    Beacons = {b1, b2}
    Sensors = {volt}
    Requests = {q1, q2}
    EventsCap = 2
    QueueCap = 2
    MaxInputs = 2
INVARIANTS TypeOK SeenIsAsserted OrphansVisible 
PROPERTIES NoRegress StateConverges

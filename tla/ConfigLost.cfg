SPECIFICATION FairSpec
CONSTANTS
    b1 = b1
    b2 = b2
    volt = volt
    q1 = q1
    q2 = q2
    None = None
    Beacons = {b1}
    Sensors = {volt}
    Requests = {}
    EventsCap = 1
    QueueCap = 1
    MaxInputs = 1
PROPERTY ConfigConverges

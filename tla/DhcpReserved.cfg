SPECIFICATION Spec
CONSTANTS
    Macs = {a, b, c}
    Router = 2
    PoolStart = 3
    PoolEnd = 4
    LeaseTime = 2
    MaxStations = 2
    Slots = 1
    Reservable <- SetReservable
    MaxEdits = 2
PROPERTIES
    ReservedNeverToOthers

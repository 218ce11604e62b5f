SPECIFICATION FairSpec
CONSTANTS
    Capacity = 4
    Laps = 2
    MaxOffers = 9
INVARIANTS
    TypeOK
    NoDataRace
    ApproxSizeInRange
PROPERTIES
    ImplementsQueue
    AcceptedIsDelivered

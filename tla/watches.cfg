SPECIFICATION FairSpec
CONSTANTS
    w1 = w1  w2 = w2
    a = a  b = b
    Watch = {w1, w2}
    Port = {a, b}
    port <- PortsOf
    Listing <- Listings
    MaxTurns = 2
    Trouble <- AllTroubles
CHECK_DEADLOCK FALSE
INVARIANTS
    TypeOK
    AnnouncedFirst
    ReportSound
    GivesUpLate
PROPERTIES
    WatchEnds

SPECIFICATION Spec
CONSTANTS
    Aps <- MCAps
    Bssid <- MCBssid
    Ssid <- MCSsid
    KnownSsids <- MCKnown
    AnySsid = AnySsid
    Wildcard = FALSE
    MaxCount = 2
    MaxCounts = {1}
    Expire = 2
    Slots = 2
    Addr = {p1, p2, p3, p4}
    NULL = NULL
INVARIANTS TypeOK UniqueEntries PointersLive ResultsAreSeen
PROPERTIES AttemptAsRequested TableBounded
SYMMETRY MCSymmetry
CHECK_DEADLOCK FALSE

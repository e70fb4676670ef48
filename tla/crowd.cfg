\* Trips in both directions with a reader and one stop; and one trip next to every other request.
SPECIFICATION SumSpec
CONSTANTS
    Stations = {1, 2}
    Trips <- BothWaysAndAgain
    Readings <- NoReading
    Counts = {}
    Writers = {w1, w2}
    Readers = {r1}
    Requests = {"check_in", "check_out"}
    TickOrder <- ById
    MixedRequests = {"check_in", "check_out", "log", "feed", "tick"}
    MixedCounts = {0}
    Nobody = Nobody
    NoTrip = NoTrip
    LastTime = 1
    MaxStops = 1
    p = p
    q = q
INVARIANTS
    Conserved
    NoCircleOfWaits
PROPERTIES
    ReadsCatchUp
    MixedDeltasAreExact
    MixedCheckInsGetCounted
CHECK_DEADLOCK FALSE

SPECIFICATION FairSpec
CONSTANTS
    c1 = c1
    c2 = c2
    Clients = {c1, c2}
    MaxLines <- Typed
    AcceptFails = TRUE
CHECK_DEADLOCK FALSE
INVARIANTS OneLessOnce LinesInOrder
PROPERTIES RoomSpec MembersHearAll GoneAreRemoved

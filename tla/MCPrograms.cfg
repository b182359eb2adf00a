SPECIFICATION MCSpec
CONSTANTS
    c1 = c1
    c2 = c2
    c3 = c3
    Clients = {c1, c2, c3}
    RequestLength = 3
    ResponseLength = 3
    WantedLength = 2
    Window = 2
    MaxReplies = 2
    MaxBytes = 4
CHECK_DEADLOCK FALSE
INVARIANTS BytesInOrder EndMeansWhole AnswersAreNotMixedUp CancelIsExact PrintedAsRead
PROPERTIES FailuresAreContained StopReturnsOnConnection EveryCallReturns
           ExchangeEnds WaitsOnlyForLost EndsIfCancelled

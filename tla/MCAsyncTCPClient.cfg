SPECIFICATION FairSpec
CONSTANTS
    r1 = r1
    r2 = r2
    t1 = t1
    t2 = t2
    Requests = {r1, r2}
    Ids = {1, 2}
    IoThreads = {t1, t2}
    UI = ui
    NoThread = nothread
    NoRequest = norequest
    MaxCancels = 2
    MaxPartials = 1
CHECK_DEADLOCK FALSE
INVARIANTS CancelHonoured CloseWaits CancelledIsNotWaiting CircleNeedsSecondCancel CancellableUnlessReused
PROPERTIES NoStartAfterCancel EveryRequestReported

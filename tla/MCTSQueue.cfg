SPECIFICATION FairSpec
CONSTANTS
    p1 = p1
    p2 = p2
    Producers = {p1, p2}
    Consumer = consumer
    NoThread = nothread
    MaxPushes = 3
    NMaxMessages = 2
    BWait = {TRUE, FALSE}
INVARIANTS PopHasMessage NoCircularWait
PROPERTIES FifoSpec PushWakesConsumer HandledOrAsleep

SPECIFICATION FairSpec
CONSTANTS
    p1 = p1
    p2 = p2
    Producers = {p1, p2}
    Consumer = consumer
    NoThread = nothread
    MaxPushes = 2
    NMaxMessages = 9
    BWait = {TRUE}
PROPERTIES EveryMessageHandled

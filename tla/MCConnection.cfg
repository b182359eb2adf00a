SPECIFICATION FairSpec
CONSTANTS
    Client = client
    Server = server
    Ids <- MessageIds
    Bytes <- Times
    Fresh <- PingAll
    Bounced <- Pings
    MaxClientSends = 2
    MaxServerSends = 0
    MayClose = TRUE
    MaxSize = 2
CHECK_DEADLOCK FALSE
INVARIANTS ChainsGoOn ReadAsSent
PROPERTIES ChannelSpec CloseSpreads EverySentArrives

SPECIFICATION UDPSpec
CONSTANT MaxReplies = 2
CHECK_DEADLOCK FALSE
INVARIANT TalksToSeveralServers

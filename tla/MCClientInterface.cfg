SPECIFICATION FairSpec
CONSTANTS
    MaxConnects = 2
    MaxSends = 3
    MaxQueued = 2
    SizeModulus = 65536
    HeaderModulus = 256
CHECK_DEADLOCK FALSE
INVARIANTS PopsWhatWasPushed
PROPERTY CallsEnd

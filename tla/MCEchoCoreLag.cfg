\* One publish over one connection, with a bus a single sample overruns:
\* does the HLS writer keep reading for as long as the session lives?
CONSTANTS
    s1 = s1
    s2 = s2
    Sessions <- MCSessions
    MaxConn <- MCMaxConnOne
    MaxPackets <- MCMaxPackets
    MaxFill <- MCMaxFill
    DrainIters <- MCDrainIters
    BusCap <- MCBusCapSmall

SPECIFICATION Spec

INVARIANT
    WriterOutlivesIngest

CHECK_DEADLOCK FALSE

\* One publish over one connection, with a bus a single sample overruns:
\* every way a session can end, including the writer giving up on a lag.
CONSTANTS
    s1 = s1
    s2 = s2
    Sessions <- MCSessions
    MaxConn <- MCMaxConnOne
    MaxPackets <- MCMaxPackets
    MaxFill <- MCMaxFill
    DrainIters <- MCDrainIters
    BusCap <- MCBusCapSmall

SPECIFICATION Spec

PROPERTIES
    EverySessionWindsDown

\* Once every session has wound down the server's tasks wait for the next
\* publish: the model has no more steps to take.
CHECK_DEADLOCK FALSE

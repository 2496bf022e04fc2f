\* One publish, two connections, a bus that cannot be overrun.
CONSTANTS
    s1 = s1
    s2 = s2
    Sessions <- MCSessions
    MaxConn <- MCMaxConn
    MaxPackets <- MCMaxPackets
    MaxFill <- MCMaxFillNone
    DrainIters <- MCDrainIters
    BusCap <- MCBusCapLarge

SPECIFICATION Spec

INVARIANTS
    TypeOK
    ReceiverCountAccurate
    ManagerHistoryOrdered

PROPERTY
    ReportsFollowLifecycle

\* Once every session has wound down the server's tasks wait for the next
\* publish: the model has no more steps to take.
CHECK_DEADLOCK FALSE

CONSTANTS
    Writers <- MCWriters
    TargetMs <- MCTargetMs
    MaxSegs <- MCMaxSegs
    Quantum <- MCQuantum
    MaxTime <- MCMaxTime
INIT Init
NEXT Next
INVARIANT DirectoryOutlivesPublish
CHECK_DEADLOCK FALSE

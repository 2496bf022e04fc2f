\* Three publishes, two ports, one control message per session.
CONSTANTS
    i1 = i1
    i2 = i2
    i3 = i3
    Ids <- MCIds
    Ports <- MCPorts
    MaxMsgs <- MCMaxMsgs
    MaxQueued <- MCMaxQueued

SPECIFICATION Spec

INVARIANTS
    TypeOK
    PortOwnership

PROPERTY
    PortsComeBack
    AnswersFollowLifecycle

\* Once every request is answered and every session has ended, the service
\* waits for the next request.
CHECK_DEADLOCK FALSE

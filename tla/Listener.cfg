SPECIFICATION FairSpec
CONSTANT MaxClients = 5
INVARIANTS
    ListenerInv
PROPERTIES
    ImplementsChannel
    Recovers
CHECK_DEADLOCK FALSE

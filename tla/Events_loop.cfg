SPECIFICATION Spec
CONSTANTS
    Configs <- SomeConfigs
    IoBufferSize = 2
    QueueLimit = 1
    CounterMax = 2
    MaxChanges = 2
    MaxSignals = 1
    MaxFaults = 1
INVARIANTS
    EventsInOrder
    NothingUnnoticed
PROPERTIES
    EventsAreHandled

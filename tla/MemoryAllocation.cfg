SPECIFICATION Spec
CONSTANTS
    Allocators = {a1}
    Clients = {c1, c2}
    MaxCount = 1
    MaxPointers = 1
    MaxOutside = 3
    MaxEvents = 2
INVARIANT MemorySound
INVARIANT QueuesBounded
INVARIANT CallbackAlive
PROPERTY ThreadResponds
CHECK_DEADLOCK FALSE

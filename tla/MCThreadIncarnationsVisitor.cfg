\* A client that waits for nothing, beside one that creates the thread again.
SPECIFICATION Spec
CONSTANTS
    c1 = c1
    c2 = c2
    Clients <- MCClients
    MaxLog = 3
    MaxRestarts = 0
    MaxInterrupts = 0
PROPERTIES
    NewIncarnationUndisturbed
CHECK_DEADLOCK FALSE

\* Three requests, two of which may still arrive during a shutdown.
CONSTANTS
    r1 = r1
    r2 = r2
    r3 = r3
    Requests = {r1, r2, r3}
    KeptAlive = {r1, r2}
    Handlers = 2
    Timeout = 2
SPECIFICATION Spec
INVARIANTS
    DrainedOrTimedOut
PROPERTIES
    SignalledExits
\* The process exits.
CHECK_DEADLOCK FALSE

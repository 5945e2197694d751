\* A disconnect while findOne is awaited.
SPECIFICATION Spec
CONSTANTS
    Clients = {c1}
    Devices = {d1}
    Aliases = {}
    Spells <- Spelling
    Ids <- Numbers
    Calls = {k1}
    MaxMessages = 1
    Reports <- ReportsOfSome
    NoClient = NoClient
    NoDevice = NoDevice
\* Traccar sends MaxMessages messages and every client may have gone: the end is not a deadlock.
CHECK_DEADLOCK FALSE
INVARIANT
    DisconnectCleansUp

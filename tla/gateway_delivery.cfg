\* Two messages, each with a position of both devices, are broadcast while a
\* client joins and leaves the Sets and another stays: under fairness
\* every position owed is delivered.
SPECIFICATION SteadySpec
CONSTANTS
    Clients = {c1, c2}
    Devices = {d1, d2}
    Aliases = {}
    Spells <- Spelling
    Ids <- Numbers
    Calls = {k1}
    MaxMessages = 2
    Reports <- ReportOfEach
    NoClient = NoClient
    NoDevice = NoDevice
\* Traccar sends MaxMessages messages and every call may have ended: the end is not a deadlock.
CHECK_DEADLOCK FALSE
INVARIANT
    NobodySkipped
PROPERTY
    OwedIsDelivered

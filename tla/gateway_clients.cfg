\* Two clients of one device, which send its number, the same as a string, or an
\* alias; a message with all three arrays.
SPECIFICATION ClientsSpec
CONSTANTS
    Clients = {c1, c2}
    Devices = {d1}
    Aliases = {a1}
    Spells <- Spelling
    Ids <- EveryForm
    Calls = {k1, k2}
    MaxMessages = 1
    Reports <- ReportOfAll
    NoClient = NoClient
    NoDevice = NoDevice
SYMMETRY ClientSymmetry
\* Traccar sends MaxMessages messages and every client may have gone: the end is not a deadlock.
CHECK_DEADLOCK FALSE
INVARIANTS
    TypeOK
    FilterMatchesMap
    ConfirmationsAreTrue
    NobodySkipped
    OnlyAfterAnswer
PROPERTY
    ImplementsLiveFeed

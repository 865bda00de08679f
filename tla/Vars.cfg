SPECIFICATION Spec
CONSTANTS
    Saved <- MCSaved
    Volatile = {battery}
    Kind <- MCKind
    ReadOnly = {battery}
    Default <- MCDefault
    Texts = {0, 1, 6}
    Garbled = {6}
    Modulus = 4
    Unknown = unknown
    None = None
    auto_connect = auto_connect
    auth = auth
    chanmask = chanmask
    datarate = datarate
    battery = battery
INVARIANTS TypeOK ConfirmedIsKept
PROPERTIES ConfirmedComesBack ImplementsStore

SPECIFICATION Spec
CONSTANTS
    Junk = Junk
    APs = {a1, a2}
    PacketSize = 21
    MaxResults = 3
    Charges = {0, 3}
    MaxScans = 3
INVARIANTS EveryScanCountsOnce PacketCarriesTheScan
\* The scans are bounded.
CHECK_DEADLOCK FALSE

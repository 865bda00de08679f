SPECIFICATION FairSpec
CONSTANTS
    Ports = {0, 60, 70, 111}
    Payloads <- MCPayloads
    Junk = {0, 255}
    Receives = 2
INVARIANT PrintsThisUplink
PROPERTIES PrintsEveryUplink MainReturns
\* main returns.
CHECK_DEADLOCK FALSE

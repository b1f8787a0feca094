\* Writes on their way to Firestore: three writes, a pipeline of two, and two
\* troubles: changes of user or token, lost streams, networks or processes.
CONSTANTS
    anna = anna
    ben = ben
    None = None
    Users <- BothUsers
    MaxPending = 2
    MaxWrites = 3
    MaxSwitches = 2
    MaxFaults = 2
    MaxTroubles = 2
SPECIFICATION AnnaFirstSpec
INVARIANTS
    StreamInv
    TakenFromItsAuthor
    AcknowledgedIsRead
PROPERTIES
    LogSpec
    ComesToRest
    Settles
\* When every write is settled and the bounds are used up, nothing is left to do.
CHECK_DEADLOCK FALSE

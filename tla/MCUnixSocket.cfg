\* The bound on files may be reached: the system may stop.
CHECK_DEADLOCK FALSE
SPECIFICATION SocketSpec
CONSTANTS
    Procs = {p1, p2}
    MaxFiles = 4
    NoProc = NoProc
    Meddling <- BetweenCalls
SYMMETRY Symmetry
INVARIANTS SocketTypeOK StopsClean
PROPERTIES LiveSocketStays RemovesOnlyItsOwnOrStale NoRefusalWithoutCause

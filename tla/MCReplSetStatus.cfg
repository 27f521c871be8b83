CONSTANTS
    Names <- MCNames
    Healths <- MCHealths
    Optimes <- MCOptimes
    States <- MCStates
    MaxMembers = 3
    Absent = Absent

SPECIFICATION Spec

\* The handler is one call: every behaviour ends once it has returned.
CHECK_DEADLOCK FALSE

INVARIANT TypeOK
INVARIANT EnrichmentMatchesReference

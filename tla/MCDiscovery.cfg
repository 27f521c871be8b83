\* Each discovery handler answers once and stops.
CONSTANTS
    DbNames <- MCDbNames
    ColNames <- MCColNames
    ShardIds <- MCShardIds
    ShardStates <- MCShardStates
    HostStrings <- MCHostStrings
    ShardHosts <- MCShardHosts
    NoConfig = NoConfig
SPECIFICATION Spec
CHECK_DEADLOCK FALSE
INVARIANT TypeOK
INVARIANT ListingMatchesReference
INVARIANT HostListsParsed

\* Any sequence of fixture writes and mock calls over the tests' names.
\* Every call of the mock is always possible, so no state is final.
CONSTANTS
    DbNames <- MCDbNames
    CollNames <- MCCollNames
    QueryKeys <- MCQueryKeys
    FindOptions <- MCFindOptions
    MustFail = "mustFail"
SPECIFICATION MSpec
INVARIANT MTypeOK
INVARIANT ListingsFollowMap

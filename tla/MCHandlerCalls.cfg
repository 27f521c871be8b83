\* One OplogStatsHandler call and one call of any other handler, every
\* oplog content of up to three entries over four timestamps, up to two
\* server writes during the oplog call, and every outcome of each round trip.
\* Both calls end once they have answered, so a final state is no deadlock.
SPECIFICATION Spec
CHECK_DEADLOCK FALSE
INVARIANT OTypeOK
INVARIANT OTimeDiffWithinWindow
INVARIANT ErrorsFollowTaxonomy

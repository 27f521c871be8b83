----------------------------- MODULE MCMockConn -----------------------------
(* The mock with the names the tests use: the local database,           *)
(* the oplog.rs collection and the oplog query, and "mustFail" as both a  *)
(* database and a collection name.  The two options are the ascending and *)
(* descending sorts of getTS, which share one query key.                  *)
EXTENDS MockConn

MCDbNames == {"local", "mustFail"}
MCCollNames == {"oplog.rs", "mustFail"}
MCQueryKeys == {"ts-exists"}
MCFindOptions == {"sort-asc", "sort-desc"}

=============================================================================

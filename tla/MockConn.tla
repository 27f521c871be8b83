------------------------------- MODULE MockConn -------------------------------
(***************************************************************************)
(* The test double of the Session interface (plugin/handlers/mockconn.go). *)
(* MockConn keeps a map of databases, each a map of collections, each a    *)
(* map of queries keyed by fmt.Sprintf("%v", query); every lookup creates  *)
(* the entry it does not find.  The unit tests build their fixtures        *)
(* through the same lookups (s.DB(db).C(c)) or as map literals, and then   *)
(* install a RunFunc on a database or a DataFunc on a query; the handler  *)
(* under test later reaches those objects by the same keys.                *)
(*                                                                         *)
(* A RunFunc or DataFunc is abstracted to what it answers.  Find and      *)
(* FindOne take options, which the query key ignores.  Go map iteration   *)
(* order is unspecified, so a listing loop visits the map in any order.    *)
(***************************************************************************)
EXTENDS Naturals, Sequences, SequencesExt

CONSTANTS
    DbNames,      \* database names tests use, MustFail among them
    CollNames,    \* collection names tests use, MustFail among them
    QueryKeys,    \* fmt.Sprintf("%v", query) of the queries handlers send
    FindOptions,  \* the options Find and FindOne are given
    MustFail      \* the name "mustFail" (mockconn.go line 28)

ASSUME MustFail \in DbNames /\ MustFail \in CollNames

Tuples == DbNames \X CollNames \X QueryKeys

(* What a DataFunc installed by a test returns: a document, an error, or  *)
(* mongo.ErrNoDocuments (the oplog tests' empty collection).               *)
DataFuncs == {"doc", "fail", "noDocs"}

Ops == {"none", "DB", "DatabaseNames", "Ping", "C", "CollectionNames",
        "Run", "Find", "FindOne", "Count", "Get", "GetSingle"}
Errs == {"none", "CannotFetchData", "fail", "errNotFound", "ErrNoDocuments"}
NoDb == "-"   \* the db field of an answer that is not about a database

VARIABLES
    dbs,      \* keys of conn.dbs
    runFunc,  \* database -> "nil", "default" or "custom" (RunFunc)
    colls,    \* <<db, coll>> pairs present in the databases' collections maps
    queries,  \* <<db, coll, key>> -> "absent", "nil" (no DataFunc) or a DataFunc
    out       \* what the last call returned

mVars == <<dbs, runFunc, colls, queries, out>>

MTypeOK ==
    /\ dbs \subseteq DbNames
    /\ runFunc \in [DbNames -> {"nil", "default", "custom"}]
    /\ colls \subseteq DbNames \X CollNames
    /\ queries \in [Tuples -> {"absent", "nil"} \cup DataFuncs]
    /\ out \in [op : Ops, db : DbNames \cup {NoDb}, err : Errs,
                names : Seq(DbNames \cup CollNames)]

Returned(op, n, err, names) ==
    out' = [op |-> op, db |-> n, err |-> err, names |-> names]

(* NewMockConn: an empty map of databases.                                 *)
MInit ==
    /\ dbs = {}
    /\ runFunc = [n \in DbNames |-> "nil"]
    /\ colls = {}
    /\ queries = [t \in Tuples |-> "absent"]
    /\ out = [op |-> "none", db |-> NoDb, err |-> "none", names |-> <<>>]

(* One visit of a map in the given order, returning on the first entry     *)
(* named mustFail: the loops of DatabaseNames and CollectionNames.        *)
RECURSIVE ListNamesBreak(_, _, _, _)
ListNamesBreak(order, i, acc, e) ==
    IF i > Len(order) THEN [names |-> acc, err |-> "none"]
    ELSE IF order[i] = MustFail THEN [names |-> acc, err |-> "none"]
    ELSE ListNamesBreak(order, i + 1, Append(acc, order[i]), e)

RECURSIVE ListNames(_, _, _, _)
ListNames(order, i, acc, e) ==
    IF i > Len(order) THEN [names |-> acc, err |-> "none"]
    ELSE IF order[i] = MustFail THEN [names |-> <<>>, err |-> e]
    ELSE ListNames(order, i + 1, Append(acc, order[i]), e)

(* A listing of a map with keys K, visited in some order.                  *)
Listing(op, n, K, e) ==
    \E order \in SetToSeqs(K) :
        LET r == ListNames(order, 1, <<>>, e)
        IN Returned(op, n, r.err, r.names)

(* DB: the stored database, or a new one with no collections and no        *)
(* RunFunc.                                                                *)
DB(n) ==
    /\ \/ n \in dbs /\ UNCHANGED <<dbs, runFunc, colls, queries>>
       \/ n \notin dbs /\ dbs' = dbs \cup {n} /\ UNCHANGED <<runFunc, colls, queries>>
    /\ Returned("DB", n, "none", <<>>)

(* DatabaseNames: ErrorCannotFetchData as soon as the loop meets mustFail. *)
DatabaseNames ==
    /\ Listing("DatabaseNames", NoDb, dbs, "CannotFetchData")
    /\ UNCHANGED <<dbs, runFunc, colls, queries>>

Ping ==
    /\ Returned("Ping", NoDb, "none", <<>>)
    /\ UNCHANGED <<dbs, runFunc, colls, queries>>

(* C: the stored collection of database n, or a new one with no queries.   *)
C(n, c) ==
    /\ n \in dbs
    /\ colls' = colls \cup {<<n, c>>}
    /\ Returned("C", n, "none", <<>>)
    /\ UNCHANGED <<dbs, runFunc, queries>>

(* CollectionNames: errors.New("fail") as soon as the loop meets mustFail. *)
CollectionNames(n) ==
    /\ n \in dbs
    /\ Listing("CollectionNames", n, {p[2] : p \in {q \in colls : q[1] = n}}, "fail")
    /\ UNCHANGED <<dbs, runFunc, colls, queries>>

(* Run: installs the default RunFunc (an error for the database named     *)
(* mustFail, {"ok": 1} otherwise) when the test set none, then calls it.   *)
(* Every handler passes a result, so the nil-result return is not taken.  *)
Run(n) ==
    /\ n \in dbs
    /\ LET rf == IF runFunc[n] = "nil" THEN "default" ELSE runFunc[n]
       IN /\ runFunc' = [runFunc EXCEPT ![n] = rf]
          /\ \/ rf = "default" /\ Returned("Run", n, IF n = MustFail THEN "fail" ELSE "none", <<>>)
             \/ rf = "custom" /\ \E e \in {"none", "fail"} : Returned("Run", n, e, <<>>)
    /\ UNCHANGED <<dbs, colls, queries>>

(* Find and FindOne: the query stored under fmt.Sprintf("%v", query), or  *)
(* a new one with no DataFunc.  The options do not take part in the key.  *)
QueryLookup(op, n, c, q, o) ==
    /\ <<n, c>> \in colls
    /\ o \in FindOptions
    /\ queries' = [queries EXCEPT ![<<n, c, q>>] = IF @ = "absent" THEN "nil" ELSE @]
    /\ Returned(op, n, "none", <<>>)
    /\ UNCHANGED <<dbs, runFunc, colls>>

Find(n, c, q, o) == QueryLookup("Find", n, c, q, o)
FindOne(n, c, q, o) == QueryLookup("FindOne", n, c, q, o)

(* retrieve: errNotFound when no DataFunc is set, else what it returns.   *)
RetrieveRaw(df) == IF df = "nil" THEN "errNotFound" ELSE df

Retrieve(df) ==
    CASE df = "nil" -> "errNotFound"
      [] df = "doc" -> "none"
      [] df = "fail" -> "fail"
      [] df = "noDocs" -> "ErrNoDocuments"

(* Get and GetSingle call retrieve; Count always answers 1.                *)
Read(op, t) ==
    /\ queries[t] # "absent"
    /\ Returned(op, t[1], IF op = "Count" THEN "none" ELSE Retrieve(queries[t]), <<>>)
    /\ UNCHANGED <<dbs, runFunc, colls, queries>>

Get(t) == Read("Get", t)
GetSingle(t) == Read("GetSingle", t)
Count(t) == Read("Count", t)

(* The tests' fixtures: a RunFunc assigned to a database they looked up,  *)
(* a DataFunc given to a query.                                            *)
SetRunFunc(n) ==
    /\ n \in dbs
    /\ runFunc[n] = "nil"
    /\ runFunc' = [runFunc EXCEPT ![n] = "custom"]
    /\ UNCHANGED <<dbs, colls, queries, out>>

SetDataFunc(t) ==
    /\ queries[t] = "nil"
    /\ \E a \in DataFuncs : queries' = [queries EXCEPT ![t] = a]
    /\ UNCHANGED <<dbs, runFunc, colls, out>>

MNext ==
    \/ DatabaseNames \/ Ping
    \/ \E n \in DbNames :
          \/ DB(n) \/ Run(n) \/ CollectionNames(n) \/ SetRunFunc(n)
          \/ \E c \in CollNames : C(n, c)
    \/ \E n \in DbNames, c \in CollNames, q \in QueryKeys, o \in FindOptions :
          Find(n, c, q, o) \/ FindOne(n, c, q, o)
    \/ \E t \in Tuples : Get(t) \/ GetSingle(t) \/ Count(t) \/ SetDataFunc(t)

MSpec == MInit /\ [][MNext]_mVars

-----------------------------------------------------------------------------
(* A listing returned by DatabaseNames or CollectionNames follows the map *)
(* it walked, whatever order Go iterates the map in: the mock's error when *)
(* an entry is named mustFail, and otherwise every key exactly once.       *)
ListingsFollowMap ==
    LET keys == IF out.op = "DatabaseNames" THEN dbs
                ELSE {p[2] : p \in {q \in colls : q[1] = out.db}}
        e == IF out.op = "DatabaseNames" THEN "CannotFetchData" ELSE "fail"
    IN out.op \in {"DatabaseNames", "CollectionNames"} =>
         IF MustFail \in keys THEN out.err = e
         ELSE /\ out.err = "none"
              /\ ToSet(out.names) = keys
              /\ Len(out.names) = Cardinality(keys)

=============================================================================

------------------------------- MODULE Discovery -------------------------------
(***************************************************************************)
(* The low-level discovery handlers of plugin/handlers:                    *)
(* DatabasesDiscoveryHandler, CollectionsDiscoveryHandler,                 *)
(* ConfigDiscoveryHandler (with handlerServer) and ShardsDiscoveryHandler  *)
(* (with handlerShards).  Each handler is one call, so one step; the       *)
(* server's answers are fixed by Init.  Database and collection names are  *)
(* integers ordered like the strings they stand for; the server returns   *)
(* them in an order of its own.  A host list ("rs/host:port,...") is a     *)
(* sequence of characters over a small alphabet in which "a" stands for    *)
(* any character other than ':', ',' and '/'.                              *)
(***************************************************************************)
EXTENDS Integers, Sequences, FiniteSets, SequencesExt, TLC

CONSTANTS
    DbNames,     \* database names
    ColNames,    \* collection names
    ShardIds,    \* config.shards _id values
    ShardStates, \* config.shards state values
    HostStrings, \* host lists getShardMap may report
    ShardHosts,  \* host lists a config.shards entry may hold
    NoConfig     \* getShardMap has no "config" entry

Scheme == "tcp"   \* UriDefaults.Scheme
Chars == {"a", ":", ",", "/"}
Calls == {"databases", "collections", "config", "shards"}
Statuses == {"pending", "ok", "CannotFetchData", "CannotParseResult"}

VARIABLES
    call,    \* the handler the agent invoked
    srv,     \* what the session's calls answer (see Init)
    status,  \* "pending", "ok" or the returned error
    lld      \* the discovery records returned

vars == <<call, srv, status, lld>>

(* Sequences of distinct elements of S: a listing the server may return.   *)
Listings(S) == {s \in BoundedSeq(S, Cardinality(S)) : IsInjective(s)}

-----------------------------------------------------------------------------
(* Go's strings.Split(s, sep): the pieces between the separators; Split of  *)
(* the empty string is one empty piece.                                     *)
SplitAt(s, sep) ==
    LET cut == <<0>> \o SelectSeq([i \in DOMAIN s |-> i], LAMBDA i : s[i] = sep)
                     \o <<Len(s) + 1>>
    IN  [k \in 1..(Len(cut) - 1) |-> SubSeq(s, cut[k] + 1, cut[k + 1] - 1)]

(* strings.SplitN(s, "/", splitCount) with splitCount = 2: the part before  *)
(* the first '/' and the rest, or s alone.                                   *)
SplitRs(s) ==
    LET i == SelectInSeq(s, LAMBDA c : c = "/")
    IN  IF i = 0 THEN <<s>> ELSE <<SubSeq(s, 1, i - 1), SubSeq(s, i + 1, Len(s))>>

HostPortOkLoose(hp) == Len(SelectSeq(hp, LAMBDA c : c = ":")) >= 1

(* net.SplitHostPort on a string without brackets: the last ':' separates  *)
(* host and port; no ':' is "missing port", a ':' in the host is "too many *)
(* colons".                                                                *)
HostPortOk(hp) == Len(SelectSeq(hp, LAMBDA c : c = ":")) = 1
HostOf(hp) == SubSeq(hp, 1, SelectLastInSeq(hp, LAMBDA c : c = ":") - 1)

(* The host lists of handlerServer / handlerShards: the part after the     *)
(* first '/' (if any), split at ','.                                        *)
HostItems(s) == SplitAt(SplitRs(s)[Len(SplitRs(s))], ",")

(* handlerServer: one record per host:port, tagged with the replica set    *)
(* name before the '/'; the first malformed item fails the whole list.     *)
HandlerServer(s) ==
    LET rs == IF Len(SplitRs(s)) > 1 THEN SplitRs(s)[1] ELSE <<>>
        items == HostItems(s)
    IN  IF \A k \in DOMAIN items : HostPortOk(items[k])
        THEN [err |-> FALSE,
              lld |-> [k \in DOMAIN items |->
                         [rs |-> rs, host |-> HostOf(items[k]),
                          uri |-> <<Scheme, items[k]>>]]]
        ELSE [err |-> TRUE, lld |-> <<>>]

HandlerShardsPortScheme(sh) ==
    LET items == HostItems(sh.host)
    IN  IF \A k \in DOMAIN items : HostPortOk(items[k])
        THEN [err |-> FALSE,
              lld |-> [k \in DOMAIN items |->
                         [id |-> sh.id, host |-> HostOf(items[k]),
                          uri |-> <<"27017", items[k]>>, state |-> sh.state]]]
        ELSE [err |-> TRUE, lld |-> <<>>]

(* handlerShards: one record per host:port of one shard, with its _id and  *)
(* state.                                                                  *)
HandlerShards(sh) ==
    LET items == HostItems(sh.host)
    IN  IF \A k \in DOMAIN items : HostPortOk(items[k])
        THEN [err |-> FALSE,
              lld |-> [k \in DOMAIN items |->
                         [id |-> sh.id, host |-> HostOf(items[k]),
                          uri |-> <<Scheme, items[k]>>, state |-> sh.state]]]
        ELSE [err |-> TRUE, lld |-> <<>>]

-----------------------------------------------------------------------------
(* shEntry: a config.shards document as the handler decodes it.           *)
ShardEntries == [id : ShardIds, host : ShardHosts, state : ShardStates]

(* The LLD records of ConfigDiscoveryHandler (lldCfgEntity) and of         *)
(* ShardsDiscoveryHandler (lldShEntity), before JSON encoding.             *)
LldCfgEntity == [rs : Seq(Chars), host : Seq(Chars), uri : {Scheme} \X Seq(Chars)]
LldShEntity == [id : ShardIds, host : Seq(Chars), uri : {Scheme} \X Seq(Chars),
                state : ShardStates]

(* The answers of the session: DatabaseNames fails (dbErr) or lists dbs;   *)
(* CollectionNames fails on database colErr (0: on none) or lists          *)
(* cols[d]; Run(getShardMap) fails (runErr) or gives config; Find or Get   *)
(* on config.shards fails (shErr) or yields shards in natural order.       *)
Server == [dbErr : BOOLEAN, dbs : Listings(DbNames),
           colErr : {0} \cup DbNames, cols : [DbNames -> Listings(ColNames)],
           runErr : BOOLEAN, config : HostStrings \cup {NoConfig},
           shErr : {"none", "find", "get"}, shards : Seq(ShardEntries)]

NoServer == [dbErr |-> FALSE, dbs |-> <<>>, colErr |-> 0,
             cols |-> [d \in DbNames |-> <<>>], runErr |-> FALSE,
             config |-> NoConfig, shErr |-> "none", shards |-> <<>>]

(* Each call is asked of a server that only answers what it reads.          *)
InitServers(c) ==
    CASE c = "databases" ->
            {[NoServer EXCEPT !.dbErr = e, !.dbs = d] :
                e \in BOOLEAN, d \in Listings(DbNames)}
      [] c = "collections" ->
            {[NoServer EXCEPT !.dbErr = e, !.dbs = d, !.colErr = f, !.cols = l] :
                e \in BOOLEAN, d \in Listings(DbNames), f \in {0} \cup DbNames,
                l \in [DbNames -> Listings(ColNames)]}
      [] c = "config" ->
            {[NoServer EXCEPT !.runErr = e, !.config = h] :
                e \in BOOLEAN, h \in HostStrings \cup {NoConfig}}
      [] c = "shards" ->
            {[NoServer EXCEPT !.shErr = e, !.shards = sh] :
                e \in {"none", "find", "get"},
                sh \in {q \in BoundedSeq(ShardEntries, 2) :
                          IsInjective([k \in DOMAIN q |-> q[k].id])}}

Init ==
    /\ call \in Calls
    /\ srv \in InitServers(call)
    /\ status = "pending"
    /\ lld = <<>>

Ascending(a, b) == a < b

(* DatabasesDiscoveryHandler: list, sort.Strings, one {#DBNAME} record per *)
(* name; an empty listing is the empty array.                              *)
DatabasesDiscovery ==
    /\ call = "databases"
    /\ IF srv.dbErr
       THEN status' = "CannotFetchData" /\ UNCHANGED lld
       ELSE LET dbs == SortSeq(srv.dbs, Ascending)
            IN  /\ status' = "ok"
                /\ lld' = [k \in DOMAIN dbs |-> [db |-> dbs[k]]]

SortedCollectionsUnsorted(d) == srv.cols[d]

SortedCollections(d) == SortSeq(srv.cols[d], Ascending)

(* CollectionsDiscoveryHandler: for each database in sorted order, list    *)
(* and sort its collections; the first failing CollectionNames fails the  *)
(* call.                                                                   *)
CollectionsDiscovery ==
    /\ call = "collections"
    /\ IF srv.dbErr \/ srv.colErr \in ToSet(srv.dbs)
       THEN status' = "CannotFetchData" /\ UNCHANGED lld
       ELSE LET dbs == SortSeq(srv.dbs, Ascending)
            IN  /\ status' = "ok"
                /\ lld' = FlattenSeq([k \in DOMAIN dbs |->
                             LET cs == SortedCollections(dbs[k])
                             IN  [j \in DOMAIN cs |-> [col |-> cs[j], db |-> dbs[k]]]])

(* ConfigDiscoveryHandler: getShardMap, then handlerServer on the "config" *)
(* entry; a missing entry or a malformed host is CannotParseResult.        *)
ConfigDiscovery ==
    /\ call = "config"
    /\ CASE srv.runErr -> status' = "CannotFetchData" /\ UNCHANGED lld
          [] srv.config = NoConfig -> status' = "CannotParseResult" /\ UNCHANGED lld
          [] OTHER -> LET r == HandlerServer(srv.config) IN
                        IF r.err THEN status' = "CannotParseResult" /\ UNCHANGED lld
                        ELSE status' = "ok" /\ lld' = r.lld

(* ShardsDiscoveryHandler: config.shards in $natural order, handlerShards  *)
(* on each shard; the first malformed host fails the call.                 *)
ShardsDiscovery ==
    /\ call = "shards"
    /\ IF srv.shErr # "none"
       THEN status' = "CannotFetchData" /\ UNCHANGED lld
       ELSE LET rs == [k \in DOMAIN srv.shards |-> HandlerShards(srv.shards[k])]
            IN  IF \E k \in DOMAIN rs : rs[k].err
                THEN status' = "CannotParseResult" /\ UNCHANGED lld
                ELSE status' = "ok" /\ lld' = FlattenSeq([k \in DOMAIN rs |-> rs[k].lld])

Next ==
    /\ status = "pending"
    /\ \/ DatabasesDiscovery
       \/ CollectionsDiscovery
       \/ ConfigDiscovery
       \/ ShardsDiscovery
    /\ UNCHANGED <<call, srv>>

Spec == Init /\ [][Next]_vars

TypeOK ==
    /\ call \in Calls
    /\ srv \in Server
    /\ status \in Statuses
    /\ DOMAIN lld = 1..Len(lld)
    /\ \A k \in DOMAIN lld :
          \/ lld[k] \in [db : DbNames]
          \/ lld[k] \in [col : ColNames, db : DbNames]
          \/ lld[k] \in LldCfgEntity
          \/ lld[k] \in LldShEntity

-----------------------------------------------------------------------------
(* Reference for the listings (spec.md 4.3 and 6): the records are exactly *)
(* the names (databases) or the database/collection pairs (collections)   *)
(* the server listed, each once, in ascending order of database and then  *)
(* collection.                                                             *)
Before(r1, r2) ==
    \/ r1.db < r2.db
    \/ r1.db = r2.db /\ "col" \in DOMAIN r1 /\ r1.col < r2.col

ListingMatchesReference ==
    (status = "ok" /\ call \in {"databases", "collections"})
        => LET expected ==
                 IF call = "databases" THEN {[db |-> d] : d \in ToSet(srv.dbs)}
                 ELSE UNION {{[col |-> c, db |-> d] : c \in ToSet(srv.cols[d])} :
                               d \in ToSet(srv.dbs)}
           IN  /\ ToSet(lld) = expected
               /\ IsSorted(lld, Before)

(* Joining host:port items with ',' (the inverse of strings.Split).         *)
JoinItems(items) ==
    IF items = <<>> THEN <<>>
    ELSE FoldLeft(LAMBDA acc, it : acc \o <<",">> \o it, Head(items), Tail(items))

Free(s, cs) == \A i \in DOMAIN s : s[i] \notin cs

(* A record's endpoint is its host, one ':' and a port, neither holding a  *)
(* ':' or a ','.                                                          *)
EndpointOk(r) ==
    LET hp == r.uri[2] IN
    /\ r.uri[1] = Scheme
    /\ Free(r.host, {":", ","})
    /\ \E n \in 0..Len(hp) :
          /\ hp = r.host \o <<":">> \o SubSeq(hp, Len(hp) - n + 1, Len(hp))
          /\ Free(SubSeq(hp, Len(hp) - n + 1, Len(hp)), {":", ","})

(* A reported host list is the records' endpoints joined by ',', after an  *)
(* optional "<replica set>/" prefix.                                        *)
RoundTrips(s, recs, rs) ==
    /\ recs # <<>>
    /\ \A k \in DOMAIN recs : EndpointOk(recs[k])
    /\ LET body == JoinItems([k \in DOMAIN recs |-> recs[k].uri[2]]) IN
         \/ s = body /\ Free(body, {"/"}) /\ rs = <<>>
         \/ Free(rs, {"/"}) /\ s = rs \o <<"/">> \o body

(* Well-formed host lists built from their parts: at most two endpoints of *)
(* at most one character of host and of port, with or without a replica  *)
(* set name.                                                               *)
Parts == {<<>>, <<"a">>}
Endpoints == {h \o <<":">> \o p : h, p \in Parts}
WellFormed ==
    LET bodies == {JoinItems(l) : l \in BoundedSeq(Endpoints, 2) \ {<<>>}}
    IN  bodies \cup {r \o <<"/">> \o b : r \in Parts, b \in bodies}

(* The host lists of getShardMap and config.shards are parsed faithfully:  *)
(* a successful config or shard discovery reproduces, for every host list,  *)
(* its replica set name and each endpoint with its host; and every         *)
(* well-formed host list is accepted.                                      *)
HostListsParsed ==
    /\ (status = "ok" /\ call = "config")
          => RoundTrips(srv.config, lld, lld[1].rs)
    /\ (status = "ok" /\ call = "shards")
          => \A k \in DOMAIN srv.shards :
                LET recs == SelectSeq(lld, LAMBDA r : r.id = srv.shards[k].id)
                    i == SelectInSeq(srv.shards[k].host, LAMBDA c : c = "/")
                IN  RoundTrips(srv.shards[k].host, recs,
                               IF i = 0 THEN <<>> ELSE SubSeq(srv.shards[k].host, 1, i - 1))
    /\ (status # "pending" /\ call = "config" /\ srv.config \in WellFormed /\ ~srv.runErr)
          => status = "ok"

(* Discovery listings are in ascending lexicographic order of their        *)
(* primary key (spec.md 4.3, 6): shards by _id.                            *)
ShardsSortedById ==
    (status = "ok" /\ call = "shards")
        => IsSorted(lld, LAMBDA r1, r2 : r1.id <= r2.id)

=============================================================================

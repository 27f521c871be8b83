----------------------------- MODULE MCDiscovery -----------------------------
(* Two database and two collection names, every host list of up to four    *)
(* characters for getShardMap, and a few shard host lists (well-formed,    *)
(* with a replica set name, and malformed).                                *)
EXTENDS Discovery

MCDbNames == {1, 2}
MCColNames == {1, 2}
MCShardIds == {1, 2}
MCShardStates == {1}
MCHostStrings == UNION {[1..n -> Chars] : n \in 0..4}
MCShardHosts == {<<"a", ":", "a">>, <<"a", "/", ":", "a", ",", "a", ":">>, <<"a">>}

=============================================================================

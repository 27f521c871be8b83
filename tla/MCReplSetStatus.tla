--------------------------- MODULE MCReplSetStatus ---------------------------
(* Member lists of up to three members over two names, health up/down, two *)
(* optimes and the states PRIMARY and SECONDARY, each field               *)
(* possibly absent: lists with no, one and two primaries, unreadable and   *)
(* partially readable members, and the empty list.                         *)
EXTENDS ReplSetStatus

MCNames == {"a", "b"}
MCHealths == {0, 1}
MCOptimes == {5, 9}
MCStates == {1, 2}

=============================================================================

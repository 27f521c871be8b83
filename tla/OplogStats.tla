------------------------------- MODULE OplogStats -------------------------------
(***************************************************************************)
(* OplogStatsHandler (plugin/handlers/handler_oplog_stats.go): for each of *)
(* local.oplog.rs and local.oplog.$main in turn, getTS reads the newest    *)
(* entry ($natural: -1) and then the oldest ($natural: 1).  ErrNoDocuments *)
(* on either read moves on to the next collection, any other error ends   *)
(* the call.  Every FindOne is one step; a read may also fail with a       *)
(* transient error.  The oplog is a capped collection the server keeps    *)
(* writing while the call runs: between two reads it may append entries  *)
(* and, when the collection is full, drop its oldest ones.                 *)
(***************************************************************************)
EXTENDS Integers, Sequences, FiniteSetsExt

CONSTANTS
    Timestamps,  \* seconds of the "ts" Timestamp of oplog entries
    OplogCap,    \* entries a capped oplog collection holds
    MaxWrites    \* server writes during one call

(* No call lasts long enough for the server to overwrite a whole oplog.   *)
ASSUME MaxWrites < OplogCap

Collections == <<"oplog.rs", "oplog.$main">>

(* An oplog collection is the set of its entries' ts seconds; its newest  *)
(* entry in natural order has the largest ts, its oldest the smallest.     *)
Contents == {S \in SUBSET Timestamps : Cardinality(S) <= OplogCap}

(* The $natural sort of the first and of the second getOplogStats call of *)
(* getTS: newest entry first, then oldest.                                 *)
SortsSwapped == <<1, -1>>

Sorts == <<-1, 1>>

VARIABLES
    oplog,    \* collection index -> what it holds
    coll,     \* index of the collection the loop is at (3: loop ended)
    step,     \* "first", "last" (the two getOplogStats calls) or "done"
    firstTs,  \* getTS results, as seen by OplogStatsHandler
    lastTs,
    status,   \* "pending", "ok" or the returned error
    writes,   \* server writes so far during the call
    oldestSeen \* history: the oldest entry of oplog[coll] when its newest
               \* entry was read (not a variable of the code)

vars == <<oplog, coll, step, firstTs, lastTs, status, writes, oldestSeen>>

TypeOK ==
    /\ oplog \in [DOMAIN Collections -> Contents]
    /\ coll \in 1..(Len(Collections) + 1)
    /\ step \in {"first", "last", "done"}
    /\ firstTs \in Timestamps \cup {0}
    /\ lastTs \in Timestamps \cup {0}
    /\ status \in {"pending", "ok", "CannotFetchData"}
    /\ writes \in 0..MaxWrites
    /\ oldestSeen \in Timestamps \cup {0}

Init ==
    /\ oplog \in [DOMAIN Collections -> Contents]
    /\ coll = 1
    /\ step = "first"
    /\ firstTs = 0
    /\ lastTs = 0
    /\ status = "pending"
    /\ writes = 0
    /\ oldestSeen = 0

FindOneResultsMillis(c, dir) ==
    {[res |-> "error", ts |-> 0]} \cup
    IF oplog[c] = {} THEN {[res |-> "noDocuments", ts |-> 0]}
    ELSE {[res |-> "doc", ts |-> 1000 * (IF dir = -1 THEN Max(oplog[c]) ELSE Min(oplog[c]))]}

(* What FindOne(ts exists, sort $natural dir).GetSingle answers on         *)
(* collection c: the entry's ts, ErrNoDocuments, or a transient error.     *)
FindOneResults(c, dir) ==
    {[res |-> "error", ts |-> 0]} \cup
    IF oplog[c] = {} THEN {[res |-> "noDocuments", ts |-> 0]}
    ELSE {[res |-> "doc", ts |-> IF dir = -1 THEN Max(oplog[c]) ELSE Min(oplog[c])]}

(* The error branch of the loop: ErrNoDocuments (from either read, getTS   *)
(* returning 0, 0) continues with the next collection, any other error    *)
(* returns CannotFetchData.                                                *)
ReadFailed(r) ==
    /\ firstTs' = 0
    /\ lastTs' = 0
    /\ IF r.res = "noDocuments"
       THEN /\ coll' = coll + 1
            /\ step' = IF coll + 1 > Len(Collections) THEN "done" ELSE "first"
            /\ UNCHANGED status
       ELSE /\ status' = "CannotFetchData"
            /\ step' = "done"
            /\ UNCHANGED coll

(* getTS, first call of getOplogStats: sort $natural -1, the newest entry. *)
ReadNewest ==
    /\ status = "pending"
    /\ step = "first"
    /\ \E r \in FindOneResults(coll, Sorts[1]) :
          IF r.res = "doc"
          THEN /\ firstTs' = r.ts
               /\ step' = "last"
               /\ oldestSeen' = Min(oplog[coll])
               /\ UNCHANGED <<coll, lastTs, status>>
          ELSE ReadFailed(r) /\ UNCHANGED oldestSeen
    /\ UNCHANGED <<oplog, writes>>

(* getTS, second call: sort $natural 1, the oldest entry; on success the   *)
(* loop breaks.                                                            *)
ReadOldest ==
    /\ status = "pending"
    /\ step = "last"
    /\ \E r \in FindOneResults(coll, Sorts[2]) :
          IF r.res = "doc"
          THEN /\ lastTs' = r.ts
               /\ step' = "done"
               /\ UNCHANGED <<coll, firstTs, status>>
          ELSE ReadFailed(r)
    /\ UNCHANGED <<oplog, writes, oldestSeen>>

(* After the loop: marshal {"timediff": firstTs - lastTs}.                 *)
Respond ==
    /\ status = "pending"
    /\ step = "done"
    /\ status' = "ok"
    /\ UNCHANGED <<oplog, coll, step, firstTs, lastTs, writes, oldestSeen>>

TimeDiff == firstTs - lastTs

(* The server appends an entry, newer than every other, to an oplog in    *)
(* use; a full capped collection drops its oldest entry to make room.     *)
ServerWrite(c) ==
    /\ status = "pending"
    /\ writes < MaxWrites
    /\ oplog[c] # {}
    /\ \E t \in Timestamps :
          /\ t > Max(oplog[c])
          /\ oplog' = [oplog EXCEPT ![c] =
                          IF Cardinality(@) = OplogCap THEN (@ \ {Min(@)}) \cup {t}
                          ELSE @ \cup {t}]
    /\ writes' = writes + 1
    /\ UNCHANGED <<coll, step, firstTs, lastTs, status, oldestSeen>>

Next ==
    \/ ReadNewest \/ ReadOldest \/ Respond
    \/ \E c \in DOMAIN Collections : ServerWrite(c)

Spec == Init /\ [][Next]_vars

-----------------------------------------------------------------------------
FirstNonEmpty(o) == CHOOSE i \in DOMAIN Collections :
                        /\ o[i] # {}
                        /\ \A j \in 1..(i - 1) : o[j] = {}

(* When some oplog holds entries and the call succeeds, the answer comes  *)
(* from the first such collection in the order oplog.rs, oplog.$main, and *)
(* although the server writes between getTS's two reads, the reported     *)
(* timediff is never negative and never wider than the window the         *)
(* collection held when its newest entry was read: reading the newest     *)
(* entry first means truncation can only narrow the answer.               *)
TimeDiffWithinWindow ==
    (status = "ok" /\ \E i \in DOMAIN Collections : oplog[i] # {})
        => /\ coll = FirstNonEmpty(oplog)
           /\ oldestSeen <= lastTs
           /\ lastTs <= firstTs

=============================================================================

----------------------------- MODULE ReplSetStatus -----------------------------
(***************************************************************************)
(* ReplSetStatusHandler and its member enrichment                          *)
(* (plugin/handlers/handler_replset_status.go).  A raw member is the       *)
(* decoded document of one replSetGetStatus member, reduced to the four    *)
(* fields the handler reads; a field the decoder did not produce (absent   *)
(* or of another type) is Absent.  The enrichment writes fields back into  *)
(* the raw documents; Annotated(i) is what it has written into member i.   *)
(***************************************************************************)
EXTENDS Integers, Sequences, FiniteSets, SequencesExt

CONSTANTS
    Names,      \* member names ("host:port")
    Healths,    \* health values (a double: 1 is up)
    Optimes,    \* optime.ts seconds
    States,     \* replica state codes
    MaxMembers, \* longest member list
    Absent      \* a field the type assertion does not accept

statePrimary == 1
stateSecondary == 2
nodeHealthy == 1

Field(v) == v \cup {Absent}
RawMember == [name : Field(Names), health : Field(Healths),
              optime : Field(Optimes), state : Field(States)]

(* The response of the command as the handler sees it.                     *)
Responses == {"notReplSet", "fetchError", "noMembers", "members"}

VARIABLES
    raw,       \* replSetGetStatus["members"]
    response,  \* how Run(replSetGetStatus) answered
    status,    \* "pending", "ok" or the error the handler returned
    annot      \* index -> fields written into that raw member

vars == <<raw, response, status, annot>>

NoAnnotation == [lag |-> Absent, unhealthyNodes |-> Absent,
                 unhealthyCount |-> Absent, totalNodes |-> Absent]

(* parseMember: the zero value of each field the assertion rejects, and    *)
(* how many fields were extracted.  ptr is the index of the raw document.  *)
ParseMember(m, i) ==
    [name |-> IF m.name = Absent THEN "" ELSE m.name,
     health |-> IF m.health = Absent THEN 0 ELSE m.health,
     optime |-> IF m.optime = Absent THEN 0 ELSE m.optime,
     state |-> IF m.state = Absent THEN 0 ELSE m.state,
     extracted |-> Cardinality({f \in {"name", "health", "optime", "state"} :
                                  m[f] # Absent}),
     ptr |-> i]

(* The zero Member: primaryNode when no member is primary; its ptr is nil. *)
ZeroMember == [name |-> "", health |-> 0, optime |-> 0, state |-> 0,
               extracted |-> 0, ptr |-> 0]

(* One iteration of the loop of parseMembers.                              *)
ParseStep(acc, i) ==
    IF acc.err THEN acc
    ELSE LET m == ParseMember(raw[i], i) IN
         IF m.extracted = 0 THEN [acc EXCEPT !.err = TRUE]
         ELSE IF m.state = statePrimary THEN [acc EXCEPT !.primaryNode = m]
         ELSE [acc EXCEPT !.members = Append(@, m)]

(* parseMembers: the primary (or the zero Member) first, then the others   *)
(* in order; err when some member yields no field at all.                  *)
ParseMembers ==
    LET acc == FoldLeftDomain(ParseStep,
                   [err |-> FALSE, primaryNode |-> ZeroMember, members |-> <<>>],
                   raw)
        result == <<acc.primaryNode>> \o acc.members
    IN  [err |-> acc.err \/ Len(result) = 0, members |-> result]

UnhealthyMemberAnyState(n) == n.health # nodeHealthy

UnhealthyMember(n) == n.state = stateSecondary /\ n.health # nodeHealthy

InjectOverMembers(members) ==
    LET primary == members[1]
        unhealthy == SelectSeq(members, UnhealthyMember)
    IN  [j \in DOMAIN members |->
            [lag |-> primary.optime - members[j].optime,
             unhealthyNodes |-> IF j = 1 THEN [k \in DOMAIN unhealthy |-> unhealthy[k].name]
                                ELSE Absent,
             unhealthyCount |-> IF j = 1 THEN Len(unhealthy) ELSE Absent,
             totalNodes |-> IF j = 1 THEN Len(members) - 1 ELSE Absent]]

(* injectExtendedMembersStats: lag into every member's document, the       *)
(* unhealthy list and counts into the primary's, skipping a nil ptr.       *)
InjectExtendedMembersStats(members) ==
    LET primary == members[1]
        unhealthy == SelectSeq(members, UnhealthyMember)
        ptrs == {members[j].ptr : j \in DOMAIN members}
        lagOf(i) == primary.optime - (CHOOSE n \in ToSet(members) : n.ptr = i).optime
    IN  [i \in DOMAIN raw |->
            [lag |-> IF i \in ptrs THEN lagOf(i) ELSE Absent,
             unhealthyNodes |-> IF i = primary.ptr
                                THEN [j \in DOMAIN unhealthy |-> unhealthy[j].name]
                                ELSE Absent,
             unhealthyCount |-> IF i = primary.ptr THEN Len(unhealthy) ELSE Absent,
             totalNodes |-> IF i = primary.ptr THEN Len(members) - 1 ELSE Absent]]

Init ==
    /\ response \in Responses
    /\ raw \in IF response = "members" THEN BoundedSeq(RawMember, MaxMembers)
               ELSE {<<>>}
    /\ status = "pending"
    /\ annot = [i \in DOMAIN raw |-> NoAnnotation]

(* ReplSetStatusHandler.  A server outside a replica set answers "{}"; a   *)
(* failed Run is CannotFetchData; members that are not a BSON array are    *)
(* left alone; otherwise the enrichment runs and a parse failure is        *)
(* CannotParseResult.  The final json.Marshal cannot fail on a decoded     *)
(* document with these field types.                                        *)
ReplSetStatusHandler ==
    /\ status = "pending"
    /\ \/ /\ response = "notReplSet"
          /\ status' = "empty"
          /\ UNCHANGED annot
       \/ /\ response = "fetchError"
          /\ status' = "CannotFetchData"
          /\ UNCHANGED annot
       \/ /\ response = "noMembers"
          /\ status' = "ok"
          /\ UNCHANGED annot
       \/ /\ response = "members"
          /\ LET parsed == ParseMembers IN
               IF parsed.err
               THEN status' = "CannotParseResult" /\ UNCHANGED annot
               ELSE status' = "ok" /\ annot' = InjectExtendedMembersStats(parsed.members)
    /\ UNCHANGED <<raw, response>>

Next == ReplSetStatusHandler

Spec == Init /\ [][Next]_vars

-----------------------------------------------------------------------------
TypeOK ==
    /\ raw \in Seq(RawMember) /\ Len(raw) <= MaxMembers
    /\ response \in Responses
    /\ status \in {"pending", "ok", "empty", "CannotFetchData", "CannotParseResult"}
    /\ DOMAIN annot = DOMAIN raw

(* Reference for the enrichment, read off spec.md 4.4 directly from the    *)
(* raw list: a member with no readable field fails the whole list; each    *)
(* member's lag is the primary's optime (0 without a primary) minus its    *)
(* own; the primary's document alone lists the names of unhealthy         *)
(* secondaries in input order, their count and the number of other         *)
(* members.                                                                *)
Val(m, f, zero) == IF m[f] = Absent THEN zero ELSE m[f]
IsPrimary(i) == raw[i].state = statePrimary
RefUnhealthy == SelectSeq([i \in DOMAIN raw |-> i],
                    LAMBDA i : Val(raw[i], "state", 0) = stateSecondary
                               /\ Val(raw[i], "health", 0) # nodeHealthy)
Readable(m) == \E f \in {"name", "health", "optime", "state"} : m[f] # Absent

(* For a member list with at most one primary, the handler's result is     *)
(* the reference: ok exactly when every member is readable, and then the   *)
(* written fields are the reference's.                                     *)
EnrichmentMatchesReference ==
    (status # "pending" /\ response = "members"
       /\ Cardinality({i \in DOMAIN raw : IsPrimary(i)}) <= 1)
    =>  /\ (status = "ok") = (\A i \in DOMAIN raw : Readable(raw[i]))
        /\ status = "ok" =>
             LET p == {i \in DOMAIN raw : IsPrimary(i)}
                 pOpt == IF p = {} THEN 0
                         ELSE Val(raw[CHOOSE i \in p : TRUE], "optime", 0)
             IN  \A i \in DOMAIN raw :
                   /\ annot[i].lag = pOpt - Val(raw[i], "optime", 0)
                   /\ annot[i].unhealthyNodes =
                        IF i \in p THEN [j \in DOMAIN RefUnhealthy |->
                                           Val(raw[RefUnhealthy[j]], "name", "")]
                        ELSE Absent
                   /\ annot[i].unhealthyCount =
                        IF i \in p THEN Len(RefUnhealthy) ELSE Absent
                   /\ annot[i].totalNodes =
                        IF i \in p THEN Len(raw) - 1 ELSE Absent

(* An empty member list is a structure-parse error (spec.md section 8).    *)
EmptyMembersRejected ==
    (status # "pending" /\ response = "members" /\ raw = <<>>)
        => status = "CannotParseResult"

(* Every member of a successfully enriched list carries its lag (spec.md   *)
(* 4.4 step 4), whatever the number of members reporting PRIMARY.          *)
EveryMemberAnnotated ==
    (status = "ok" /\ response = "members")
        => \A i \in DOMAIN raw : annot[i].lag # Absent

=============================================================================

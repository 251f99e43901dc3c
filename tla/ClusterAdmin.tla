---------------------------- MODULE ClusterAdmin ----------------------------
(***************************************************************************)
(* The membership endpoints (put_member and delete_member of src/api.rs)   *)
(* on the leader: a handler reads the membership watch, makes the complete *)
(* new configuration out of it, and has it proposed.  There is no await    *)
(* between the read and the send to the core, but the runtime has several  *)
(* threads: a handler that is preempted there sends after other requests   *)
(* have been handled.  The node stays leader, so no entry is lost.         *)
(***************************************************************************)
EXTENDS Naturals, FiniteSets

CONSTANTS
    Id,             \* node ids
    Bootstrap,      \* the members at the start
    Request,        \* requests under way at once
    MaxChanges      \* bound: configurations appended

VARIABLES
    members,        \* the configuration in effect, as the leader publishes it
    committed,      \* the last committed one: members differs while one is in flight
    requests,       \* requests[q]: the request and where its handler is
    changes,        \* configurations appended so far
    answered        \* history: the requests answered 201 or 204, with the
                    \* configurations before and after their entry

vars == <<members, committed, requests, changes, answered>>

\* A configuration maps ids to addresses; every node of an id has the address it
\* was added with, and re-adding it gives it a new one.
Member(id) == [id |-> id, addr |-> changes]

Ids(config) == {m.id : m \in config}

Free == [phase |-> "free"]

InFlight == members # committed

Done(q) == requests' = [requests EXCEPT ![q] = Free]

Init ==
    /\ members = {[id |-> id, addr |-> 0] : id \in Bootstrap}
    /\ committed = members
    /\ requests = [q \in Request |-> Free]
    /\ changes = 0
    /\ answered = {}

\* 409 for an id that is a member; otherwise the new map is ready to be proposed.
PutMember(q, id) ==
    /\ requests[q] = Free
    /\ id \notin Ids(members)
    /\ requests' = [requests EXCEPT ![q] = [phase |-> "read", verb |-> "PUT", id |-> id,
                                            config |-> members \cup {Member(id)}]]
    /\ UNCHANGED <<members, committed, changes, answered>>

\* 404 for an id that is none.
DeleteMember(q, id) ==
    /\ requests[q] = Free
    /\ id \in Ids(members)
    /\ requests' = [requests EXCEPT ![q] = [phase |-> "read", verb |-> "DELETE", id |-> id,
                                            config |-> {m \in members : m.id # id}]]
    /\ UNCHANGED <<members, committed, changes, answered>>

\* validate_config_change: none in flight, one id more or less.
Valid(config) ==
    /\ ~InFlight
    /\ config # {}
    /\ Cardinality((Ids(config) \ Ids(members)) \cup (Ids(members) \ Ids(config))) = 1

\* handle_propose: the configuration is in effect once it is appended.
Propose(q) ==
    /\ requests[q].phase = "read"
    /\ Valid(requests[q].config)
    /\ changes < MaxChanges
    /\ changes' = changes + 1
    /\ members' = requests[q].config
    /\ requests' = [requests EXCEPT ![q].phase = "waiting"]
    /\ UNCHANGED <<committed, answered>>

\* 409: not valid now, or (not modelled here) no majority of it reachable.
Refuse(q) ==
    /\ requests[q].phase = "read"
    /\ Done(q)
    /\ UNCHANGED <<members, committed, changes, answered>>

\* The entry is committed and applied; its handler, if it still waits, answers.
Commit ==
    /\ InFlight
    /\ committed' = members
    /\ \E q \in Request :
          \/ /\ requests[q].phase = "waiting"
             /\ Done(q)
             /\ answered' = answered \cup {[verb |-> requests[q].verb, id |-> requests[q].id,
                                            before |-> committed, after |-> members]}
          \/ /\ \A p \in Request : requests[p].phase # "waiting"
             /\ UNCHANGED <<requests, answered>>
    /\ UNCHANGED <<members, changes>>

\* 504.
Timeout(q) ==
    /\ requests[q].phase = "waiting"
    /\ Done(q)
    /\ UNCHANGED <<members, committed, changes, answered>>

Next ==
    \/ \E q \in Request, id \in Id : PutMember(q, id) \/ DeleteMember(q, id)
    \/ \E q \in Request : Propose(q) \/ Refuse(q) \/ Timeout(q)
    \/ Commit

Spec == Init /\ [][Next]_vars
-----------------------------------------------------------------------------
(* Properties.                                                             *)

\* "PUT /cluster/members/{id} -> 201 once the ConfigChange adding the member is
\* committed", "DELETE /cluster/members/{id} -> 204 once the removal is
\* committed": the change that was committed for an answered request added or
\* removed the member it names and touched no other.
AnswerNamesTheChange ==
    \A a \in answered :
        LET others(config) == {m \in config : m.id # a.id} IN
        /\ others(a.before) = others(a.after)
        /\ a.id \in Ids(a.after) <=> a.verb = "PUT"
=============================================================================

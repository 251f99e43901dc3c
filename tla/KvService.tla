----------------------------- MODULE KvService -----------------------------
(***************************************************************************)
(* The client-facing service: KvNode (src/kv.rs) behind the HTTP handlers  *)
(* (src/api.rs), on top of the replicated state machine of KvStore.        *)
(*                                                                         *)
(* The consensus core is seen through RaftHandle only.  A node may accept  *)
(* a proposal or refuse it as no leader; an accepted entry floats until it *)
(* is committed or lost; the channel of its waiter yields true once it is  *)
(* applied, false when it was replaced on that node, and is closed when    *)
(* the node crashes or jumps over the entry by a snapshot.  A granted read *)
(* is at or past all that was applied anywhere when it was registered      *)
(* (ReadsFresh of RaftSafety).                                             *)
(*                                                                         *)
(* A client sends the same tokened request again until it gets 201 or 204; *)
(* every other answer is 307, 503 or 504 here.                             *)
(***************************************************************************)
EXTENDS KvStore

CONSTANTS
    Call,           \* slots for HTTP requests under way
    MaxProposals,   \* bound: entries accepted by leaders
    MaxReads,       \* bound: reads under way at once
    MaxCrashes      \* bound: crashes

ASSUME ServiceBounds == {MaxProposals, MaxReads, MaxCrashes} \subseteq Nat

VARIABLES
    calls,          \* calls[k]: the request in slot k and where its handler is
    floating,       \* accepted entries that are in some log, not committed
    origin,         \* origin[i]: the number of the proposal that became log[i]
    proposals,      \* number of proposals accepted so far
    crashes,        \* number of crashes so far
    frontier,       \* history: the highest index any node has applied
    disclosed       \* history: the highest index an answer has depended on

serviceVars == <<vars, calls, floating, origin, proposals, crashes, frontier, disclosed>>

Later(i, j) == IF i > j THEN i ELSE j

Free == [phase |-> "free"]

\* A write is waiting, then applied; a read is registered, then granted.
In(k, phase) == calls[k].phase = phase

Reading(k) == calls[k].phase \in {"registered", "granted"}

Answer(k) == calls' = [calls EXCEPT ![k] = Free]

NoChange == UNCHANGED <<floating, origin, proposals, crashes, frontier, disclosed>>
-----------------------------------------------------------------------------
(***************************************************************************)
(* KvNode::write for put_key and delete_key.  A node that is not the       *)
(* leader answers 307 or 503, which leaves the request with its client:    *)
(* here it arrives where it is accepted.                                   *)
(***************************************************************************)
Put(k, r) ==
    /\ calls[k] = Free
    /\ proposals < MaxProposals
    /\ proposals' = proposals + 1
    /\ \E op \in Op :
          /\ op.seq \in Outstanding(op.client)
          /\ ~\E j \in Call : calls[j].phase \in {"waiting", "applied"} /\ calls[j].op = op
          /\ floating' = floating \cup {[no |-> proposals', op |-> op]}
          /\ calls' = [calls EXCEPT ![k] = [phase |-> "waiting", at |-> r, op |-> op,
                                            no |-> proposals']]
    /\ UNCHANGED <<vars, origin, crashes, frontier, disclosed>>

\* 503: the waiter is told that the entry was replaced on its node.  Elsewhere
\* the entry may live on.
Superseded(k) ==
    /\ In(k, "waiting")
    /\ \A i \in 1 .. Len(origin) : origin[i] # calls[k].no
    /\ Answer(k)
    /\ UNCHANGED vars /\ NoChange

\* Mutant: the write is answered as if it had succeeded.
Timeout_Succeeds(k) ==
    /\ In(k, "waiting")
    /\ acked' = acked \cup {calls[k].op}
    /\ Answer(k)
    /\ UNCHANGED <<issued, log, replica>> /\ NoChange

\* 504: the handler stops waiting, the proposal goes on; a read just ends.
Timeout(k) ==
    /\ calls[k].phase \in {"waiting", "registered"}
    /\ Answer(k)
    /\ UNCHANGED vars /\ NoChange

IndexOf(no) == CHOOSE i \in 1 .. Len(origin) : origin[i] = no

\* 201 or 204 reaches the client.
Respond(k) ==
    /\ In(k, "applied")
    /\ acked' = acked \cup {calls[k].op}
    /\ disclosed' = Later(disclosed, IndexOf(calls[k].no))
    /\ Answer(k)
    /\ UNCHANGED <<issued, log, replica, floating, origin, proposals, crashes, frontier>>
-----------------------------------------------------------------------------
(* KvNode::get_linearizable.                                               *)

\* get_key without ?stale.  What any earlier answer depended on is its floor.
Get(k, r) ==
    /\ calls[k] = Free
    /\ Cardinality({j \in Call : Reading(j)}) < MaxReads
    /\ calls' = [calls EXCEPT ![k] = [phase |-> "registered", at |-> r,
                                      floor |-> disclosed, index |-> frontier]]
    /\ UNCHANGED <<vars, floating, origin, proposals, crashes, frontier, disclosed>>

\* Mutant: the grant is not waited for.
GrantDue_AtOnce(call) == TRUE

\* The core grants the read: leadership confirmed, the index applied.
GrantDue(call) == replica[call.at].applied >= call.index

ReadGranted(k) ==
    /\ In(k, "registered")
    /\ GrantDue(calls[k])
    /\ calls' = [calls EXCEPT ![k].phase = "granted"]
    /\ UNCHANGED vars /\ NoChange

\* 200 or 404: the handler resumes and reads the state machine as it is now.
ReadAnswered(k) ==
    /\ In(k, "granted")
    /\ disclosed' = Later(disclosed, replica[calls[k].at].applied)
    /\ Answer(k)
    /\ UNCHANGED <<vars, floating, origin, proposals, crashes, frontier>>

\* Step-down drops the pending reads: 503.
ReadDropped(k) ==
    /\ In(k, "registered")
    /\ Answer(k)
    /\ UNCHANGED vars /\ NoChange
-----------------------------------------------------------------------------
(* The core below.                                                         *)

\* An entry that is never committed is lost.
EntryCommitted ==
    \E e \in floating :
        /\ Len(log) < MaxLog
        /\ log' = Append(log, e.op)
        /\ origin' = Append(origin, e.no)
        /\ floating' = floating \ {e}
        /\ UNCHANGED <<issued, acked, replica, calls, proposals, crashes, frontier, disclosed>>

\* Mutant: the waiter is answered at commit, before the entry is applied.
DueAt_Commit(r) == {origin[i] : i \in 1 .. Len(origin)}

\* The proposals whose entry node r has just applied.
DueAt(r) == {origin[replica'[r].applied]}

\* apply_committed: the entry is applied, then its waiter on this node is told.
EntryApplied(r) ==
    /\ Apply(r)
    /\ calls' = [k \in Call |->
          IF In(k, "waiting") /\ calls[k].at = r /\ calls[k].no \in DueAt(r)
          THEN [calls[k] EXCEPT !.phase = "applied"] ELSE calls[k]]
    /\ frontier' = Later(frontier, replica'[r].applied)
    /\ UNCHANGED <<floating, origin, proposals, crashes, disclosed>>

\* handle_install_snapshot drops the waiters at or below the boundary: their
\* channel is closed, and the answer is 503.
SnapshotInstalled(r, q) ==
    /\ Install(r, q)
    /\ calls' = [k \in Call |->
          IF /\ In(k, "waiting") /\ calls[k].at = r
             /\ calls[k].no \in {origin[i] : i \in 1 .. replica'[r].applied}
          THEN Free ELSE calls[k]]
    /\ NoChange

\* The process dies: its handlers with it, and the client sees a broken
\* connection.  An answer already on its way may still arrive.
Crash(r) ==
    /\ crashes < MaxCrashes
    /\ crashes' = crashes + 1
    /\ Restart(r)
    /\ \E onTheWay \in SUBSET {k \in Call : In(k, "applied")} :
          calls' = [k \in Call |-> IF k \in onTheWay \/ In(k, "free") \/ calls[k].at # r
                                   THEN calls[k] ELSE Free]
    /\ UNCHANGED <<floating, origin, proposals, frontier, disclosed>>
-----------------------------------------------------------------------------
Issue(c) ==
    /\ IssueWithinWindow(c)
    /\ UNCHANGED calls /\ NoChange

ServiceInit ==
    /\ Init
    /\ calls = [k \in Call |-> Free]
    /\ floating = {} /\ origin = << >>
    /\ proposals = 0 /\ crashes = 0
    /\ frontier = 0 /\ disclosed = 0

Handler(k) ==
    \/ \E r \in Replica : Put(k, r) \/ Get(k, r)
    \/ Superseded(k) \/ Timeout(k) \/ Respond(k)
    \/ ReadGranted(k) \/ ReadAnswered(k) \/ ReadDropped(k)

Core ==
    \/ EntryCommitted
    \/ \E r \in Replica : EntryApplied(r) \/ Crash(r)
                          \/ \E q \in Replica : SnapshotInstalled(r, q)

ServiceNext == (\E c \in Client : Issue(c)) \/ (\E k \in Call : Handler(k)) \/ Core

ServiceSpec == ServiceInit /\ [][ServiceNext]_serviceVars
-----------------------------------------------------------------------------
(* Properties.                                                             *)

\* The handlers with their timeouts, retries, redirects and lost answers
\* implement the state machine's view of its clients: a write is acknowledged
\* only when it is committed (KvNode::write, write_error_response), for which
\* AtMostOnce and NothingSkipped are proved.
ImplementsKvStore == Spec

\* A write whose waiter is told true, and that so will be answered with 201 or
\* 204, has taken effect on the answering node, once, even if the entry that
\* succeeded was deduplicated (resolve_pending after apply; KvNode::write).
AckedTookEffect ==
    [][\A k \in Call :
          In(k, "waiting") /\ calls'[k].phase = "applied"
          => replica'[calls[k].at].hits[calls[k].op] = 1]_serviceVars

\* A linearizable read sees every write acknowledged, and all that an earlier
\* read saw, before it was registered, whichever nodes served them: from the
\* grant on, the state machine it is about to read is that far
\* (get_linearizable).
ReadsLinearizable ==
    \A k \in Call : In(k, "granted") => replica[calls[k].at].applied >= calls[k].floor
=============================================================================

----------------------------- MODULE RaftTimed -----------------------------
(***************************************************************************)
(* The consensus core with its clocks, for what must eventually happen.    *)
(*                                                                         *)
(* The three clocks of node.rs are kept by what the code compares them     *)
(* with: last_leader_contact against election_timeout_min (fresh), and the *)
(* leader's last_contact of each peer against election_timeout_max         *)
(* (contact).  A link is open or closed in each direction.                 *)
(*                                                                         *)
(* The timing assumption is the one the defaults are chosen for            *)
(* (heartbeat_interval far below election_timeout_min, messages faster     *)
(* than both): timers fire when nothing is in flight, and contact over     *)
(* open links does not lapse between two heartbeats.                       *)
(***************************************************************************)
EXTENDS RaftSafety

CONSTANTS
    LinkStates,     \* the sets of open links <<from, to>> the faults choose from
    MaxFaults       \* bound: faults and repairs; after it links can only heal

VARIABLES
    links,          \* the open directed links
    faults,         \* number of link failures, crashes and repairs so far
    clock,          \* clock[n]: [fresh, contact], see above
    settled         \* history: leaders heeded since the last disturbance

timedVars == <<vars, links, faults, clock, settled>>

AllLinks == {l \in Node \X Node : l[1] # l[2]}
Quiet == msgs = {}

NoContact == [p \in Node |-> "never"]
-----------------------------------------------------------------------------
(* The clocks after node n's turn: heard from a leader, answered by peers. *)

\* A new leadership, or a member new to it, starts with a window of grace.
ContactAfter(n, answered) ==
    LET old == IF IsLeader(node[n]) THEN clock[n].contact ELSE NoContact
        met == {p \in Peers(n, node'[n]) : old[p] = "never"}
    IN  IF ~IsLeader(node'[n]) THEN NoContact
        ELSE [p \in Node |-> IF p \in answered \cup met THEN "recent" ELSE old[p]]

Clocks(n, heard, answered) ==
    /\ clock' = [clock EXCEPT ![n] = [fresh   |-> @.fresh \/ heard,
                                      contact |-> ContactAfter(n, answered)]]
    /\ UNCHANGED <<links, faults>>
-----------------------------------------------------------------------------
(* Messages.                                                               *)

HearsLeader(m) ==
    /\ m.type \in {"AppendEntries", "InstallSnapshot"}
    /\ m.term >= node[m.to].term

Answered(m) ==
    IF m.type \in {"AppendReply", "InstallSnapshotReply"} /\ AnswersThisLeadership(m)
    THEN {m.from} ELSE {}

\* Mutant: only the leader itself denies a pre-vote.
LeaderIsLive_NotSticky(n) == IsLeader(node[n])

\* Stickiness: a leader, and whoever heard one within election_timeout_min.
LeaderIsLive(n) == IsLeader(node[n]) \/ clock[n].fresh

StickyPreVote(m) ==
    LET s == node[m.to]
        granted == /\ m.term > s.term
                   /\ UpToDate(s, m.lastTerm, m.lastIndex)
                   /\ ~LeaderIsLive(m.to)
    IN  m.type = "PreVote" => VoteReply("PreVoteReply", m, s, granted) \in msgs'

\* Answers that handle_event drops: of an earlier campaign or leadership.
Stale(m) ==
    LET s == node[m.to] IN
    /\ m.term <= s.term
    /\ CASE m.type = "PreVoteReply" ->
               ~(m.granted /\ m.sentTerm = s.term + 1 /\ s.role.kind = "precandidate")
         [] m.type = "RequestVoteReply" ->
               ~(m.granted /\ m.sentTerm = s.term /\ s.role.kind = "candidate")
         [] m.type \in {"AppendReply", "InstallSnapshotReply"} -> ~AnswersThisLeadership(m)
         [] OTHER -> FALSE

\* A closed link swallows what is sent over it.
Swallowed == {m \in msgs : <<m.from, m.to>> \notin links}

Deliver(m) ==
    /\ Swallowed = {}
    /\ \/ Receive(m) /\ StickyPreVote(m)
       \/ Stale(m) /\ msgs' = msgs \ {m}
                   /\ UNCHANGED <<node, ballots, elected, applied, crashes>>
    /\ Clocks(m.to, HearsLeader(m), Answered(m))

Swallow ==
    /\ Swallowed # {}
    /\ msgs' = msgs \ Swallowed
    /\ UNCHANGED <<node, ballots, elected, applied, crashes, links, faults, clock>>

Network == Swallow \/ \E m \in msgs : Deliver(m)
-----------------------------------------------------------------------------
(* Timers.                                                                 *)

\* The members a leader has heard within the window, itself included.
Heard(n) ==
    {p \in node[n].members : p = n \/ clock[n].contact[p] = "recent"}

\* Mutant: no CheckQuorum.
QuorumHeard_Always(n) == TRUE

QuorumHeard(n) == Cardinality(Heard(n)) >= Majority(node[n].members)

Tick(n) ==
    /\ Quiet
    /\ \/ QuorumHeard(n) /\ HeartbeatTick(n)
       \/ ~QuorumHeard(n) /\ CheckQuorumFails(n)
    /\ Clocks(n, FALSE, {})

\* The timer is re-armed at every contact and runs for election_timeout_min at
\* least, so it does not fire while the contact is fresh.
Timeout(n) ==
    /\ Quiet
    /\ ~clock[n].fresh
    /\ ElectionTimeout(n)
    /\ Clocks(n, FALSE, {})

\* A leader whose heartbeats keep n's contact fresh.
Reached(n) ==
    \E l \in Node :
        /\ IsLeader(node[l]) /\ node[l].term >= node[n].term
        /\ n \in ReplicationTargets(l, node[l])
        /\ <<l, n>> \in links

FreshnessEnds(n) ==
    /\ clock[n].fresh /\ ~Reached(n)
    /\ clock' = [clock EXCEPT ![n].fresh = FALSE]
    /\ UNCHANGED <<vars, links, faults>>

ContactLapses(n, p) ==
    /\ IsLeader(node[n]) /\ clock[n].contact[p] = "recent"
    /\ ~(/\ {<<n, p>>, <<p, n>>} \subseteq links
         /\ p \in ReplicationTargets(n, node[n]))
    /\ clock' = [clock EXCEPT ![n].contact[p] = "lapsed"]
    /\ UNCHANGED <<vars, links, faults>>
-----------------------------------------------------------------------------
(* Clients, administrators and faults: they act if and when they like.     *)

\* The availability guard: the members of a configuration that leader n has heard
\* within the window, in this leadership.
Reachable(n, members) ==
    {p \in members : p = n \/ (node[n].role.acked[p] >= 0 /\ clock[n].contact[p] = "recent")}

ReachableMajority(n, members) ==
    Cardinality(Reachable(n, members)) >= Majority(members)

Request(n) ==
    /\ Quiet
    /\ \/ ProposeWrite(n)
       \/ ProposeConfig(n) /\ ReachableMajority(n, node'[n].members)
    /\ Clocks(n, FALSE, {})

CrashAndRestart(n) ==
    /\ Quiet
    /\ faults < MaxFaults
    /\ faults' = faults + 1
    /\ Restart(n)
    /\ clock' = [clock EXCEPT ![n] = [fresh |-> FALSE, contact |-> NoContact]]
    /\ UNCHANGED links

LinksFail ==
    /\ Quiet
    /\ faults < MaxFaults
    /\ faults' = faults + 1
    /\ links' \in LinkStates \ {links}
    /\ UNCHANGED <<vars, clock>>

LinksHeal ==
    /\ Quiet
    /\ links # AllLinks
    /\ links' = AllLinks
    /\ faults' = faults + 1
    /\ UNCHANGED <<vars, clock>>
-----------------------------------------------------------------------------
\* A leader that has committed the no-op of its term: it can commit writes,
\* confirm reads and change the membership.
Serves(n) == IsLeader(node[n]) /\ node[n].commitIndex >= node[n].role.termStart

\* Nothing is under way, and a majority that includes the leader n hears it and
\* is heard by it.
Heeded(n) ==
    /\ Quiet
    /\ Serves(n)
    /\ \A p \in Node : node[p].term <= node[n].term
    /\ \E Q \in SUBSET node[n].members :
          /\ n \in Q /\ Cardinality(Q) >= Majority(node[n].members)
          /\ \A p \in Q \ {n} : /\ clock[p].fresh /\ clock[n].contact[p] = "recent"
                               /\ {<<n, p>>, <<p, n>>} \subseteq links

\* A link fails or heals, a node crashes, a membership takes effect.
Disturbed ==
    \/ links' # links \/ crashes' # crashes
    \/ \E n \in Node : node'[n].members # node[n].members

RemembersSettled ==
    settled' = (IF Disturbed THEN {} ELSE settled) \cup {n \in Node : Heeded(n)'}
-----------------------------------------------------------------------------
TimedInit ==
    /\ Init
    /\ links = AllLinks
    /\ faults = 0
    /\ clock = [n \in Node |-> [fresh |-> FALSE, contact |-> NoContact]]
    /\ settled = {}

Step ==
    \/ Network
    \/ \E n \in Node :
          \/ Tick(n)
          \/ Timeout(n)
          \/ FreshnessEnds(n)
          \/ \E p \in Node : ContactLapses(n, p)
          \/ Request(n)
          \/ CrashAndRestart(n)
    \/ LinksFail
    \/ LinksHeal

TimedNext == Step /\ RemembersSettled

(***************************************************************************)
(* Fairness.  The event loops never stop, and clocks run on.  A timer that *)
(* stays armed goes off again and again, unless messages are exchanged for *)
(* ever: the heartbeat of a node that stays a leader, the election timer   *)
(* of one that hears no leader.                                            *)
(***************************************************************************)
TimerArmed(n) ==
    IsLeader(node[n]) \/ (~clock[n].fresh /\ MayCampaign(n))

\* Out of the quiet, n sends something or steps down.
TimerGoesOff(n) ==
    /\ Quiet
    /\ (\E m \in msgs' : m.from = n) \/ (IsLeader(node[n]) /\ ~IsLeader(node'[n]))

Fairness ==
    /\ []<><<TRUE>>_timedVars
    /\ []<>Quiet => \A n \in Node :
                      <>[]TimerArmed(n) => []<><<TimerGoesOff(n)>>_timedVars
    /\ \A n \in Node :
          /\ WF_clock(FreshnessEnds(n))
          /\ \A p \in Node : WF_clock(ContactLapses(n, p))

TimedSpec == TimedInit /\ [][TimedNext]_timedVars /\ Fairness
-----------------------------------------------------------------------------
(* Properties.                                                             *)

\* Some majority of every configuration that a node acts on is fully connected.
MajorityConnected ==
    \A n \in Node : node[n].members # {} =>
        \E Q \in SUBSET node[n].members :
            /\ Cardinality(Q) >= Majority(node[n].members)
            /\ \A p, q \in Q : p # q => <<p, q>> \in links

\* Whatever one-way or two-way partitions, healed or not, and crashes came
\* before: when a majority stays connected, one node becomes a leader that can
\* serve and is never deposed again (CheckQuorum of on_heartbeat_tick unseats a
\* leader that hears nobody, the stickiness of handle_pre_vote keeps the
\* disconnected from unseating one that does).
EventuallyOneLeader ==
    <>[]MajorityConnected => \E n \in Node : <>[]Serves(n)

\* A leader that a majority hears is not unseated until a link fails or heals, a
\* node crashes or the membership changes: a node that cannot hear it may
\* campaign for ever and unseats nobody (stickiness of handle_pre_vote), and its
\* own CheckQuorum does not fire.
LeaderUndisturbed == \A n \in settled : IsLeader(node[n])

\* Node n has applied the whole log of its leader l and nobody waits at it.
CaughtUp(n, l) ==
    /\ node[n].leaderId = l
    /\ FullLog(node[n]) = FullLog(node[l])
    /\ node[n].lastApplied = Len(FullLog(node[l]))
    /\ node[n].pending = {}

\* Once the network is whole again every member ends up with its leader's whole
\* log applied, diverging suffixes and compacted entries included, and every
\* client that still waits for a proposal has its answer (handle_append_entries,
\* backtracking in handle_event, InstallSnapshot, resolve_pending).
EveryoneCatchesUp ==
    <>[](links = AllLinks) =>
        <>[](\E l \in Node : IsLeader(node[l]) /\ \A n \in node[l].members : CaughtUp(n, l))

\* Leader l took p out of the configuration in this leadership.
RemovedBy(l, p) ==
    /\ IsLeader(node[l]) /\ p \notin node[l].members
    /\ node[l].membersIndex >= node[l].role.termStart

\* A removed peer that the network reaches learns of its removal, and so parks
\* instead of probing for ever, and its leader then stops sending to it; a later
\* leader owes it nothing (the parting sends of replication_targets).
RemovedLearns ==
    <>[](links = AllLinks) =>
        <>[](\A l, p \in Node : RemovedBy(l, p) => /\ p \notin node[p].members
                                                  /\ node[l].role.departing[p] = 0)
=============================================================================

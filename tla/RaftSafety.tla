----------------------------- MODULE RaftSafety -----------------------------
(***************************************************************************)
(* What the consensus core promises.  The state machine of module RaftNode *)
(* is the free one, the sequence of the entries applied to it, so a        *)
(* snapshot's state is the prefix of the log that it replaces and FullLog  *)
(* is a node's whole durable history, compacted or not.                    *)
(***************************************************************************)
EXTENDS RaftNode

FullLog(s) == s.snap.state \o s.log

PrefixOf(s, t) == Len(s) <= Len(t) /\ s = SubSeq(t, 1, Len(s))

LatestLeader(n) ==
    /\ IsLeader(node[n])
    /\ \A e \in elected : e.term <= node[n].term
-----------------------------------------------------------------------------
(* Types.                                                                  *)

Command == {Noop} \cup {Write(v) : v \in Value}
                  \cup [op : {"config"}, members : Configs]
LogEntry == [term : Nat, cmd : Command]
Membership == Configs \cup {Bootstrap, {}}
Snapshot == [index : Nat, term : Nat, members : {Nil} \cup Configs, state : Seq(LogEntry)]
PendingRead == [neededSeq : Nat, readIndex : Nat, floor : Nat]

Role ==
    [kind : {"follower"}]
    \cup [kind : {"precandidate", "candidate"}, votes : SUBSET Node]
    \cup [kind : {"leader"}, next : [Node -> Nat], match : [Node -> Nat], termStart : Nat,
          seq : Nat, acked : [Node -> Nat \cup {-1}], departing : [Node -> Nat],
          reads : SUBSET PendingRead]

NodeState ==
    [term : Nat, votedFor : Node \cup {Nil}, snap : Snapshot, log : Seq(LogEntry),
     role : Role, leaderId : Node \cup {Nil}, commitIndex : Nat, lastApplied : Nat,
     sm : Seq(LogEntry), pending : SUBSET [term : Nat, index : Nat],
     staged : {Nil} \cup [index : Nat, state : Seq(LogEntry), members : {Nil} \cup Configs],
     members : Membership, membersIndex : Nat, contacted : BOOLEAN,
     told : SUBSET [term : Nat, index : Nat, committed : BOOLEAN],
     granted : SUBSET [floor : Nat, at : Nat]]

Message ==
    [type : {"PreVote", "RequestVote"}, from : Node, to : Node, term : Nat,
     lastTerm : Nat, lastIndex : Nat]
    \cup [type : {"PreVoteReply", "RequestVoteReply"}, from : Node, to : Node,
          term : Nat, sentTerm : Nat, granted : BOOLEAN]
    \cup [type : {"AppendEntries"}, from : Node, to : Node, term : Nat, prevIndex : Nat,
          prevTerm : Nat, entries : Seq(LogEntry), commit : Nat, seq : Nat]
    \cup [type : {"AppendReply"}, from : Node, to : Node, term : Nat, sentTerm : Nat,
          prevIndex : Nat, sent : Nat, seq : Nat, success : BOOLEAN]
    \cup [type : {"InstallSnapshot"}, from : Node, to : Node, term : Nat, snap : Snapshot]
    \cup [type : {"InstallSnapshotReply"}, from : Node, to : Node, term : Nat,
          sentTerm : Nat, index : Nat]

\* Every variable holds values of its type; in particular an AppendEntries
\* never carries the absent term, so the lookup that send_append expects to
\* succeed ("next_index stays within log bounds") does.
TypeOK ==
    /\ node \in [Node -> NodeState]
    /\ msgs \subseteq Message
    /\ ballots \subseteq [term : Nat, voter : Node, candidate : Node]
    /\ elected \subseteq [term : Nat, leader : Node]
    /\ applied \subseteq (Nat \X LogEntry)
    /\ crashes \in Nat
-----------------------------------------------------------------------------
(* Elections.                                                              *)

\* A node's durable vote binds it: through crashes and duplicated requests it
\* never votes for two candidates in one term (handle_request_vote,
\* start_election, save_hard_state before the reply).
VoteOnce ==
    \A b, c \in ballots :
        b.term = c.term /\ b.voter = c.voter => b.candidate = c.candidate

\* At most one node ever leads in a term: the two "SAFETY VIOLATION ... from
\* another leader of our term" branches are never reached.
ElectionSafety ==
    \A e, f \in elected : e.term = f.term => e.leader = f.leader

\* A node that names a leader (the hint client redirects follow) names the one
\* that won its current term.
HintsAreLeaders ==
    \A n \in Node : node[n].leaderId # Nil =>
        [term |-> node[n].term, leader |-> node[n].leaderId] \in elected
-----------------------------------------------------------------------------
(* Logs.                                                                   *)

\* Two logs that hold an entry of the same index and term agree up to it.
LogMatching ==
    \A a, b \in Node :
        LET la == FullLog(node[a])
            lb == FullLog(node[b])
        IN  \A i \in DOMAIN la \cap DOMAIN lb :
               la[i].term = lb[i].term => SubSeq(la, 1, i) = SubSeq(lb, 1, i)

\* The latest leader holds, at their indexes, all entries ever applied anywhere.
LeaderCompleteness ==
    \A n \in Node : LatestLeader(n) =>
        \A a \in applied :
            /\ a[1] \in DOMAIN FullLog(node[n])
            /\ FullLog(node[n])[a[1]] = a[2]

\* All state machines apply the same entry at the same index, across crashes,
\* snapshots and membership changes.
StateMachineSafety ==
    \A a, b \in applied : a[1] = b[1] => a[2] = b[2]

\* handle_append_entries never reaches its assertion "asked to truncate
\* committed entry": no deliverable request conflicts with a committed entry.
NeverTruncatesCommitted ==
    \A m \in msgs :
        LET s == node[m.to] IN
        /\ m.type = "AppendEntries"
        /\ m.term >= s.term
        /\ PrevMatches(s, m)
        /\ Conflicts(s, m)
        => m.prevIndex + Min(Missing(s, m)) > s.commitIndex

\* What the leader believes a peer holds (match_index, which commits are
\* counted from) the peer does hold on disk, as long as it is in this term.
MatchIsTruthful ==
    \A n, p \in Node :
        IsLeader(node[n]) /\ node[p].term = node[n].term =>
            LET matched == node[n].role.match[p] IN
            /\ matched <= Len(FullLog(node[p]))
            /\ matched <= Len(FullLog(node[n]))
            /\ SubSeq(FullLog(node[p]), 1, matched) = SubSeq(FullLog(node[n]), 1, matched)

\* What a node has applied never leaves its disk: not by truncation, compaction,
\* or the installation of a snapshot that comes late or again
\* (handle_append_entries, maybe_compact, handle_install_snapshot).
AppliedIsDurable ==
    [][\A n \in Node : PrefixOf(node[n].sm, FullLog(node'[n]))]_vars
-----------------------------------------------------------------------------
(* Snapshots.                                                              *)

LatestConfig(entries) ==
    IF ConfigPositions(entries) = {} THEN Nil
    ELSE entries[Max(ConfigPositions(entries))].cmd.members

\* A snapshot, installed, taken or still staged, is exactly the state at its
\* boundary: its state, term and membership are those of the prefix it
\* replaces (maybe_compact captures at last_applied, membership included).
SnapshotExact ==
    \A n \in Node :
        LET s == node[n] IN
        /\ Len(s.sm) = s.lastApplied
        /\ Len(s.snap.state) = s.snap.index
        /\ PrefixOf(s.snap.state, s.sm)
        /\ s.snap.members = LatestConfig(s.snap.state)
        /\ s.snap.index > 0 => s.snap.term = s.snap.state[s.snap.index].term
        /\ s.staged # Nil =>
              /\ Len(s.staged.state) = s.staged.index
              /\ PrefixOf(s.staged.state, s.sm)
              /\ s.staged.members = LatestConfig(s.staged.state)
-----------------------------------------------------------------------------
(* Membership.                                                             *)

\* The configuration a node acts on is always the one its durable log and
\* snapshot give: no phantom member survives a truncation, and a restart
\* derives what the node knew (the promise of derive_membership's comment).
MembershipDerived ==
    \A n \in Node : node[n].members = DeriveMembership(n, node[n]).members
-----------------------------------------------------------------------------
(* Clients.                                                                *)

\* A write that was acknowledged is applied under its term and is held by
\* every later leader.
AckedWritesSurvive ==
    \A n \in Node : \A o \in node[n].told :
        o.committed =>
            /\ \E a \in applied : a[1] = o.index /\ a[2].term = o.term
            /\ \A l \in Node : LatestLeader(l) =>
                  /\ o.index \in DOMAIN FullLog(node[l])
                  /\ FullLog(node[l])[o.index].term = o.term

\* A proposal whose waiter was told "false" is never applied: the doc of
\* Proposal.committed says that it "can never commit as proposed".
RejectedNeverApplied ==
    \A n \in Node : \A o \in node[n].told :
        ~o.committed => \A a \in applied : ~(a[1] = o.index /\ a[2].term = o.term)

\* A granted linearizable read sees every write that any node had applied when
\* the read was registered, deposed leaders and fresh leaders included.
ReadsFresh ==
    \A n \in Node : \A g \in node[n].granted : g.at >= g.floor
=============================================================================

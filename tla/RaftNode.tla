------------------------------ MODULE RaftNode ------------------------------
(***************************************************************************)
(* The consensus core of rustKV: RaftNode in src/raft/node.rs, one         *)
(* single-threaded event loop per node, over an asynchronous network.      *)
(*                                                                         *)
(* One action is one turn of the event loop, with everything the handler   *)
(* calls: step-down, membership adoption, commit advancement, application, *)
(* settling of waiters and compaction.  The helpers of the source that     *)
(* mutate the node are functions from node records to node records here,   *)
(* composed in the order in which the source calls them.                   *)
(*                                                                         *)
(* Network.  msgs is the set of messages in flight.  A message may be lost *)
(* when it is sent, delayed, overtaken, and delivered again any number of  *)
(* times.  A reply carries the tags the sending task keeps next to the     *)
(* request (sent_term, sent_prev_index, ...).                              *)
(*                                                                         *)
(* Time.  A deadline may pass at any moment.  "Heard within the window"    *)
(* tests on clocks are nondeterministic where both answers are possible.   *)
(***************************************************************************)
EXTENDS RaftLog, FiniteSets, FiniteSetsExt

CONSTANTS
    Node,               \* every process that may ever run
    Bootstrap,          \* configured members; the others start in join mode
    Value,              \* client commands (Put and Delete alike)
    Configs,            \* memberships an administrator may propose
    SnapshotThreshold,  \* config.snapshot_threshold, 0 standing for None
    SnapshotTrailing,   \* config.snapshot_trailing
    Campaigners,        \* bound: the nodes whose election timer may fire
    MaxTerm,            \* bound: no pre-campaign starts at this term
    MaxIndex,           \* bound: no proposal is accepted beyond this index
    MaxReads,           \* bound: linearizable reads per leadership
    MaxCrashes,         \* bound: crashes in a behaviour
    MaxInFlight,        \* bound: messages in flight at any time
    Reliable            \* TRUE: the network takes every message, once

ASSUME BootstrapAssumption == Bootstrap \subseteq Node /\ IsFiniteSet(Node)
ASSUME NilAssumption == Nil \notin Node /\ \A S \in SUBSET Node : Nil # S
ASSUME ConfigsAssumption == Configs \subseteq SUBSET Node
ASSUME BoundAssumption ==
    /\ SnapshotThreshold \in Nat /\ SnapshotTrailing \in Nat
    /\ MaxTerm \in Nat /\ MaxIndex \in Nat /\ MaxReads \in Nat /\ MaxCrashes \in Nat
    /\ MaxInFlight \in Nat /\ Reliable \in BOOLEAN

VARIABLES
    node,       \* node[n]: the state of process n, durable and volatile
    msgs,       \* the messages in flight
    ballots,    \* history: every vote ever made durable
    elected,    \* history: every leadership ever assumed
    applied,    \* history: every <<index, entry>> any state machine ever held
    crashes     \* number of crashes so far

vars == <<node, msgs, ballots, elected, applied, crashes>>
-----------------------------------------------------------------------------
(* Commands and log entries.                                               *)

Noop == [op |-> "noop"]
Write(v) == [op |-> "write", value |-> v]
ConfigChange(m) == [op |-> "config", members |-> m]

Entry(t, c) == [term |-> t, cmd |-> c]

(***************************************************************************)
(* Roles (enum Role).  Absent keys of the leader's maps are 0, except that *)
(* an absent acked_seq is -1: sequence number 0 is a real acknowledgement. *)
(***************************************************************************)
Follower == [kind |-> "follower"]
PreCandidate(votes) == [kind |-> "precandidate", votes |-> votes]
Candidate(votes) == [kind |-> "candidate", votes |-> votes]
Leader(next, peers) ==
    [kind      |-> "leader",
     next      |-> [p \in Node |-> IF p \in peers THEN next ELSE 0],
     match     |-> [p \in Node |-> 0],
     termStart |-> next,
     seq       |-> 0,
     acked     |-> [p \in Node |-> -1],
     departing |-> [p \in Node |-> 0],   \* index of the entry that removes p
     reads     |-> {}]

IsLeader(s) == s.role.kind = "leader"

\* Mutant: half of the members passes for a majority.
Majority_HalfOf(members) == Cardinality(members) \div 2

\* Strict majority of a configuration.
Majority(members) == Cardinality(members) \div 2 + 1

Peers(n, s) == s.members \ {n}

\* Mutant: a removed peer is cut off at once.
ReplicationTargets_MembersOnly(n, s) == Peers(n, s)

\* AppendEntries fan-out: members, and removed peers still owed their removal.
ReplicationTargets(n, s) ==
    Peers(n, s) \cup
    (IF IsLeader(s) THEN {p \in Node : s.role.departing[p] > 0} ELSE {})
-----------------------------------------------------------------------------
(* Membership (section 4.1 of the Raft dissertation).                      *)

ConfigPositions(log) == {k \in DOMAIN log : log[k].cmd.op = "config"}

\* Latest ConfigChange in the retained log, else the snapshot's membership,
\* else the node's own configuration (empty in join mode).
DeriveMembership(n, s) ==
    LET positions == ConfigPositions(s.log) IN
    IF positions # {}
    THEN [members |-> s.log[Max(positions)].cmd.members,
          index   |-> s.snap.index + Max(positions)]
    ELSE IF s.snap.members # Nil
    THEN [members |-> s.snap.members, index |-> s.snap.index]
    ELSE [members |-> IF n \in Bootstrap THEN Bootstrap ELSE {}, index |-> 0]

\* The membership a snapshot at index i carries; Nil while bootstrap-derived.
MembershipAt(s, i) ==
    LET positions == {k \in ConfigPositions(s.log) : s.snap.index + k <= i} IN
    IF positions # {} THEN s.log[Max(positions)].cmd.members ELSE s.snap.members

\* A leader owes every peer that the new configuration drops its removal entry.
AdoptMembership(n, s, members, index) ==
    LET owed == [p \in Node |-> IF p \in members THEN 0
                                ELSE IF p \in Peers(n, s) THEN index
                                ELSE s.role.departing[p]]
    IN  [s EXCEPT !.members = members,
                  !.membersIndex = index,
                  !.role = IF IsLeader(s) THEN [s.role EXCEPT !.departing = owed] ELSE @]

RescanMembership(n, s) ==
    LET derived == DeriveMembership(n, s)
    IN  AdoptMembership(n, s, derived.members, derived.index)
-----------------------------------------------------------------------------
(* Step-down: drops the role with its votes, bookkeeping and pending reads. *)

\* Mutant: the hint of the old term survives the step-down.
BecomeFollower_KeepsHint(s, term, leader) ==
    [s EXCEPT !.term = term,
              !.votedFor = IF term > s.term THEN Nil ELSE @,
              !.role = Follower,
              !.leaderId = IF leader = Nil THEN @ ELSE leader]

BecomeFollower(s, term, leader) ==
    [s EXCEPT !.term = term,
              !.votedFor = IF term > s.term THEN Nil ELSE @,
              !.role = Follower,
              !.leaderId = leader]
-----------------------------------------------------------------------------
(***************************************************************************)
(* Applying committed entries.  told and granted are the answers given to  *)
(* local clients: outcomes of proposals and granted reads.                 *)
(***************************************************************************)
Outcome(p, committed) == [term |-> p.term, index |-> p.index, committed |-> committed]

ResolvePending(s) ==
    LET replaced  == {p \in s.pending : TermAt(s, p.index) # p.term}
        committed == {p \in s.pending \ replaced : p.index <= s.commitIndex}
    IN  [s EXCEPT !.pending = @ \ (replaced \cup committed),
                  !.told = @ \cup {Outcome(p, FALSE) : p \in replaced}
                             \cup {Outcome(p, TRUE) : p \in committed}]

\* Current members whose answers confirm a read, the leader itself included.
ReadAcks(n, s, r) ==
    {p \in s.members : p = n \/ s.role.acked[p] >= r.neededSeq}

ReadServable(n, s, r) ==
    /\ Cardinality(ReadAcks(n, s, r)) >= Majority(s.members)
    /\ s.lastApplied >= r.readIndex

ResolveReads(n, s) ==
    IF ~IsLeader(s) THEN s
    ELSE LET servable == {r \in s.role.reads : ReadServable(n, s, r)}
         IN  [s EXCEPT !.role = [s.role EXCEPT !.reads = @ \ servable],
                       !.granted = @ \cup {[floor |-> r.floor, at |-> s.lastApplied]
                                           : r \in servable}]

\* A capture that an installed snapshot has overtaken is discarded.
LiveStage(s) ==
    IF s.staged # Nil /\ s.staged.index <= s.snap.index THEN Nil ELSE s.staged

\* Mutant: the snapshot carries the configuration in effect, committed or not.
Stage_CurrentMembers(s) ==
    IF LiveStage(s) = Nil /\ s.lastApplied - s.snap.index >= SnapshotThreshold
    THEN [index |-> s.lastApplied, state |-> s.sm, members |-> s.members]
    ELSE LiveStage(s)

\* The state is captured at last_applied, and only there.
Stage(s) ==
    IF LiveStage(s) = Nil /\ s.lastApplied - s.snap.index >= SnapshotThreshold
    THEN [index |-> s.lastApplied, state |-> s.sm,
          members |-> MembershipAt(s, s.lastApplied)]
    ELSE LiveStage(s)

\* The log is cut only once the capture is SnapshotTrailing entries behind.
MaybeCompact(s) ==
    IF SnapshotThreshold = 0 THEN s
    ELSE IF Stage(s) # Nil /\ s.lastApplied - Stage(s).index >= SnapshotTrailing
    THEN [CompactTo(s, Stage(s)) EXCEPT !.staged = Nil]
    ELSE [s EXCEPT !.staged = Stage(s)]

ApplyEntries(s) ==
    [s EXCEPT !.lastApplied = s.commitIndex,
              !.sm = @ \o SubSeq(s.log, Pos(s, s.lastApplied) + 1,
                                        Pos(s, s.commitIndex))]

ApplyCommitted(n, s) ==
    MaybeCompact(ResolveReads(n, ResolvePending(ApplyEntries(s))))

\* Mutant: off by one in the sorted match indexes.
CommitCandidate_OneShort(n, s) ==
    LET held == [p \in s.members |-> IF p = n THEN LastIndex(s) ELSE s.role.match[p]]
        quorumHolds(i) == Cardinality({p \in s.members : held[p] >= i}) >= Majority(s.members) - 1
    IN  Max({i \in {held[p] : p \in s.members} : quorumHolds(i)})

\* The highest index that a majority of the current members is known to hold.
\* The leader counts its own log only while it is a member.
CommitCandidate(n, s) ==
    LET held == [p \in s.members |-> IF p = n THEN LastIndex(s) ELSE s.role.match[p]]
        quorumHolds(i) == Cardinality({p \in s.members : held[p] >= i}) >= Majority(s.members)
    IN  Max({i \in {held[p] : p \in s.members} : quorumHolds(i)})

\* Commit only entries of the current term (section 5.4.2 of the Raft paper).
AdvanceCommit(n, s) ==
    LET i == CommitCandidate(n, s) IN
    IF i > s.commitIndex /\ TermAt(s, i) = s.term
    THEN ApplyCommitted(n, [s EXCEPT !.commitIndex = i])
    ELSE s

\* A leader that removed itself steps down once the removal is committed.
StepDownIfRemoved(n, s) ==
    IF n \notin s.members /\ s.commitIndex >= s.membersIndex
    THEN BecomeFollower(s, s.term, Nil)
    ELSE s

MaybeAdvanceCommit(n, s) ==
    IF IsLeader(s) /\ s.members # {}
    THEN StepDownIfRemoved(n, AdvanceCommit(n, s))
    ELSE s
-----------------------------------------------------------------------------
(* Messages.                                                               *)

VoteRequest(type, n, s, term, p) ==
    [type |-> type, from |-> n, to |-> p, term |-> term,
     lastTerm |-> LastTerm(s), lastIndex |-> LastIndex(s)]

\* Mutant: off by one at the boundary.
NeedsSnapshot_BelowBoundary(s, next) == next < s.snap.index

\* The entry before next is no longer known: only a snapshot can help the peer.
NeedsSnapshot(s, next) == next <= s.snap.index

\* Entries from the peer's next_index, or the snapshot when they are compacted.
SendAppend(n, s, p) ==
    LET next == IF s.role.next[p] = 0 THEN LastIndex(s) + 1 ELSE s.role.next[p]
    IN  IF ~IsLeader(s) \/ p \notin ReplicationTargets(n, s) THEN {}
        ELSE IF NeedsSnapshot(s, next)
        THEN {[type |-> "InstallSnapshot", from |-> n, to |-> p, term |-> s.term,
               snap |-> s.snap]}
        ELSE {[type |-> "AppendEntries", from |-> n, to |-> p, term |-> s.term,
               prevIndex |-> next - 1, prevTerm |-> TermAt(s, next - 1),
               entries |-> EntriesFrom(s, next), commit |-> s.commitIndex,
               seq |-> s.role.seq]}

FanOut(n, s, targets) == UNION {SendAppend(n, s, p) : p \in targets}

\* What a node asks its peers for after an election step.
Solicit(n, s) ==
    CASE s.role.kind = "precandidate" ->
            {VoteRequest("PreVote", n, s, s.term + 1, p) : p \in Peers(n, s)}
      [] s.role.kind = "candidate" ->
            {VoteRequest("RequestVote", n, s, s.term, p) : p \in Peers(n, s)}
      [] s.role.kind = "leader" -> FanOut(n, s, ReplicationTargets(n, s))
      [] OTHER -> {}
-----------------------------------------------------------------------------
(* Elections.                                                              *)

HasMajority(s) == Cardinality(s.role.votes \cap s.members) >= Majority(s.members)

\* The no-op of the new term is appended and shipped by the first heartbeat.
MaybeBecomeLeader(n, s) ==
    IF ~HasMajority(s) THEN s
    ELSE MaybeAdvanceCommit(n,
           AppendEntries([s EXCEPT !.role = Leader(LastIndex(s) + 1, Peers(n, s)),
                                   !.leaderId = n],
                         <<Entry(s.term, Noop)>>))

\* Durable term bump and self-vote, reached only through a pre-vote majority.
MaybeStartElection(n, s) ==
    IF ~HasMajority(s) THEN s
    ELSE MaybeBecomeLeader(n, [s EXCEPT !.term = s.term + 1,
                                        !.votedFor = n,
                                        !.role = Candidate({n}),
                                        !.leaderId = Nil])
-----------------------------------------------------------------------------
(* Boot from durable state (RaftNode::spawn).                              *)

FreshDisk ==
    [term |-> 0, votedFor |-> Nil, snap |-> EmptySnapshot, log |-> << >>,
     role |-> Follower, leaderId |-> Nil, commitIndex |-> 0, lastApplied |-> 0,
     sm |-> << >>, pending |-> {}, staged |-> Nil, members |-> {}, membersIndex |-> 0,
     contacted |-> FALSE, told |-> {}, granted |-> {}]

\* Mutant: the vote is not part of the durable state.
Boot_ForgetsVote(n, s) ==
    [FreshDisk EXCEPT !.term = s.term, !.snap = s.snap, !.log = s.log,
                      !.commitIndex = s.snap.index, !.lastApplied = s.snap.index,
                      !.sm = s.snap.state, !.members = DeriveMembership(n, s).members,
                      !.membersIndex = DeriveMembership(n, s).index,
                      !.told = s.told, !.granted = s.granted]

Boot(n, s) ==
    LET derived == DeriveMembership(n, s)
    IN  [s EXCEPT !.role = Follower, !.leaderId = Nil,
                  !.commitIndex = s.snap.index, !.lastApplied = s.snap.index,
                  !.sm = s.snap.state, !.pending = {}, !.staged = Nil,
                  !.members = derived.members, !.membersIndex = derived.index,
                  !.contacted = FALSE]

Init ==
    /\ node = [n \in Node |-> Boot(n, FreshDisk)]
    /\ msgs = {}
    /\ ballots = {}
    /\ elected = {}
    /\ applied = {}
    /\ crashes = 0

\* The network takes some of the messages in out (the others are lost) and may
\* deliver the handled message again, unless it is assumed to be reliable.
Transmit(handled, out) ==
    \E sent \in SUBSET out, kept \in {msgs, msgs \ handled} :
        /\ Reliable => sent = out /\ kept = msgs \ handled
        /\ Cardinality(kept \cup sent) <= MaxInFlight
        /\ msgs' = kept \cup sent

\* Node n ends its turn in state s; the histories follow.
Become(n, s) ==
    /\ node' = [node EXCEPT ![n] = s]
    /\ ballots' = ballots \cup
         (IF s.votedFor = Nil THEN {}
          ELSE {[term |-> s.term, voter |-> n, candidate |-> s.votedFor]})
    /\ elected' = elected \cup
         (IF IsLeader(s) THEN {[term |-> s.term, leader |-> n]} ELSE {})
    /\ applied' = applied \cup {<<i, s.sm[i]>> : i \in DOMAIN s.sm}

\* A turn of the event loop that no message caused, and one that handles m.
Turn(n, s, out) == Become(n, s) /\ Transmit({}, out) /\ UNCHANGED crashes
Handle(m, s, out) == Become(m.to, s) /\ Transmit({m}, out) /\ UNCHANGED crashes
-----------------------------------------------------------------------------
(* Client requests (Control::Propose and Control::Read).                   *)

\* Appended durably, effective at once if a membership, committed at once if
\* this node is a majority, then replicated.
Propose(n, cmd) ==
    LET s == node[n]
        index == LastIndex(s) + 1
        appended == AppendEntries(s, <<Entry(s.term, cmd)>>)
        adopted == IF cmd.op = "config"
                   THEN AdoptMembership(n, appended, cmd.members, index)
                   ELSE appended
        waiting == [adopted EXCEPT !.pending = @ \cup {[term |-> s.term, index |-> index]}]
        done == MaybeAdvanceCommit(n, waiting)
    IN  /\ IsLeader(s)
        /\ index <= MaxIndex
        /\ Turn(n, done, FanOut(n, done, ReplicationTargets(n, done)))

ProposeWrite(n) == \E v \in Value : Propose(n, Write(v))

\* Mutant: a second change may start while the first is in flight.
ValidConfigChange_Stacked(n, s, new) ==
    /\ s.commitIndex >= s.role.termStart
    /\ new # {}
    /\ Cardinality(new \ s.members) + Cardinality(s.members \ new) = 1
    /\ Cardinality({p \in new : p = n \/ s.role.acked[p] >= 0}) >= Majority(new)

\* Admission of a membership change: the no-op of this term is committed, no
\* change is in flight, one member is added or removed, and a majority of the
\* new members has acknowledged this leadership (recently: the clock may also
\* refuse, which changes nothing).
ValidConfigChange(n, s, new) ==
    /\ s.commitIndex >= s.role.termStart
    /\ s.membersIndex <= s.commitIndex
    /\ new # {}
    /\ Cardinality(new \ s.members) + Cardinality(s.members \ new) = 1
    /\ Cardinality({p \in new : p = n \/ s.role.acked[p] >= 0}) >= Majority(new)

ProposeConfig(n) ==
    \E new \in Configs :
        /\ IsLeader(node[n])
        /\ ValidConfigChange(n, node[n], new)
        /\ Propose(n, ConfigChange(new))

\* The highest index any state machine has applied: every acknowledged write
\* is at or below it.
AppliedFrontier == Max({0} \cup {a[1] : a \in applied})

\* Mutant: a fresh leader serves reads below the no-op of its term.
ReadIndex_CommitOnly(s) == s.commitIndex

\* Never below this term's no-op.
ReadIndex(s) == Max({s.commitIndex, s.role.termStart})

\* Confirmed only by answers to messages sent after the registration.
Read(n) ==
    LET s == node[n]
        read == [neededSeq |-> s.role.seq + 1,
                 readIndex |-> ReadIndex(s),
                 floor |-> AppliedFrontier]
        registered == [s EXCEPT !.role = [s.role EXCEPT !.seq = @ + 1,
                                                   !.reads = @ \cup {read}]]
    IN  /\ IsLeader(s)
        /\ s.role.seq < MaxReads
        /\ Turn(n, ResolveReads(n, registered),
                FanOut(n, registered, Peers(n, registered)))
-----------------------------------------------------------------------------
(* Timers.                                                                 *)

\* A node outside its own configuration does not campaign (nor does one at the
\* bounds of the model).
MayCampaign(n) ==
    /\ n \in node[n].members
    /\ n \in Campaigners /\ node[n].term < MaxTerm

ElectionTimeout(n) ==
    LET s == [node[n] EXCEPT !.role = PreCandidate({n}), !.leaderId = Nil]
        done == MaybeStartElection(n, s)
    IN  /\ ~IsLeader(node[n])
        /\ MayCampaign(n)
        /\ Turn(n, done, Solicit(n, done))

\* The timer is re-armed and nothing else happens.
TimeoutIgnored(n) == ~IsLeader(node[n]) /\ ~MayCampaign(n) /\ UNCHANGED vars

HeartbeatTick(n) ==
    LET s == node[n] IN
    /\ IsLeader(s)
    /\ Turn(n, s, FanOut(n, s, ReplicationTargets(n, s)))

\* CheckQuorum: the tick finds that too few members answered within the window.
CheckQuorumFails(n) ==
    LET s == node[n] IN
    /\ IsLeader(s)
    /\ Cardinality(s.members \cap {n}) < Majority(s.members)
    /\ Turn(n, BecomeFollower(s, s.term, Nil), {})
-----------------------------------------------------------------------------
(* Inbound RPCs.  Every handler ends with a reply to the sender.           *)

VoteReply(type, m, s, granted) ==
    [type |-> type, from |-> m.to, to |-> m.from, term |-> s.term,
     sentTerm |-> m.term, granted |-> granted]

\* Term adoption of every RPC that comes from a peer with a newer term.
Observe(s, term, leader) == IF term > s.term THEN BecomeFollower(s, term, leader) ELSE s

HandleRequestVote(m) ==
    LET s == Observe(node[m.to], m.term, Nil)
        grant == /\ m.term = s.term
                 /\ s.votedFor \in {Nil, m.from}
                 /\ UpToDate(s, m.lastTerm, m.lastIndex)
        done == IF grant THEN [s EXCEPT !.votedFor = m.from] ELSE s
    IN  /\ m.type = "RequestVote"
        /\ Handle(m, done, {VoteReply("RequestVoteReply", m, done, grant)})

\* Non-binding: changes nothing.  A node that has heard a leader since it
\* started may or may not still consider it live.
HandlePreVote(m) ==
    LET s == node[m.to]
        eligible == m.term > s.term /\ UpToDate(s, m.lastTerm, m.lastIndex)
    IN  /\ m.type = "PreVote"
        /\ \E leaderIsLive \in (IF IsLeader(s) THEN {TRUE}
                                ELSE IF s.contacted THEN BOOLEAN ELSE {FALSE}) :
              Handle(m, s, {VoteReply("PreVoteReply", m, s, eligible /\ ~leaderIsLive)})

AppendReply(m, s, success) ==
    [type |-> "AppendReply", from |-> m.to, to |-> m.from, term |-> s.term,
     sentTerm |-> m.term, prevIndex |-> m.prevIndex, sent |-> Len(m.entries),
     seq |-> m.seq, success |-> success]

\* Mutant: the terms are not compared.
PrevMatches_IndexOnly(s, m) == m.prevIndex <= LastIndex(s)

\* An index below the boundary vacuously matches: compacted means committed.
PrevMatches(s, m) ==
    IF TermAt(s, m.prevIndex) # NoTerm THEN TermAt(s, m.prevIndex) = m.prevTerm
    ELSE m.prevIndex < s.snap.index

\* Positions in m.entries of what this log does not hold yet.
Missing(s, m) ==
    {k \in DOMAIN m.entries : /\ m.prevIndex + k > s.snap.index
                              /\ TermAt(s, m.prevIndex + k) # m.entries[k].term}

\* The first of them conflicts with the log rather than extending it.
Conflicts(s, m) ==
    Missing(s, m) # {} /\ HasEntry(s, m.prevIndex + Min(Missing(s, m)))

NewEntries(s, m) ==
    IF Missing(s, m) = {} THEN << >>
    ELSE SubSeq(m.entries, Min(Missing(s, m)), Len(m.entries))

\* Mutant: the truncated configuration stays in effect (a phantom member).
Truncated_NoRescan(n, s, m) ==
    IF ~Conflicts(s, m) THEN s
    ELSE ResolvePending(TruncateFrom(s, m.prevIndex + Min(Missing(s, m))))

\* Truncation settles the waiters of what it removes, and re-derives the
\* membership if the entry that put it in effect is gone.
Truncated(n, s, m) ==
    LET from == m.prevIndex + Min(Missing(s, m))
        cut == ResolvePending(TruncateFrom(s, from))
    IN  IF ~Conflicts(s, m) THEN s
        ELSE IF from <= s.membersIndex THEN RescanMembership(n, cut) ELSE cut

\* The newest configuration among the new entries takes effect on append.
Extended(n, s, entries) ==
    LET first == LastIndex(s) + 1
        positions == ConfigPositions(entries)
        longer == AppendEntries(s, entries)
    IN  IF positions = {} THEN longer
        ELSE AdoptMembership(n, longer, entries[Max(positions)].cmd.members,
                             first + Max(positions) - 1)

\* Commit only up to what this request verified.
Commit(n, s, m) ==
    LET new == Min({m.commit, m.prevIndex + Len(m.entries)})
    IN  IF new > s.commitIndex THEN ApplyCommitted(n, [s EXCEPT !.commitIndex = new])
        ELSE s

FollowLeader(s, m) ==
    [BecomeFollower(s, m.term, m.from) EXCEPT !.contacted = TRUE]

HandleAppendEntries(m) ==
    LET n == m.to
        s == FollowLeader(node[n], m)
        done == Commit(n, Extended(n, Truncated(n, s, m), NewEntries(s, m)), m)
    IN  /\ m.type = "AppendEntries"
        /\ IF m.term < node[n].term
           THEN Handle(m, node[n], {AppendReply(m, node[n], FALSE)})
           ELSE IF ~PrevMatches(s, m) THEN Handle(m, s, {AppendReply(m, s, FALSE)})
           ELSE Handle(m, done, {AppendReply(m, done, TRUE)})

InstallReply(m, s) ==
    [type |-> "InstallSnapshotReply", from |-> m.to, to |-> m.from, term |-> s.term,
     sentTerm |-> m.term, index |-> m.snap.index]

\* Proposals at or below the boundary lose their waiter: no answer is given.
Installed(n, s, snap) ==
    LET restored == [InstallSnapshot(s, snap) EXCEPT !.sm = snap.state,
                                                     !.commitIndex = snap.index,
                                                     !.lastApplied = snap.index]
        scanned == RescanMembership(n, restored)
    IN  ResolvePending([scanned EXCEPT !.pending = {p \in @ : p.index > snap.index}])

\* Mutant: a delayed snapshot is installed again.
AlreadyHeld_Never(s, snap) == FALSE

\* The idempotence guard: everything through the boundary is committed here.
AlreadyHeld(s, snap) == snap.index <= s.commitIndex

HandleInstallSnapshot(m) ==
    LET n == m.to
        s == FollowLeader(node[n], m)
        done == IF AlreadyHeld(s, m.snap) THEN s ELSE Installed(n, s, m.snap)
    IN  /\ m.type = "InstallSnapshot"
        /\ IF m.term < node[n].term
           THEN Handle(m, node[n], {InstallReply(m, node[n])})
           ELSE Handle(m, done, {InstallReply(m, done)})
-----------------------------------------------------------------------------
(* Replies to outbound RPCs (handle_event).                                *)

\* A reply with a newer term deposes, whatever it answers.
Depose(m) ==
    /\ m.term > node[m.to].term
    /\ Handle(m, BecomeFollower(node[m.to], m.term, Nil), {})

Voted(s, voter) == [s EXCEPT !.role = [s.role EXCEPT !.votes = @ \cup {voter}]]

\* A grant counts for the pre-campaign it was asked for, not a later one.
CountPreVote(m) ==
    LET s == node[m.to]
        voted == Voted(s, m.from)
        done == MaybeStartElection(m.to, voted)
    IN  /\ m.term <= s.term
        /\ m.sentTerm = s.term + 1 /\ m.granted
        /\ s.role.kind = "precandidate"
        /\ Handle(m, done, IF HasMajority(voted) THEN Solicit(m.to, done) ELSE {})

HandlePreVoteReply(m) ==
    /\ m.type = "PreVoteReply"
    /\ Depose(m) \/ CountPreVote(m)

CountVote(m) ==
    LET s == node[m.to]
        voted == Voted(s, m.from)
        done == MaybeBecomeLeader(m.to, voted)
    IN  /\ m.term <= s.term
        /\ m.sentTerm = s.term /\ m.granted
        /\ s.role.kind = "candidate"
        /\ Handle(m, done, IF HasMajority(voted) THEN Solicit(m.to, done) ELSE {})

HandleVoteReply(m) ==
    /\ m.type = "RequestVoteReply"
    /\ Depose(m) \/ CountVote(m)

Larger(i, j) == IF i > j THEN i ELSE j
Smaller(i, j) == IF i < j THEN i ELSE j

\* Any answer at this term acknowledges the authority the request was sent with.
Acked(role, m) == [role EXCEPT !.acked[m.from] = Larger(Larger(@, 0), m.seq)]

\* A peer that holds its own removal is no longer owed anything.
Departed(role, p, held) ==
    IF role.departing[p] > 0 /\ held >= role.departing[p]
    THEN [role EXCEPT !.departing[p] = 0] ELSE role

\* Mutant: off by one in what the peer confirmed.
Confirmed_OffByOne(role, m) ==
    LET upto == m.prevIndex + m.sent + 1
    IN  IF upto > role.match[m.from]
        THEN [role EXCEPT !.match[m.from] = upto, !.next[m.from] = upto + 1]
        ELSE role

\* max(), because answers can arrive reordered.
Confirmed(role, m) ==
    LET upto == m.prevIndex + m.sent
        moved == IF upto > role.match[m.from]
                 THEN [role EXCEPT !.match[m.from] = upto, !.next[m.from] = upto + 1]
                 ELSE role
    IN  Departed(moved, m.from, moved.match[m.from])

\* Push on only while the answer moved the peer forward and it is not departed.
StillBehind(s, m, role) ==
    /\ m.prevIndex + m.sent > s.role.match[m.from]
    /\ m.prevIndex + m.sent < LastIndex(s)
    /\ (s.role.departing[m.from] > 0 => role.departing[m.from] > 0)

\* Mutant: the peer is asked for the same entry again.
Rejected_NoBacktrack(role, m) == role

Rejected(role, m) ==
    [role EXCEPT !.next[m.from] = Smaller(Larger(@, 1), Larger(m.prevIndex, 1))]

AcceptedBy(m) ==
    LET n == m.to
        s == node[n]
        role == Confirmed(Acked(s.role, m), m)
        done == ResolveReads(n, MaybeAdvanceCommit(n, [s EXCEPT !.role = role]))
    IN  /\ m.success
        /\ Handle(m, done, IF StillBehind(s, m, role) THEN SendAppend(n, done, m.from) ELSE {})

RejectedBy(m) ==
    LET n == m.to
        done == ResolveReads(n, [node[n] EXCEPT !.role = Rejected(Acked(@, m), m)])
    IN  /\ ~m.success
        /\ Handle(m, done, SendAppend(n, done, m.from))

AnswersThisLeadership(m) ==
    /\ m.term <= node[m.to].term
    /\ m.sentTerm = node[m.to].term
    /\ IsLeader(node[m.to])

HandleAppendReply(m) ==
    /\ m.type = "AppendReply"
    /\ Depose(m) \/ (AnswersThisLeadership(m) /\ (AcceptedBy(m) \/ RejectedBy(m)))

\* Deliberately no acknowledgement for reads: only AppendEntries answers count.
SnapshotHeld(role, m) ==
    Departed([role EXCEPT !.match[m.from] = Larger(@, m.index),
                          !.next[m.from] = Larger(@, m.index + 1)],
             m.from, m.index)

InstalledBy(m) ==
    LET n == m.to
        s == node[n]
        done == MaybeAdvanceCommit(n, [s EXCEPT !.role = SnapshotHeld(@, m)])
    IN  Handle(m, done, IF m.index < LastIndex(s) THEN SendAppend(n, done, m.from) ELSE {})

HandleInstallReply(m) ==
    /\ m.type = "InstallSnapshotReply"
    /\ Depose(m) \/ (AnswersThisLeadership(m) /\ InstalledBy(m))
-----------------------------------------------------------------------------
(***************************************************************************)
(* Crashes.  A handler's disk writes are ordered and each is atomic except *)
(* the append of a batch, of which any prefix may survive.  A crash right  *)
(* after the last write of a handler is that handler's action followed by  *)
(* Restart, with the messages lost.                                        *)
(***************************************************************************)
CrashTo(n, durable) ==
    /\ crashes < MaxCrashes
    /\ crashes' = crashes + 1
    /\ Become(n, Boot(n, durable))
    /\ UNCHANGED msgs

Restart(n) == CrashTo(n, node[n])

Requests == {"RequestVote", "AppendEntries", "InstallSnapshot"}

\* The newer term is on disk; the vote, entries or snapshot are not.
CrashAfterTerm(m) ==
    /\ m.type \in Requests
    /\ m.term > node[m.to].term
    /\ CrashTo(m.to, BecomeFollower(node[m.to], m.term, Nil))

\* The conflicting suffix is gone and a prefix of the batch is there; with the
\* whole batch there, the compaction of the same handler has not happened.
CrashInAppend(m) ==
    LET n == m.to
        s == FollowLeader(node[n], m)
    IN  /\ m.type = "AppendEntries"
        /\ m.term >= node[n].term
        /\ PrevMatches(s, m)
        /\ NewEntries(s, m) # << >>
        /\ \E k \in 0 .. Len(NewEntries(s, m)) :
              CrashTo(n, AppendEntries(Truncated(n, s, m), SubSeq(NewEntries(s, m), 1, k)))

\* The snapshot file is replaced, the log file is not.
CrashInInstall(m) ==
    LET n == m.to
        s == FollowLeader(node[n], m)
    IN  /\ m.type = "InstallSnapshot"
        /\ m.term >= node[n].term
        /\ ~AlreadyHeld(s, m.snap)
        /\ CrashTo(n, ReopenAfterSnapshotOnly(s, m.snap))
-----------------------------------------------------------------------------
Receive(m) ==
    \/ HandlePreVote(m)
    \/ HandleRequestVote(m)
    \/ HandleAppendEntries(m)
    \/ HandleInstallSnapshot(m)
    \/ HandlePreVoteReply(m)
    \/ HandleVoteReply(m)
    \/ HandleAppendReply(m)
    \/ HandleInstallReply(m)

Crash ==
    \/ \E n \in Node : Restart(n)
    \/ \E m \in msgs : CrashAfterTerm(m) \/ CrashInAppend(m) \/ CrashInInstall(m)

Next ==
    \/ \E n \in Node :
          \/ ElectionTimeout(n)
          \/ TimeoutIgnored(n)
          \/ HeartbeatTick(n)
          \/ CheckQuorumFails(n)
          \/ ProposeWrite(n)
          \/ ProposeConfig(n)
          \/ Read(n)
    \/ \E m \in msgs : Receive(m)
    \/ Crash

Spec == Init /\ [][Next]_vars
=============================================================================

-------------------------- MODULE RaftActionProofs --------------------------
(***************************************************************************)
(* Every action of RaftNode keeps the election invariant: one lemma for    *)
(* each timer, client request, RPC handler, reply handler and crash.       *)
(***************************************************************************)
EXTENDS RaftTurnProofs

-----------------------------------------------------------------------------
(* The actions: timers and client requests.                                *)

LEMMA ElectionTimeoutStep ==
    ASSUME ElectionInv, NEW n \in Node, ElectionTimeout(n)
    PROVE  ElectionInv'
<1> DEFINE p == [node[n] EXCEPT !.role = PreCandidate({n}), !.leaderId = Nil]
           s == MaybeStartElection(n, p)
<1>1. Shape(node[n])
  BY InvShapes
<1>2. Turn(n, s, Solicit(n, s))
  BY DEF ElectionTimeout
<1>3. /\ Shape(p) /\ p.term = node[n].term /\ p.votedFor = node[n].votedFor
      /\ p.role.kind = "precandidate" /\ p.leaderId = Nil
  BY <1>1 DEF Shape, NodeFields, RoleShape, PreCandidate
<1> HIDE DEF p
<1>4. s = MaybeStartElection(n, p)
  OBVIOUS
<1> HIDE DEF s
<1>5. Become(n, s)
  BY <1>2 DEF Turn
<1>6. Fine(n, s, ballots', elected')
  BY <1>3, <1>4, <1>5, CampaignIsFine
<1>7. Shape(s)
  BY <1>6 DEF Fine
<1>8. \A m \in Solicit(n, s) : GoodMessage(m, ballots', elected')
  BY <1>5, <1>7, SolicitType, OutgoingIsGood
<1> QED BY <1>2, <1>6, <1>8, TurnStep

\* A turn that keeps what elections look at and replicates.
LEMMA ReplicatingTurn ==
    ASSUME ElectionInv, NEW n \in Node, NEW s, Kept(node[n], s),
           NEW targets \in SUBSET Node, Turn(n, s, FanOut(n, s, targets))
    PROVE  ElectionInv'
<1>1. Become(n, s) /\ Shape(s)
  BY DEF Turn, Kept
<1>2. Fine(n, s, ballots', elected')
  BY <1>1, KeptIsFine
<1>3. \A m \in FanOut(n, s, targets) : GoodMessage(m, ballots', elected')
  BY <1>1, FanOutType, OutgoingIsGood
<1> QED BY <1>2, <1>3, TurnStep

LEMMA HeartbeatStep ==
    ASSUME ElectionInv, NEW n \in Node, HeartbeatTick(n)
    PROVE  ElectionInv'
<1>1. Shape(node[n]) /\ Kept(node[n], node[n])
  BY InvShapes, QuietReflexive
<1>2. ReplicationTargets(n, node[n]) \in SUBSET Node
  BY <1>1, TargetsAreNodes
<1> QED BY <1>1, <1>2, ReplicatingTurn DEF HeartbeatTick

LEMMA CheckQuorumStep ==
    ASSUME ElectionInv, NEW n \in Node, CheckQuorumFails(n)
    PROVE  ElectionInv'
<1> DEFINE s == BecomeFollower(node[n], node[n].term, Nil)
<1>1. Shape(node[n]) /\ node[n].term \in Nat
  BY InvShapes
<1>2. Turn(n, s, {}) /\ Become(n, s)
  BY DEF CheckQuorumFails, Turn
<1>3. Kept(s, s)
  BY <1>1, BecomeFollowerType, QuietReflexive
<1>4. Fine(n, s, ballots', elected')
  BY <1>1, <1>2, <1>3, DeposedIsFine
<1> HIDE DEF s
<1> QED BY <1>2, <1>4, TurnStep

LEMMA ProposeStep ==
    ASSUME ElectionInv, NEW n \in Node, NEW cmd \in Command, Propose(n, cmd)
    PROVE  ElectionInv'
<1> DEFINE s == node[n]
           index == LastIndex(s) + 1
           batch == <<Entry(s.term, cmd)>>
           appended == AppendEntries(s, batch)
           adopted == IF cmd.op = "config"
                      THEN AdoptMembership(n, appended, cmd.members, index)
                      ELSE appended
           waiters == adopted.pending \cup {[term |-> s.term, index |-> index]}
           waiting == [adopted EXCEPT !.pending = waiters]
           done == MaybeAdvanceCommit(n, waiting)
<1>1. Shape(s) /\ s.term \in Nat
  BY InvShapes
<1>2. Turn(n, done, FanOut(n, done, ReplicationTargets(n, done)))
  BY DEF Propose
<1>3. batch \in Seq(LogEntry) /\ index \in Nat
  BY <1>1, LastIndexType DEF Entry, LogEntry
<1>4. cmd.op = "config" => cmd.members \in Membership
  BY DEF Command, Noop, Write, Membership
<1> HIDE DEF batch, index, waiters, s
<1>5. Kept(s, appended)
  BY <1>1, <1>3, AppendKeeps
<1> HIDE DEF appended
<1>6. Kept(appended, adopted)
  BY <1>3, <1>4, <1>5, AdoptKeeps, QuietReflexive DEF Kept
<1> HIDE DEF adopted
<1>7. Kept(adopted, waiting)
  BY <1>6 DEF Kept, Quiet, Shape, NodeFields
<1> HIDE DEF waiting
<1>8. Kept(waiting, done)
  BY <1>7, MaybeAdvanceKeeps DEF Kept
<1> HIDE DEF done
<1>9. Kept(node[n], done)
  BY <1>5, <1>6, <1>7, <1>8, QuietTransitive DEF s
<1>10. ReplicationTargets(n, done) \in SUBSET Node
  BY <1>9, TargetsAreNodes DEF Kept
<1> QED BY <1>2, <1>9, <1>10, ReplicatingTurn

LEMMA ReadStep ==
    ASSUME ElectionInv, NEW n \in Node, Read(n)
    PROVE  ElectionInv'
<1> DEFINE s == node[n]
           read == [neededSeq |-> s.role.seq + 1, readIndex |-> ReadIndex(s),
                    floor |-> AppliedFrontier]
           role == [s.role EXCEPT !.seq = s.role.seq + 1, !.reads = s.role.reads \cup {read}]
           registered == [s EXCEPT !.role = role]
           done == ResolveReads(n, registered)
<1>1. Shape(s) /\ IsLeader(s)
  BY InvShapes DEF Read
<1>2. Turn(n, done, FanOut(n, registered, Peers(n, registered)))
  BY DEF Read
<1> HIDE DEF read, s
<1>3. LeaderShape(role)
  <2>1. LeaderShape(s.role)
    BY <1>1, RoleKinds DEF IsLeader, Shape
  <2> QED BY <2>1 DEF LeaderShape, LeaderFields
<1> HIDE DEF role
<1>4. Kept(s, registered)
  BY <1>1, <1>3, RoleSwapKeeps
<1> HIDE DEF registered
<1>5. Kept(registered, done)
  BY <1>4, ResolveReadsKeeps DEF Kept
<1> HIDE DEF done
<1>6. Become(n, done) /\ Kept(node[n], done)
  BY <1>2, <1>4, <1>5, QuietTransitive DEF Turn, s
<1>7. Fine(n, done, ballots', elected')
  BY <1>6, KeptIsFine
<1>8. Shape(registered) /\ registered.term = node[n].term
  BY <1>4 DEF Kept, Quiet, s
<1>9. Leadership(registered.term, n) \in elected'
  BY <1>1, <1>6, <1>8, BecomeGrows DEF ElectionInv, GoodNode, s
<1>10. Peers(n, registered) \in SUBSET Node
  BY <1>8, TargetsAreNodes
<1>11. \A m \in FanOut(n, registered, Peers(n, registered)) :
          GoodMessage(m, ballots', elected')
  BY <1>8, <1>9, <1>10, FanOutType DEF Outgoing, GoodMessage
<1> QED BY <1>2, <1>7, <1>11, TurnStep
-----------------------------------------------------------------------------
(* The actions: inbound RPCs.                                              *)

LEMMA HandleRequestVoteStep ==
    ASSUME ElectionInv, NEW m \in msgs, HandleRequestVote(m)
    PROVE  ElectionInv'
<1> DEFINE n == m.to
           s == Observe(node[n], m.term, Nil)
           grant == /\ m.term = s.term
                    /\ s.votedFor \in {Nil, m.from}
                    /\ UpToDate(s, m.lastTerm, m.lastIndex)
           done == IF grant THEN [s EXCEPT !.votedFor = m.from] ELSE s
           reply == VoteReply("RequestVoteReply", m, done, grant)
<1>1. n \in Node /\ m.from \in Node /\ m.term \in Nat /\ Shape(node[n]) /\ node[n].term \in Nat
  BY InvShapes
<1>2. Handle(m, done, {reply}) /\ Become(n, done)
  BY DEF HandleRequestVote, Handle
<1>3. /\ Shape(s) /\ s.term \in Nat /\ Advances(node[n], s)
      /\ \/ s = node[n]
         \/ s.term = m.term /\ m.term > node[n].term /\ s.role = Follower /\ s.leaderId = Nil
  <2>1. CASE m.term > node[n].term
    BY <1>1, <2>1, BecomeFollowerType DEF Observe, Advances
  <2>2. CASE ~(m.term > node[n].term)
    BY <1>1, <2>2 DEF Observe, Advances
  <2> QED BY <2>1, <2>2
<1>4. grant => m.term = s.term /\ s.votedFor \in {Nil, m.from}
  OBVIOUS
<1> HIDE DEF grant, s
<1>5. /\ Shape(done) /\ done.term = s.term /\ done.role = s.role /\ done.leaderId = s.leaderId
      /\ done.votedFor = IF grant THEN m.from ELSE s.votedFor
  BY <1>1, <1>3 DEF Shape, NodeFields
<1> HIDE DEF done
<1>6. Advances(node[n], done)
  BY <1>1, <1>3, <1>4, <1>5, NilAssumption DEF Advances, Shape
<1>7. GoodNode(n, node[n], ballots, elected)
  BY <1>1 DEF ElectionInv
<1>8. /\ ballots \subseteq ballots' /\ elected \subseteq elected'
      /\ done.votedFor # Nil => Ballot(done.term, n, done.votedFor) \in ballots'
  BY <1>2, BecomeGrows
<1>9. Fine(n, done, ballots', elected')
  <2>1. CASE s = node[n]
    BY <1>5, <1>6, <1>7, <1>8, <2>1 DEF Fine, GoodNode, IsLeader
  <2>2. CASE s.role = Follower /\ s.leaderId = Nil
    BY <1>5, <1>6, <2>2 DEF Fine, IsLeader, Follower
  <2> QED BY <1>3, <2>1, <2>2
<1>10. GoodMessage(reply, ballots', elected')
  <2>1. grant => Ballot(m.term, n, m.from) \in ballots'
    BY <1>1, <1>4, <1>5, <1>8, NilAssumption
  <2>2. done.term \in Nat
    BY <1>3, <1>5
  <2> QED BY <1>1, <2>1, <2>2 DEF GoodMessage, MessageShape, VoteReply
<1> HIDE DEF reply
<1> QED BY <1>2, <1>9, <1>10, HandleStep

LEMMA HandlePreVoteStep ==
    ASSUME ElectionInv, NEW m \in msgs, HandlePreVote(m)
    PROVE  ElectionInv'
<1>1. /\ m.to \in Node /\ m.from \in Node /\ m.term \in Nat
      /\ Shape(node[m.to]) /\ node[m.to].term \in Nat
  BY InvShapes
<1>2. PICK g : Handle(m, node[m.to], {VoteReply("PreVoteReply", m, node[m.to], g)})
  BY DEF HandlePreVote
<1>3. Become(m.to, node[m.to]) /\ Kept(node[m.to], node[m.to])
  BY <1>1, <1>2, QuietReflexive DEF Handle
<1>4. Fine(m.to, node[m.to], ballots', elected')
  BY <1>1, <1>3, KeptIsFine
<1>5. GoodMessage(VoteReply("PreVoteReply", m, node[m.to], g), ballots', elected')
  BY <1>1 DEF GoodMessage, MessageShape, VoteReply
<1> QED BY <1>2, <1>4, <1>5, HandleStep

\* Answers to replication requests promise nothing to an election.
LEMMA ReplicaReplyIsGood ==
    ASSUME NEW m, MessageShape(m), NEW s, s.term \in Nat, NEW B, NEW E
    PROVE  /\ m.type = "AppendEntries" =>
                 \A ok : GoodMessage(AppendReply(m, s, ok), B, E)
           /\ m.type = "InstallSnapshot" => GoodMessage(InstallReply(m, s), B, E)
<1>1. CASE m.type = "AppendEntries"
  <2>1. Len(m.entries) \in Nat
    BY <1>1 DEF MessageShape
  <2> QED BY <1>1, <2>1, Zenon DEF GoodMessage, MessageShape, AppendReply
<1>2. CASE m.type = "InstallSnapshot"
  BY <1>2, Zenon DEF GoodMessage, MessageShape, InstallReply, SnapShape
<1> QED BY <1>1, <1>2

\* A request of an older term is answered and changes nothing.
LEMMA StaleRequestStep ==
    ASSUME ElectionInv, NEW m \in msgs, NEW r, Handle(m, node[m.to], {r}),
           GoodMessage(r, ballots', elected')
    PROVE  ElectionInv'
<1>1. m.to \in Node /\ Shape(node[m.to])
  BY InvShapes
<1>2. Become(m.to, node[m.to]) /\ Kept(node[m.to], node[m.to])
  BY <1>1, QuietReflexive DEF Handle
<1>3. Fine(m.to, node[m.to], ballots', elected')
  BY <1>1, <1>2, KeptIsFine
<1> QED BY <1>3, HandleStep

\* A request of this or a newer term was followed.
LEMMA FollowedStep ==
    ASSUME ElectionInv, NEW m \in msgs, m.type = "AppendEntries",
           m.term >= node[m.to].term,
           NEW s, Kept(FollowLeader(node[m.to], m), s),
           NEW ok, Handle(m, s, {AppendReply(m, s, ok)})
    PROVE  ElectionInv'
<1>1. Become(m.to, s)
  BY DEF Handle
<1>2. Fine(m.to, s, ballots', elected')
  BY <1>1, FollowingIsFine
<1>3. s.term \in Nat
  BY DEF Kept, Shape
<1>4. GoodMessage(AppendReply(m, s, ok), ballots', elected')
  BY <1>3, InvShapes, ReplicaReplyIsGood, Zenon
<1> QED BY <1>2, <1>4, HandleStep

LEMMA HandleAppendEntriesStep ==
    ASSUME ElectionInv, NEW m \in msgs, HandleAppendEntries(m)
    PROVE  ElectionInv'
<1> DEFINE n == m.to
           s == FollowLeader(node[n], m)
           done == Commit(n, Extended(n, Truncated(n, s, m), NewEntries(s, m)), m)
<1>1. n \in Node /\ MessageShape(m) /\ m.term \in Nat /\ Shape(node[n]) /\ node[n].term \in Nat
  BY InvShapes
<1>2. m.type = "AppendEntries"
  BY DEF HandleAppendEntries
<1>3. CASE m.term < node[n].term
  <2>1. Handle(m, node[n], {AppendReply(m, node[n], FALSE)})
    BY <1>3 DEF HandleAppendEntries
  <2>2. GoodMessage(AppendReply(m, node[n], FALSE), ballots', elected')
    BY <1>1, <1>2, ReplicaReplyIsGood, Zenon
  <2> QED BY <2>1, <2>2, StaleRequestStep, Zenon
<1>4. CASE ~(m.term < node[n].term)
  <2>1. Shape(s) /\ m.term >= node[n].term
    BY <1>1, <1>4, FollowLeaderType
  <2>2. Kept(s, s) /\ Kept(s, done)
    BY <1>1, <1>2, <2>1, QuietReflexive, AppendHandledKeeps
  <2>3. CASE ~PrevMatches(s, m)
    <3>1. Handle(m, s, {AppendReply(m, s, FALSE)})
      BY <1>4, <2>3, Zenon DEF HandleAppendEntries
    <3> QED BY <1>2, <2>1, <2>2, <3>1, FollowedStep, Zenon
  <2>4. CASE PrevMatches(s, m)
    <3>1. Handle(m, done, {AppendReply(m, done, TRUE)})
      BY <1>4, <2>4, Zenon DEF HandleAppendEntries
    <3> HIDE DEF done
    <3> QED BY <1>2, <2>1, <2>2, <3>1, FollowedStep, Zenon
  <2> QED BY <2>3, <2>4
<1> QED BY <1>3, <1>4

LEMMA HandleInstallSnapshotStep ==
    ASSUME ElectionInv, NEW m \in msgs, HandleInstallSnapshot(m)
    PROVE  ElectionInv'
<1> DEFINE n == m.to
           s == FollowLeader(node[n], m)
           done == IF AlreadyHeld(s, m.snap) THEN s ELSE Installed(n, s, m.snap)
<1>1. n \in Node /\ MessageShape(m) /\ m.term \in Nat /\ Shape(node[n]) /\ node[n].term \in Nat
  BY InvShapes
<1>2. m.type = "InstallSnapshot" /\ SnapShape(m.snap)
  BY <1>1 DEF HandleInstallSnapshot, MessageShape
<1>3. CASE m.term < node[n].term
  <2>1. Handle(m, node[n], {InstallReply(m, node[n])})
    BY <1>3 DEF HandleInstallSnapshot
  <2>2. GoodMessage(InstallReply(m, node[n]), ballots', elected')
    BY <1>1, <1>2, ReplicaReplyIsGood
  <2> QED BY <2>1, <2>2, StaleRequestStep
<1>4. CASE ~(m.term < node[n].term)
  <2>1. Shape(s) /\ m.term >= node[n].term
    BY <1>1, <1>4, FollowLeaderType
  <2>2. Kept(s, done)
    BY <1>2, <2>1, QuietReflexive, InstalledKeeps
  <2>3. Handle(m, done, {InstallReply(m, done)})
    BY <1>4, Zenon DEF HandleInstallSnapshot
  <2>4. Kept(FollowLeader(node[n], m), done) /\ Become(n, done)
    BY <2>2, <2>3 DEF Handle
  <2> HIDE DEF done
  <2>5. Fine(n, done, ballots', elected')
    BY <1>2, <2>1, <2>4, FollowingIsFine
  <2>6. done.term \in Nat
    BY <2>4 DEF Kept, Shape
  <2>7. GoodMessage(InstallReply(m, done), ballots', elected')
    BY <1>1, <1>2, <2>6, ReplicaReplyIsGood
  <2> QED BY <2>3, <2>5, <2>7, HandleStep
<1> QED BY <1>3, <1>4
-----------------------------------------------------------------------------
(* The actions: replies.                                                   *)

LEMMA DeposeStep ==
    ASSUME ElectionInv, NEW m \in msgs, Depose(m)
    PROVE  ElectionInv'
<1> DEFINE s == BecomeFollower(node[m.to], m.term, Nil)
<1>1. m.to \in Node /\ m.term \in Nat /\ Shape(node[m.to]) /\ node[m.to].term \in Nat
  BY InvShapes
<1>2. m.term >= node[m.to].term /\ Handle(m, s, {}) /\ Become(m.to, s)
  BY <1>1 DEF Depose, Handle
<1>3. Kept(s, s)
  BY <1>1, <1>2, BecomeFollowerType, QuietReflexive
<1>4. Fine(m.to, s, ballots', elected')
  BY <1>1, <1>2, <1>3, DeposedIsFine
<1> HIDE DEF s
<1> QED BY <1>2, <1>4, HandleStep

LEMMA VotedType ==
    ASSUME NEW s, Shape(s), s.role.kind \in {"precandidate", "candidate"}, NEW p \in Node
    PROVE  LET v == Voted(s, p)
           IN  /\ Shape(v) /\ v.term = s.term /\ v.votedFor = s.votedFor
               /\ v.leaderId = s.leaderId /\ v.role.kind = s.role.kind
               /\ v.role.votes = s.role.votes \cup {p}
<1> DEFINE role == [s.role EXCEPT !.votes = s.role.votes \cup {p}]
<1>1. s.role \in [kind : {"precandidate", "candidate"}, votes : SUBSET Node]
  BY RoleKinds DEF Shape
<1>2. RoleShape(role) /\ role.kind = s.role.kind /\ role.votes = s.role.votes \cup {p}
  BY <1>1 DEF RoleShape
<1>3. Voted(s, p) = [s EXCEPT !.role = role]
  BY DEF Voted
<1> HIDE DEF role
<1> QED BY <1>2, <1>3 DEF Shape, NodeFields

\* The requests that follow an election step.
LEMMA ElectionReplyStep ==
    ASSUME ElectionInv, NEW m \in msgs, NEW s, Fine(m.to, s, ballots', elected'),
           NEW out, out \in {Solicit(m.to, s), {}}, Handle(m, s, out)
    PROVE  ElectionInv'
<1>1. m.to \in Node /\ Shape(s) /\ Become(m.to, s)
  BY InvShapes DEF Fine, Handle
<1>2. \A r \in out : GoodMessage(r, ballots', elected')
  BY <1>1, SolicitType, OutgoingIsGood
<1> QED BY <1>2, HandleStep

LEMMA CountPreVoteStep ==
    ASSUME ElectionInv, NEW m \in msgs, CountPreVote(m)
    PROVE  ElectionInv'
<1> DEFINE n == m.to
           voted == Voted(node[n], m.from)
           s == MaybeStartElection(n, voted)
           out == IF HasMajority(voted) THEN Solicit(n, s) ELSE {}
<1>1. n \in Node /\ m.from \in Node /\ Shape(node[n])
  BY InvShapes
<1>2. node[n].role.kind = "precandidate" /\ Handle(m, s, out)
  BY DEF CountPreVote
<1>3. /\ Shape(voted) /\ voted.term = node[n].term /\ voted.votedFor = node[n].votedFor
      /\ voted.leaderId = node[n].leaderId /\ voted.role.kind = "precandidate"
  BY <1>1, <1>2, VotedType
<1>4. voted.leaderId # Nil => Leadership(voted.term, voted.leaderId) \in elected
  BY <1>1, <1>3 DEF ElectionInv, GoodNode
<1> HIDE DEF voted
<1>5. s = MaybeStartElection(n, voted) /\ out \in {Solicit(n, s), {}}
  OBVIOUS
<1> HIDE DEF s, out
<1>6. Become(n, s)
  BY <1>2 DEF Handle
<1>7. Fine(n, s, ballots', elected')
  BY <1>1, <1>3, <1>4, <1>5, <1>6, CampaignIsFine
<1> QED BY <1>2, <1>5, <1>7, ElectionReplyStep

LEMMA CountVoteStep ==
    ASSUME ElectionInv, NEW m \in msgs, m.type = "RequestVoteReply", CountVote(m)
    PROVE  ElectionInv'
<1> DEFINE n == m.to
           voted == Voted(node[n], m.from)
           s == MaybeBecomeLeader(n, voted)
           out == IF HasMajority(voted) THEN Solicit(n, s) ELSE {}
<1>1. n \in Node /\ m.from \in Node /\ Shape(node[n])
  BY InvShapes
<1>2. /\ node[n].role.kind = "candidate" /\ m.granted /\ m.sentTerm = node[n].term
      /\ Handle(m, s, out)
  BY DEF CountVote
<1>3. /\ Shape(voted) /\ voted.term = node[n].term /\ voted.votedFor = node[n].votedFor
      /\ voted.leaderId = node[n].leaderId /\ voted.role.kind = "candidate"
      /\ voted.role.votes = node[n].role.votes \cup {m.from}
  BY <1>1, <1>2, VotedType
<1>4. GoodNode(n, node[n], ballots, elected)
  BY <1>1 DEF ElectionInv
<1>5. voted.leaderId # Nil => Leadership(voted.term, voted.leaderId) \in elected
  BY <1>3, <1>4 DEF GoodNode
<1>6. Ballot(m.sentTerm, m.from, m.to) \in ballots
  BY <1>2 DEF ElectionInv, GoodMessage
<1> HIDE DEF voted
<1>7. \A v \in voted.role.votes : Ballot(voted.term, v, n) \in ballots
  BY <1>2, <1>3, <1>4, <1>6 DEF GoodNode
<1>8. Advances(node[n], voted)
  BY <1>3 DEF Advances
<1>9. s = MaybeBecomeLeader(n, voted) /\ out \in {Solicit(n, s), {}}
  OBVIOUS
<1> HIDE DEF s, out
<1>10. Become(n, s)
  BY <1>2 DEF Handle
<1>11. \A v \in voted.role.votes : Ballot(voted.term, v, n) \in ballots'
  BY <1>7, <1>10, BecomeGrows
<1>12. Fine(n, s, ballots', elected')
  BY <1>1, <1>3, <1>5, <1>8, <1>9, <1>10, <1>11, CandidateIsFine
<1> QED BY <1>2, <1>9, <1>12, ElectionReplyStep

\* The leader books an answer, and sends what the peer lacks.
LEMMA BookkeepingStep ==
    ASSUME ElectionInv, NEW m \in msgs, NEW s, Kept(node[m.to], s),
           NEW out, out \in {SendAppend(m.to, s, m.from), {}}, Handle(m, s, out)
    PROVE  ElectionInv'
<1>1. m.to \in Node /\ m.from \in Node /\ Shape(s) /\ Become(m.to, s)
  BY InvShapes DEF Kept, Handle
<1>2. Fine(m.to, s, ballots', elected')
  BY <1>1, KeptIsFine
<1>3. \A r \in out : GoodMessage(r, ballots', elected')
  BY <1>1, SendAppendType, OutgoingIsGood
<1> QED BY <1>2, <1>3, HandleStep

LEMMA AppendReplyStep ==
    ASSUME ElectionInv, NEW m \in msgs, m.type = "AppendReply",
           AnswersThisLeadership(m), AcceptedBy(m) \/ RejectedBy(m)
    PROVE  ElectionInv'
<1> DEFINE n == m.to
           s == node[n]
           acked == Acked(s.role, m)
<1>1. n \in Node /\ MessageShape(m) /\ Shape(s) /\ IsLeader(s)
  BY InvShapes DEF AnswersThisLeadership
<1>2. LeaderShape(s.role)
  BY <1>1, RoleKinds DEF IsLeader, Shape
<1>3. LeaderShape(acked)
  BY <1>1, <1>2, AckedType
<1>4. CASE AcceptedBy(m)
  <2> DEFINE role == Confirmed(acked, m)
             booked == [s EXCEPT !.role = role]
             advanced == MaybeAdvanceCommit(n, booked)
             done == ResolveReads(n, advanced)
             out == IF StillBehind(s, m, role) THEN SendAppend(n, done, m.from) ELSE {}
  <2>1. Handle(m, done, out)
    BY <1>4 DEF AcceptedBy
  <2>2. LeaderShape(role)
    <3> HIDE DEF acked
    <3> QED BY <1>1, <1>3, ConfirmedType
  <2> HIDE DEF role, s
  <2>3. Kept(s, booked)
    BY <1>1, <2>2, RoleSwapKeeps
  <2> HIDE DEF booked
  <2>4. Kept(booked, advanced)
    BY <1>1, <2>3, MaybeAdvanceKeeps DEF Kept
  <2> HIDE DEF advanced
  <2>5. Kept(advanced, done)
    BY <2>4, ResolveReadsKeeps DEF Kept
  <2>6. out \in {SendAppend(n, done, m.from), {}}
    OBVIOUS
  <2> HIDE DEF done, out
  <2>7. Kept(node[n], done)
    BY <2>3, <2>4, <2>5, QuietTransitive DEF s
  <2> QED BY <2>1, <2>6, <2>7, BookkeepingStep
<1>5. CASE RejectedBy(m)
  <2> DEFINE role == Rejected(acked, m)
             booked == [s EXCEPT !.role = role]
             done == ResolveReads(n, booked)
  <2>1. Handle(m, done, SendAppend(n, done, m.from))
    BY <1>5 DEF RejectedBy
  <2>2. LeaderShape(role)
    <3> HIDE DEF acked
    <3> QED BY <1>1, <1>3, RejectedType
  <2> HIDE DEF role, s
  <2>3. Kept(s, booked)
    BY <1>1, <2>2, RoleSwapKeeps
  <2> HIDE DEF booked
  <2>4. Kept(booked, done)
    BY <2>3, ResolveReadsKeeps DEF Kept
  <2> HIDE DEF done
  <2>5. Kept(node[n], done)
    BY <2>3, <2>4, QuietTransitive DEF s
  <2> QED BY <2>1, <2>5, BookkeepingStep
<1> QED BY <1>4, <1>5

LEMMA InstallReplyStep ==
    ASSUME ElectionInv, NEW m \in msgs, m.type = "InstallSnapshotReply",
           AnswersThisLeadership(m), InstalledBy(m)
    PROVE  ElectionInv'
<1> DEFINE n == m.to
           s == node[n]
           role == SnapshotHeld(s.role, m)
           booked == [s EXCEPT !.role = role]
           done == MaybeAdvanceCommit(n, booked)
           out == IF m.index < LastIndex(s) THEN SendAppend(n, done, m.from) ELSE {}
<1>1. n \in Node /\ MessageShape(m) /\ Shape(s) /\ IsLeader(s)
  BY InvShapes DEF AnswersThisLeadership
<1>2. LeaderShape(s.role)
  BY <1>1, RoleKinds DEF IsLeader, Shape
<1>3. Handle(m, done, out)
  BY DEF InstalledBy
<1>4. LeaderShape(role)
  BY <1>1, <1>2, SnapshotHeldType
<1> HIDE DEF role, s
<1>5. Kept(s, booked)
  BY <1>1, <1>4, RoleSwapKeeps
<1> HIDE DEF booked
<1>6. Kept(booked, done)
  BY <1>1, <1>5, MaybeAdvanceKeeps DEF Kept
<1>7. out \in {SendAppend(n, done, m.from), {}}
  OBVIOUS
<1> HIDE DEF done, out
<1>8. Kept(node[n], done)
  BY <1>5, <1>6, QuietTransitive DEF s
<1> QED BY <1>3, <1>7, <1>8, BookkeepingStep
-----------------------------------------------------------------------------
(* The actions: crashes.                                                   *)

\* A crash leaves the disk as an unfinished turn had it.
LEMMA FollowedCrashStep ==
    ASSUME ElectionInv, NEW m \in msgs, m.type \in {"AppendEntries", "InstallSnapshot"},
           m.term >= node[m.to].term,
           NEW s, Kept(FollowLeader(node[m.to], m), s), CrashTo(m.to, s)
    PROVE  ElectionInv'
<1>1. m.to \in Node /\ Become(m.to, Boot(m.to, s))
  BY InvShapes DEF CrashTo
<1>2. Kept(FollowLeader(node[m.to], m), Boot(m.to, s))
  BY BootKeeps, QuietTransitive DEF Kept
<1>3. Fine(m.to, Boot(m.to, s), ballots', elected')
  BY <1>1, <1>2, FollowingIsFine
<1> QED BY <1>1, <1>3, CrashStep

LEMMA RestartStep ==
    ASSUME ElectionInv, NEW n \in Node, Restart(n)
    PROVE  ElectionInv'
<1>1. CrashTo(n, node[n]) /\ Become(n, Boot(n, node[n]))
  BY DEF Restart, CrashTo
<1>2. Kept(node[n], Boot(n, node[n]))
  BY InvShapes, BootKeeps
<1>3. Fine(n, Boot(n, node[n]), ballots', elected')
  BY <1>1, <1>2, KeptIsFine
<1> QED BY <1>1, <1>3, CrashStep

LEMMA CrashAfterTermStep ==
    ASSUME ElectionInv, NEW m \in msgs, CrashAfterTerm(m)
    PROVE  ElectionInv'
<1> DEFINE n == m.to
           s == BecomeFollower(node[n], m.term, Nil)
<1>1. n \in Node /\ m.term \in Nat /\ Shape(node[n]) /\ node[n].term \in Nat
  BY InvShapes
<1>2. m.term >= node[n].term /\ CrashTo(n, s) /\ Become(n, Boot(n, s))
  BY <1>1 DEF CrashAfterTerm, CrashTo
<1>3. Kept(s, Boot(n, s))
  BY <1>1, <1>2, BecomeFollowerType, BootKeeps
<1>4. Fine(n, Boot(n, s), ballots', elected')
  BY <1>1, <1>2, <1>3, DeposedIsFine
<1> HIDE DEF s
<1> QED BY <1>1, <1>2, <1>4, CrashStep

LEMMA CrashInAppendStep ==
    ASSUME ElectionInv, NEW m \in msgs, CrashInAppend(m)
    PROVE  ElectionInv'
<1> DEFINE n == m.to
           s == FollowLeader(node[n], m)
           cut == Truncated(n, s, m)
           entries == NewEntries(s, m)
<1>1. MessageShape(m) /\ Shape(node[n])
  BY InvShapes
<1>2. m.type = "AppendEntries" /\ m.term >= node[n].term
  BY DEF CrashInAppend
<1>3. PICK k \in 0 .. Len(entries) : CrashTo(n, AppendEntries(cut, SubSeq(entries, 1, k)))
  BY DEF CrashInAppend
<1>4. Shape(s)
  BY <1>1, FollowLeaderType
<1>5. Kept(s, cut) /\ entries \in Seq(LogEntry)
  BY <1>1, <1>2, <1>4, TruncatedKeeps, NewEntriesType
<1> HIDE DEF cut, entries, s
<1>6. SubSeq(entries, 1, k) \in Seq(LogEntry)
  BY <1>5
<1>7. Kept(cut, AppendEntries(cut, SubSeq(entries, 1, k)))
  BY <1>5, <1>6, AppendKeeps, Zenon DEF Kept
<1>8. Kept(FollowLeader(node[n], m), AppendEntries(cut, SubSeq(entries, 1, k)))
  BY <1>5, <1>7, QuietTransitive DEF s
<1> QED BY <1>2, <1>3, <1>8, FollowedCrashStep

LEMMA CrashInInstallStep ==
    ASSUME ElectionInv, NEW m \in msgs, CrashInInstall(m)
    PROVE  ElectionInv'
<1> DEFINE n == m.to
           s == FollowLeader(node[n], m)
<1>1. MessageShape(m) /\ Shape(node[n])
  BY InvShapes
<1>2. /\ m.type = "InstallSnapshot" /\ m.term >= node[n].term
      /\ CrashTo(n, ReopenAfterSnapshotOnly(s, m.snap))
  BY DEF CrashInInstall
<1>3. Shape(s) /\ SnapShape(m.snap)
  BY <1>1, <1>2, FollowLeaderType DEF MessageShape
<1>4. Kept(s, ReopenAfterSnapshotOnly(s, m.snap))
  BY <1>3, ReopenKeeps
<1> QED BY <1>2, <1>4, FollowedCrashStep
=============================================================================

--------------------------- MODULE RaftTurnProofs ---------------------------
(***************************************************************************)
(* The inductive invariant of elections (ElectionInv), which ties the two  *)
(* histories, ballots and elected, to what the nodes and the messages in   *)
(* flight say of them, and what one turn of a node's event loop has to     *)
(* establish to keep it (Fine; lemmas TurnStep, HandleStep, CrashStep).    *)
(***************************************************************************)
EXTENDS RaftNodeProofs

-----------------------------------------------------------------------------
(* What the replies do to a leader's bookkeeping.                          *)

LEMMA RoleSwapKeeps ==
    ASSUME NEW s, Shape(s), IsLeader(s), NEW role, LeaderShape(role)
    PROVE  Kept(s, [s EXCEPT !.role = role])
<1>1. role.kind = "leader" /\ s.role.kind = "leader" /\ RoleShape(role)
  BY DEF LeaderShape, RoleShape, IsLeader
<1> QED BY <1>1 DEF Kept, Quiet, Shape, NodeFields

LEMMA AckedType ==
    ASSUME NEW role, LeaderShape(role), NEW m, MessageShape(m), m.type = "AppendReply"
    PROVE  LeaderShape(Acked(role, m))
<1> DEFINE a == Larger(Larger(role.acked[m.from], 0), m.seq)
<1>1. m.from \in Node /\ m.seq \in Nat /\ role.acked[m.from] \in Int
  BY DEF MessageShape, LeaderShape
<1>2. a \in Int
  BY <1>1 DEF Larger, Smaller
<1>3. Acked(role, m) = [role EXCEPT !.acked = [role.acked EXCEPT ![m.from] = a]]
  BY DEF Acked
<1> HIDE DEF a
<1> QED BY <1>1, <1>2, <1>3 DEF LeaderShape, LeaderFields

LEMMA DepartedType ==
    ASSUME NEW role, LeaderShape(role), NEW p \in Node, NEW held
    PROVE  LeaderShape(Departed(role, p, held))
<1>1. Departed(role, p, held)
        \in {role, [role EXCEPT !.departing = [role.departing EXCEPT ![p] = 0]]}
  BY DEF Departed
<1> QED BY <1>1 DEF LeaderShape, LeaderFields

LEMMA ProgressType ==
    ASSUME NEW role, LeaderShape(role), NEW p \in Node, NEW i \in Nat, NEW j \in Nat
    PROVE  LeaderShape([role EXCEPT !.match[p] = i, !.next[p] = j])
<1> DEFINE match == [role.match EXCEPT ![p] = i]
           next == [role.next EXCEPT ![p] = j]
<1>1. match \in [Node -> Nat] /\ next \in [Node -> Nat]
  BY DEF LeaderShape
<1>2. [role EXCEPT !.match[p] = i, !.next[p] = j] = [role EXCEPT !.match = match, !.next = next]
  BY DEF LeaderShape, LeaderFields
<1> HIDE DEF match, next
<1>3. LeaderShape([role EXCEPT !.match = match, !.next = next])
  BY <1>1 DEF LeaderShape, LeaderFields
<1> QED BY <1>2, <1>3

LEMMA ConfirmedType ==
    ASSUME NEW role, LeaderShape(role), NEW m, MessageShape(m), m.type = "AppendReply"
    PROVE  LeaderShape(Confirmed(role, m))
<1> DEFINE upto == m.prevIndex + m.sent
           moved == IF upto > role.match[m.from]
                    THEN [role EXCEPT !.match[m.from] = upto, !.next[m.from] = upto + 1]
                    ELSE role
<1>1. upto \in Nat /\ upto + 1 \in Nat /\ m.from \in Node
  BY DEF MessageShape
<1>2. LeaderShape(moved)
  <2> HIDE DEF upto
  <2> QED BY <1>1, ProgressType, Zenon
<1>3. Confirmed(role, m) = Departed(moved, m.from, moved.match[m.from])
  BY DEF Confirmed
<1> HIDE DEF moved
<1> QED BY <1>1, <1>2, <1>3, DepartedType

LEMMA RejectedType ==
    ASSUME NEW role, LeaderShape(role), NEW m, MessageShape(m), m.type = "AppendReply"
    PROVE  LeaderShape(Rejected(role, m))
<1> DEFINE j == Smaller(Larger(role.next[m.from], 1), Larger(m.prevIndex, 1))
<1>1. m.from \in Node /\ m.prevIndex \in Nat /\ role.next[m.from] \in Nat
  BY DEF MessageShape, LeaderShape
<1>2. j \in Nat
  BY <1>1 DEF Larger, Smaller
<1>3. Rejected(role, m) = [role EXCEPT !.next = [role.next EXCEPT ![m.from] = j]]
  BY DEF Rejected
<1> HIDE DEF j
<1> QED BY <1>1, <1>2, <1>3 DEF LeaderShape, LeaderFields

LEMMA SnapshotHeldType ==
    ASSUME NEW role, LeaderShape(role), NEW m, MessageShape(m),
           m.type = "InstallSnapshotReply"
    PROVE  LeaderShape(SnapshotHeld(role, m))
<1> DEFINE i == Larger(role.match[m.from], m.index)
           j == Larger(role.next[m.from], m.index + 1)
           moved == [role EXCEPT !.match[m.from] = i, !.next[m.from] = j]
<1>1. /\ m.from \in Node /\ m.index \in Nat /\ m.index + 1 \in Nat
      /\ role.match[m.from] \in Nat /\ role.next[m.from] \in Nat
  BY DEF MessageShape, LeaderShape
<1>2. i \in Nat /\ j \in Nat
  BY <1>1 DEF Larger, Smaller
<1>3. SnapshotHeld(role, m) = Departed(moved, m.from, m.index)
  BY DEF SnapshotHeld
<1> HIDE DEF i, j
<1>4. LeaderShape(moved)
  BY <1>1, <1>2, ProgressType, Zenon
<1> HIDE DEF moved
<1> QED BY <1>1, <1>3, <1>4, DepartedType

\* What a crash inside install_snapshot leaves on disk.
LEMMA ReopenKeeps ==
    ASSUME NEW s, Shape(s), NEW snap, SnapShape(snap)
    PROVE  Kept(s, ReopenAfterSnapshotOnly(s, snap))
<1> DEFINE log == EntriesFrom(s, snap.index + 1)
<1>1. log \in Seq(LogEntry)
  BY EntriesFromType DEF SnapShape
<1>2. ReopenAfterSnapshotOnly(s, snap) = [s EXCEPT !.snap = snap, !.log = log]
  BY DEF ReopenAfterSnapshotOnly
<1> HIDE DEF log
<1> QED BY <1>1, <1>2 DEF Kept, Quiet, Shape, NodeFields
-----------------------------------------------------------------------------
(* The election invariant.                                                 *)

Ballot(term, voter, candidate) == [term |-> term, voter |-> voter, candidate |-> candidate]
Leadership(term, leader) == [term |-> term, leader |-> leader]

\* A majority of some membership voted for e.
Backed(e, cast) ==
    \E M \in Membership : \E Q \in SUBSET M :
        /\ Cardinality(Q) >= Majority(M)
        /\ \A v \in Q : Ballot(e.term, v, e.leader) \in cast

\* A granted vote in flight was cast, and only elected leaders replicate.
GoodMessage(m, cast, won) ==
    /\ MessageShape(m)
    /\ m.type = "RequestVoteReply" /\ m.granted => Ballot(m.sentTerm, m.from, m.to) \in cast
    /\ m.type \in {"AppendEntries", "InstallSnapshot"} => Leadership(m.term, m.from) \in won

\* The votes a candidate counted were cast, a leader was elected, and so was
\* the leader a node names.
GoodNode(n, s, cast, won) ==
    /\ Shape(s)
    /\ s.role.kind = "candidate" => \A v \in s.role.votes : Ballot(s.term, v, n) \in cast
    /\ IsLeader(s) => Leadership(s.term, n) \in won
    /\ s.leaderId # Nil => Leadership(s.term, s.leaderId) \in won

\* A ballot is of the voter's past, or is its vote in its current term.
Binding ==
    \A b \in ballots :
        /\ b \in [term : Nat, voter : Node, candidate : Node]
        /\ b.term <= node[b.voter].term
        /\ b.term = node[b.voter].term => b.candidate = node[b.voter].votedFor

ElectionInv ==
    /\ DOMAIN node = Node
    /\ \A n \in Node : GoodNode(n, node[n], ballots, elected)
    /\ \A m \in msgs : GoodMessage(m, ballots, elected)
    /\ Binding
    /\ VoteOnce
    /\ \A e \in elected : Backed(e, ballots)

\* The term grows, or it stays and so does a vote that was cast.
Advances(old, s) ==
    \/ s.term > old.term
    \/ s.term = old.term /\ old.votedFor \in {Nil, s.votedFor}

\* What a turn of node n that ends in state s has to establish.
Fine(n, s, cast, won) ==
    /\ Shape(s)
    /\ Advances(node[n], s)
    /\ s.role.kind = "candidate" => \A v \in s.role.votes : Ballot(s.term, v, n) \in cast
    /\ IsLeader(s) => Leadership(s.term, n) \in elected \/ Backed(Leadership(s.term, n), cast)
    /\ s.leaderId # Nil => Leadership(s.term, s.leaderId) \in won

LEMMA BackedGrows ==
    ASSUME NEW e, NEW B, NEW C, B \subseteq C, Backed(e, B)
    PROVE  Backed(e, C)
BY DEF Backed

LEMMA GoodMessageGrows ==
    ASSUME NEW m, NEW B, NEW C, B \subseteq C, NEW D, NEW E, D \subseteq E, GoodMessage(m, B, D)
    PROVE  GoodMessage(m, C, E)
BY DEF GoodMessage

LEMMA BecomeGrows ==
    ASSUME NEW n, NEW s, Become(n, s)
    PROVE  /\ ballots \subseteq ballots' /\ elected \subseteq elected'
           /\ s.votedFor # Nil => Ballot(s.term, n, s.votedFor) \in ballots'
           /\ IsLeader(s) => Leadership(s.term, n) \in elected'
           /\ \A b \in ballots' : \/ b \in ballots
                                  \/ s.votedFor # Nil /\ b = Ballot(s.term, n, s.votedFor)
           /\ \A e \in elected' : e \in elected \/ (IsLeader(s) /\ e = Leadership(s.term, n))
BY DEF Become, Ballot, Leadership

\* Every turn that is Fine preserves the invariant.
LEMMA FineStep ==
    ASSUME ElectionInv, NEW n \in Node, NEW s, Become(n, s),
           Fine(n, s, ballots', elected'),
           \A m \in msgs' : m \in msgs \/ GoodMessage(m, ballots', elected')
    PROVE  ElectionInv'
<1> USE DEF Ballot, Leadership
<1>1. /\ DOMAIN node' = Node /\ node'[n] = s
      /\ \A p \in Node : p # n => node'[p] = node[p]
  BY DEF Become, ElectionInv
<1>2. /\ ballots \subseteq ballots' /\ elected \subseteq elected'
      /\ IsLeader(s) => Leadership(s.term, n) \in elected'
      /\ \A b \in ballots' : \/ b \in ballots
                             \/ s.votedFor # Nil /\ b = Ballot(s.term, n, s.votedFor)
      /\ \A e \in elected' : e \in elected \/ (IsLeader(s) /\ e = Leadership(s.term, n))
  BY BecomeGrows, Zenon
<1>3. ASSUME NEW p \in Node PROVE GoodNode(p, node'[p], ballots', elected')
  <2>1. CASE p = n
    BY <1>1, <1>2, <2>1 DEF GoodNode, Fine
  <2>2. CASE p # n
    <3>1. GoodNode(p, node[p], ballots, elected)
      BY DEF ElectionInv
    <3> QED BY <1>1, <1>2, <2>2, <3>1 DEF GoodNode
  <2> QED BY <2>1, <2>2
<1>4. ASSUME NEW m \in msgs' PROVE GoodMessage(m, ballots', elected')
  <2>1. CASE m \in msgs
    <3>1. GoodMessage(m, ballots, elected)
      BY <2>1 DEF ElectionInv
    <3> QED BY <1>2, <3>1, GoodMessageGrows
  <2> QED BY <2>1
<1>5. /\ node[n].term \in Nat /\ s.term \in Nat /\ s.term >= node[n].term
      /\ s.votedFor \in Node \cup {Nil}
      /\ Advances(node[n], s)
  <2>1. Shape(node[n]) /\ Shape(s) /\ Advances(node[n], s)
    BY Zenon DEF ElectionInv, GoodNode, Fine
  <2>2. node[n].term \in Nat /\ s.term \in Nat /\ s.votedFor \in Node \cup {Nil}
    BY <2>1 DEF Shape
  <2> QED BY <2>1, <2>2 DEF Advances
<1>6. ASSUME NEW b \in ballots, b.voter = n, b.term = s.term
      PROVE  b.candidate = s.votedFor
  <2>1. /\ b.candidate \in Node /\ b.term \in Nat /\ b.term <= node[n].term
        /\ b.term = node[n].term => b.candidate = node[n].votedFor
    BY <1>6 DEF ElectionInv, Binding
  <2>2. b.term = node[n].term
    BY <1>5, <1>6, <2>1
  <2> QED BY <1>5, <1>6, <2>1, <2>2, NilAssumption DEF Advances
<1>7. Binding'
  <2> SUFFICES ASSUME NEW b \in ballots'
               PROVE  /\ b \in [term : Nat, voter : Node, candidate : Node]
                      /\ b.term <= node'[b.voter].term
                      /\ b.term = node'[b.voter].term => b.candidate = node'[b.voter].votedFor
    BY DEF Binding
  <2>1. CASE b \in ballots
    <3>1. /\ b \in [term : Nat, voter : Node, candidate : Node]
          /\ b.term <= node[b.voter].term
          /\ b.term = node[b.voter].term => b.candidate = node[b.voter].votedFor
      BY <2>1 DEF ElectionInv, Binding
    <3>2. CASE b.voter = n
      <4>1. b.term <= s.term
        BY <1>5, <3>1, <3>2
      <4> QED BY <1>1, <1>6, <2>1, <3>1, <3>2, <4>1
    <3>3. CASE b.voter # n
      BY <1>1, <3>1, <3>3
    <3> QED BY <3>2, <3>3
  <2>2. CASE s.votedFor # Nil /\ b = Ballot(s.term, n, s.votedFor)
    BY <1>1, <1>5, <2>2
  <2> QED BY <1>2, <2>1, <2>2
<1>8. VoteOnce'
  <2> SUFFICES ASSUME NEW b \in ballots', NEW c \in ballots',
                      b.term = c.term, b.voter = c.voter
               PROVE  b.candidate = c.candidate
    BY DEF VoteOnce
  <2>1. CASE b \in ballots /\ c \in ballots
    BY <2>1 DEF ElectionInv, VoteOnce
  <2>2. CASE b \in ballots /\ c = Ballot(s.term, n, s.votedFor)
    BY <1>6, <2>2
  <2>3. CASE c \in ballots /\ b = Ballot(s.term, n, s.votedFor)
    BY <1>6, <2>3
  <2> QED BY <1>2, <2>1, <2>2, <2>3
<1>9. ASSUME NEW e \in elected' PROVE Backed(e, ballots')
  <2>1. CASE e \in elected
    BY <1>2, <2>1, BackedGrows DEF ElectionInv
  <2>2. CASE IsLeader(s) /\ e = Leadership(s.term, n)
    <3>1. CASE Leadership(s.term, n) \in elected
      BY <2>1, <2>2, <3>1
    <3>2. CASE Backed(Leadership(s.term, n), ballots')
      BY <2>2, <3>2
    <3> QED BY <2>2, <3>1, <3>2 DEF Fine
  <2> QED BY <1>2, <2>1, <2>2
<1> QED BY <1>1, <1>3, <1>4, <1>7, <1>8, <1>9 DEF ElectionInv
-----------------------------------------------------------------------------
(* The ways in which a turn can be Fine.                                   *)

\* Nothing an election looks at changed.
LEMMA KeptIsFine ==
    ASSUME ElectionInv, NEW n \in Node, NEW s, Kept(node[n], s), Become(n, s)
    PROVE  Fine(n, s, ballots', elected')
<1>1. GoodNode(n, node[n], ballots, elected)
  BY DEF ElectionInv
<1>2. ballots \subseteq ballots' /\ elected \subseteq elected'
  BY BecomeGrows
<1>3. s.role = Follower => s.role.kind = "follower"
  BY DEF Follower
<1> QED BY <1>1, <1>2, <1>3 DEF Kept, Quiet, Fine, GoodNode, Advances, IsLeader

\* A newer term, or this one, was adopted from someone who may not lead it.
LEMMA DeposedIsFine ==
    ASSUME ElectionInv, NEW n \in Node, NEW t \in Nat, t >= node[n].term,
           NEW s, Kept(BecomeFollower(node[n], t, Nil), s), Become(n, s)
    PROVE  Fine(n, s, ballots', elected')
<1> DEFINE b == BecomeFollower(node[n], t, Nil)
<1>1. Shape(node[n])
  BY DEF ElectionInv, GoodNode
<1>2. /\ b.term = t /\ b.leaderId = Nil /\ b.role = Follower
      /\ b.votedFor = IF t > node[n].term THEN Nil ELSE node[n].votedFor
  BY <1>1, BecomeFollowerType
<1>3. Follower.kind = "follower"
  BY DEF Follower
<1> HIDE DEF b
<1>4. /\ Shape(s) /\ s.term = t /\ s.leaderId = Nil /\ s.role.kind = "follower"
      /\ s.votedFor = IF t > node[n].term THEN Nil ELSE node[n].votedFor
  BY <1>2, <1>3 DEF Kept, Quiet, b
<1>5. node[n].term \in Nat
  BY <1>1 DEF Shape
<1>6. Advances(node[n], s)
  BY <1>4, <1>5 DEF Advances
<1> QED BY <1>4, <1>6 DEF Fine, IsLeader

\* An elected leader was followed.
LEMMA FollowingIsFine ==
    ASSUME ElectionInv, NEW m \in msgs, m.type \in {"AppendEntries", "InstallSnapshot"},
           m.term >= node[m.to].term,
           NEW s, Kept(FollowLeader(node[m.to], m), s), Become(m.to, s)
    PROVE  Fine(m.to, s, ballots', elected')
<1> DEFINE f == FollowLeader(node[m.to], m)
<1>1. MessageShape(m) /\ Leadership(m.term, m.from) \in elected /\ m.to \in Node
  BY DEF ElectionInv, GoodMessage, MessageShape
<1>2. Shape(node[m.to])
  BY <1>1 DEF ElectionInv, GoodNode
<1>3. /\ f.term = m.term /\ f.leaderId = m.from /\ f.role = Follower
      /\ f.votedFor = IF m.term > node[m.to].term THEN Nil ELSE node[m.to].votedFor
  BY <1>1, <1>2, FollowLeaderType
<1>4. Follower.kind = "follower"
  BY DEF Follower
<1> HIDE DEF f
<1>5. /\ Shape(s) /\ s.term = m.term /\ s.leaderId \in {m.from, Nil}
      /\ s.role.kind = "follower"
      /\ s.votedFor = IF m.term > node[m.to].term THEN Nil ELSE node[m.to].votedFor
  BY <1>3, <1>4 DEF Kept, Quiet, f
<1>6. elected \subseteq elected'
  BY BecomeGrows
<1>7. node[m.to].term \in Nat /\ m.term \in Nat
  BY <1>1, <1>2 DEF Shape, MessageShape
<1>8. Advances(node[m.to], s)
  BY <1>5, <1>7 DEF Advances
<1> QED BY <1>1, <1>5, <1>6, <1>8 DEF Fine, IsLeader

\* A candidate whose votes were all cast wins only with a majority of them.
LEMMA CandidateIsFine ==
    ASSUME ElectionInv, NEW n \in Node, NEW c, Shape(c), Advances(node[n], c),
           c.role.kind = "candidate",
           c.leaderId # Nil => Leadership(c.term, c.leaderId) \in elected,
           NEW s, s = MaybeBecomeLeader(n, c), Become(n, s),
           \A v \in c.role.votes : Ballot(c.term, v, n) \in ballots'
    PROVE  Fine(n, s, ballots', elected')
<1>1. /\ Shape(s)
      /\ s.term = c.term /\ s.votedFor = c.votedFor
      /\ \/ s = c
         \/ /\ HasMajority(c)
            /\ \/ IsLeader(s) /\ s.leaderId = n
               \/ s.role = Follower /\ s.leaderId = Nil
  BY MaybeBecomeLeaderType
<1>2. elected \subseteq elected' /\ (IsLeader(s) => Leadership(s.term, n) \in elected')
  BY BecomeGrows
<1>3. Advances(node[n], s)
  BY <1>1 DEF Advances
<1>4. CASE s = c
  BY <1>1, <1>2, <1>3, <1>4 DEF Fine, IsLeader
<1>5. CASE HasMajority(c) /\ IsLeader(s) /\ s.leaderId = n
  <2> DEFINE Q == c.role.votes \cap c.members
  <2>1. c.members \in Membership /\ Q \in SUBSET c.members /\ Cardinality(Q) >= Majority(c.members)
    BY <1>5 DEF Shape, HasMajority
  <2>2. \A v \in Q : Ballot(s.term, v, n) \in ballots'
    BY <1>1
  <2>3. Leadership(s.term, n).term = s.term /\ Leadership(s.term, n).leader = n
    BY DEF Leadership
  <2> HIDE DEF Q
  <2>4. Backed(Leadership(s.term, n), ballots')
    BY <2>1, <2>2, <2>3 DEF Backed
  <2> QED BY <1>1, <1>2, <1>3, <1>5, <2>4 DEF Fine, IsLeader
<1>6. CASE s.role = Follower /\ s.leaderId = Nil
  BY <1>1, <1>3, <1>6 DEF Fine, IsLeader, Follower
<1> QED BY <1>1, <1>4, <1>5, <1>6

\* A pre-campaign promises nothing; the campaign it may turn into starts with
\* the candidate's own durable vote.
LEMMA CampaignIsFine ==
    ASSUME ElectionInv, NEW n \in Node, NEW p, Shape(p),
           p.term = node[n].term, p.votedFor = node[n].votedFor,
           p.role.kind = "precandidate",
           p.leaderId # Nil => Leadership(p.term, p.leaderId) \in elected,
           NEW s, s = MaybeStartElection(n, p), Become(n, s)
    PROVE  Fine(n, s, ballots', elected')
<1>1. CASE s = p
  <2>1. elected \subseteq elected'
    BY BecomeGrows
  <2> QED BY <1>1, <2>1 DEF Fine, Advances, IsLeader
<1>2. CASE s = MaybeBecomeLeader(n, Standing(n, p))
  <2> DEFINE c == Standing(n, p)
  <2>1. /\ Shape(c) /\ c.term = p.term + 1 /\ c.votedFor = n
        /\ c.role = Candidate({n}) /\ c.leaderId = Nil
    BY StandingType
  <2> HIDE DEF c
  <2>2. s.term = c.term /\ s.votedFor = n
    BY <1>2, <2>1, MaybeBecomeLeaderType DEF c
  <2>3. Ballot(c.term, n, n) \in ballots'
    BY <2>2, BecomeGrows, NilAssumption
  <2>4. c.role.kind = "candidate" /\ c.role.votes = {n}
    BY <2>1 DEF Candidate
  <2>5. Advances(node[n], c)
    BY <2>1 DEF Advances, Shape
  <2>6. \A v \in c.role.votes : Ballot(c.term, v, n) \in ballots'
    BY <2>3, <2>4
  <2>7. s = MaybeBecomeLeader(n, c)
    BY <1>2 DEF c
  <2> QED BY <2>1, <2>4, <2>5, <2>6, <2>7, CandidateIsFine, Zenon
<1> QED BY <1>1, <1>2, MaybeStartElectionCases
-----------------------------------------------------------------------------
(* Messages sent at the end of a turn.                                     *)

LEMMA OutgoingIsGood ==
    ASSUME NEW n \in Node, NEW s, Become(n, s), NEW m, Outgoing(n, s, m)
    PROVE  GoodMessage(m, ballots', elected')
<1>1. IsLeader(s) => Leadership(s.term, n) \in elected'
  BY BecomeGrows
<1> QED BY <1>1 DEF Outgoing, GoodMessage

\* A turn not caused by a message, and one that handles a message.
LEMMA TurnStep ==
    ASSUME ElectionInv, NEW n \in Node, NEW s, NEW out, Turn(n, s, out),
           Fine(n, s, ballots', elected'),
           \A m \in out : GoodMessage(m, ballots', elected')
    PROVE  ElectionInv'
<1>1. Become(n, s) /\ \A m \in msgs' : m \in msgs \/ m \in out
  BY DEF Turn, Transmit
<1> QED BY <1>1, FineStep

LEMMA HandleStep ==
    ASSUME ElectionInv, NEW m \in msgs, NEW s, NEW out, Handle(m, s, out),
           Fine(m.to, s, ballots', elected'),
           \A r \in out : GoodMessage(r, ballots', elected')
    PROVE  ElectionInv'
<1>1. Become(m.to, s) /\ \A r \in msgs' : r \in msgs \/ r \in out
  BY DEF Handle, Transmit
<1>2. m.to \in Node
  BY DEF ElectionInv, GoodMessage, MessageShape
<1> QED BY <1>1, <1>2, FineStep

LEMMA CrashStep ==
    ASSUME ElectionInv, NEW n \in Node, NEW s, CrashTo(n, s),
           Fine(n, Boot(n, s), ballots', elected')
    PROVE  ElectionInv'
<1>1. Become(n, Boot(n, s)) /\ msgs' = msgs
  BY DEF CrashTo
<1> QED BY <1>1, FineStep

LEMMA InvShapes ==
    ASSUME ElectionInv
    PROVE  /\ \A n \in Node : Shape(node[n]) /\ node[n].term \in Nat
           /\ \A m \in msgs : MessageShape(m) /\ m.from \in Node /\ m.to \in Node /\ m.term \in Nat
BY DEF ElectionInv, GoodNode, GoodMessage, Shape, MessageShape
=============================================================================

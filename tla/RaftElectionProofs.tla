------------------------- MODULE RaftElectionProofs -------------------------
(***************************************************************************)
(* The safety of elections, for every set of nodes and every bound: votes  *)
(* bind across crashes, leader hints name leaders that won their term, and *)
(* no term has two leaders while memberships are the bootstrap one and the *)
(* one that differs from it by a given node.                               *)
(***************************************************************************)
EXTENDS RaftActionProofs

-----------------------------------------------------------------------------
(* The theorems.                                                           *)

LEMMA ElectionInvInit == Init => ElectionInv
<1> SUFFICES ASSUME Init PROVE ElectionInv
  OBVIOUS
<1>1. Shape(FreshDisk)
  <2>1. SnapShape(EmptySnapshot)
    BY DEF SnapShape, EmptySnapshot
  <2>2. RoleShape(Follower)
    BY DEF RoleShape
  <2> QED BY <2>1, <2>2 DEF Shape, FreshDisk, NodeFields, Membership
<1>2. ASSUME NEW n \in Node PROVE GoodNode(n, node[n], ballots, elected)
  <2>1. node[n] = Boot(n, FreshDisk)
    BY DEF Init
  <2>2. /\ Shape(Boot(n, FreshDisk)) /\ Boot(n, FreshDisk).role = Follower
        /\ Boot(n, FreshDisk).leaderId = Nil
    BY <1>1, BootKeeps DEF Kept
  <2> QED BY <2>1, <2>2 DEF GoodNode, IsLeader, Follower
<1> QED BY <1>2 DEF Init, ElectionInv, Binding, VoteOnce

LEMMA ElectionInvNext == ElectionInv /\ [Next]_vars => ElectionInv'
<1> SUFFICES ASSUME ElectionInv, [Next]_vars PROVE ElectionInv'
  OBVIOUS
<1>1. CASE UNCHANGED vars
  BY <1>1 DEF vars, ElectionInv, Binding, VoteOnce
<1>2. ASSUME NEW n \in Node,
             \/ ElectionTimeout(n) \/ TimeoutIgnored(n) \/ HeartbeatTick(n)
             \/ CheckQuorumFails(n) \/ ProposeWrite(n) \/ ProposeConfig(n) \/ Read(n)
      PROVE  ElectionInv'
  <2>1. CASE ElectionTimeout(n)
    BY <2>1, ElectionTimeoutStep
  <2>2. CASE TimeoutIgnored(n)
    BY <1>1, <2>2 DEF TimeoutIgnored
  <2>3. CASE HeartbeatTick(n)
    BY <2>3, HeartbeatStep
  <2>4. CASE CheckQuorumFails(n)
    BY <2>4, CheckQuorumStep
  <2>5. CASE ProposeWrite(n)
    <3>1. PICK v \in Value : Propose(n, Write(v))
      BY <2>5 DEF ProposeWrite
    <3>2. Write(v) \in Command
      BY DEF Command
    <3> QED BY <3>1, <3>2, ProposeStep
  <2>6. CASE ProposeConfig(n)
    <3>1. PICK new \in Configs : Propose(n, ConfigChange(new))
      BY <2>6 DEF ProposeConfig
    <3>2. ConfigChange(new) \in Command
      BY DEF Command, ConfigChange
    <3> QED BY <3>1, <3>2, ProposeStep
  <2>7. CASE Read(n)
    BY <2>7, ReadStep
  <2> QED BY <1>2, <2>1, <2>2, <2>3, <2>4, <2>5, <2>6, <2>7
<1>3. ASSUME NEW m \in msgs, Receive(m) PROVE ElectionInv'
  <2>1. CASE HandlePreVote(m)
    BY <2>1, HandlePreVoteStep
  <2>2. CASE HandleRequestVote(m)
    BY <2>2, HandleRequestVoteStep
  <2>3. CASE HandleAppendEntries(m)
    BY <2>3, HandleAppendEntriesStep
  <2>4. CASE HandleInstallSnapshot(m)
    BY <2>4, HandleInstallSnapshotStep
  <2>5. CASE HandlePreVoteReply(m)
    BY <2>5, DeposeStep, CountPreVoteStep DEF HandlePreVoteReply
  <2>6. CASE HandleVoteReply(m)
    BY <2>6, DeposeStep, CountVoteStep DEF HandleVoteReply
  <2>7. CASE HandleAppendReply(m)
    BY <2>7, DeposeStep, AppendReplyStep DEF HandleAppendReply
  <2>8. CASE HandleInstallReply(m)
    BY <2>8, DeposeStep, InstallReplyStep DEF HandleInstallReply
  <2> QED BY <1>3, <2>1, <2>2, <2>3, <2>4, <2>5, <2>6, <2>7, <2>8 DEF Receive
<1>4. CASE Crash
  BY <1>4, RestartStep, CrashAfterTermStep, CrashInAppendStep, CrashInInstallStep DEF Crash
<1> QED BY <1>1, <1>2, <1>3, <1>4 DEF Next

LEMMA ElectionInvHolds == Spec => []ElectionInv
BY ElectionInvInit, ElectionInvNext, PTL DEF Spec

\* For every cluster, membership history and bound: node states and messages
\* keep their shape in every reachable state.
THEOREM ShapeHolds ==
    Spec => []((\A n \in Node : Shape(node[n])) /\ (\A m \in msgs : MessageShape(m)))
<1>1. ElectionInv => (\A n \in Node : Shape(node[n])) /\ (\A m \in msgs : MessageShape(m))
  BY DEF ElectionInv, GoodNode, GoodMessage
<1> QED BY <1>1, ElectionInvHolds, PTL

\* For every cluster and membership history, no node ever makes two votes of
\* one term durable, whatever is lost, repeated or delayed and wherever the
\* process dies (handle_request_vote, maybe_start_election, Storage::open).
THEOREM VoteOnceHolds == Spec => []VoteOnce
<1>1. ElectionInv => VoteOnce
  BY DEF ElectionInv
<1> QED BY <1>1, ElectionInvHolds, PTL

\* For every cluster and membership history, the leader a node redirects its
\* clients to won the node's current term.
THEOREM HintsAreLeadersHold == Spec => []HintsAreLeaders
<1>1. ElectionInv => HintsAreLeaders
  BY Zenon DEF ElectionInv, HintsAreLeaders, GoodNode, Leadership
<1> QED BY <1>1, ElectionInvHolds, PTL

\* Any two majorities of any two memberships of the cluster's history meet.
QuorumsMeet ==
    \A M, N \in Membership : \A P \in SUBSET M, Q \in SUBSET N :
        Cardinality(P) >= Majority(M) /\ Cardinality(Q) >= Majority(N) => P \cap Q # {}

\* Majorities of a set and of the set without one element meet.
LEMMA AdjacentQuorumsMeet ==
    ASSUME NEW U, IsFiniteSet(U), NEW x, NEW M \in {U, U \ {x}}, NEW N \in {U, U \ {x}},
           NEW P \in SUBSET M, NEW Q \in SUBSET N,
           Cardinality(P) >= Majority(M), Cardinality(Q) >= Majority(N)
    PROVE  P \cap Q # {}
<1> DEFINE V == U \ {x}
<1>1. /\ IsFiniteSet(M) /\ IsFiniteSet(N) /\ IsFiniteSet(P) /\ IsFiniteSet(Q) /\ IsFiniteSet(V)
  BY FS_Subset
<1>2. /\ Cardinality(M) \in Nat /\ Cardinality(N) \in Nat /\ Cardinality(U) \in Nat
      /\ Cardinality(P) \in Nat /\ Cardinality(Q) \in Nat
  BY <1>1, FS_CardinalityType
<1>3. Cardinality(V) \in {Cardinality(U), Cardinality(U) - 1}
  BY FS_RemoveElement
<1>4. CASE M = N
  <2>1. Cardinality(P) + Cardinality(Q) > Cardinality(M)
    BY <1>2, <1>4 DEF Majority
  <2> QED BY <1>1, <1>4, <2>1, FS_MajoritiesIntersect
<1>5. CASE M # N
  <2>1. \/ Cardinality(M) = Cardinality(U) /\ Cardinality(N) = Cardinality(V)
        \/ Cardinality(N) = Cardinality(U) /\ Cardinality(M) = Cardinality(V)
    BY <1>5
  <2> HIDE DEF V
  <2>2. Cardinality(P) + Cardinality(Q) > Cardinality(U)
    BY <1>2, <1>3, <2>1 DEF Majority
  <2>3. P \subseteq U /\ Q \subseteq U
    OBVIOUS
  <2> QED BY <2>2, <2>3, FS_MajoritiesIntersect
<1> QED BY <1>4, <1>5

LEMMA OneServerQuorumsMeet ==
    ASSUME NEW x \in Node, Configs \subseteq {Bootstrap \cup {x}, Bootstrap \ {x}}
    PROVE  QuorumsMeet
<1> DEFINE U == Bootstrap \cup {x}
<1>1. IsFiniteSet(U)
  BY BootstrapAssumption, FS_Subset
<1>2. \A M \in Membership : M \in {U, U \ {x}, {}}
  BY DEF Membership
<1>3. ASSUME NEW P \in SUBSET {} PROVE ~(Cardinality(P) >= Majority({}))
  <2>1. Cardinality({}) = 0
    BY FS_EmptySet
  <2>2. P = {}
    OBVIOUS
  <2>3. Cardinality(P) = 0
    BY <2>1, <2>2
  <2>4. Majority({}) = 1
    BY <2>1 DEF Majority
  <2> QED BY <2>3, <2>4
<1> HIDE DEF U
<1> SUFFICES ASSUME NEW M \in Membership, NEW N \in Membership,
                    NEW P \in SUBSET M, NEW Q \in SUBSET N,
                    Cardinality(P) >= Majority(M), Cardinality(Q) >= Majority(N)
             PROVE  P \cap Q # {}
  BY DEF QuorumsMeet
<1>4. M # {} /\ N # {}
  BY <1>3, Zenon
<1>5. M \in {U, U \ {x}} /\ N \in {U, U \ {x}}
  BY <1>2, <1>4
<1> QED BY <1>1, <1>5, AdjacentQuorumsMeet, Zenon

\* No term has two leaders, in every cluster of any size of which one server
\* may join and leave any number of times (Configs = {} is the fixed cluster).
THEOREM ElectionSafetyHolds ==
    ASSUME NEW x \in Node, Configs \subseteq {Bootstrap \cup {x}, Bootstrap \ {x}}
    PROVE  Spec => []ElectionSafety
<1>1. QuorumsMeet
  BY OneServerQuorumsMeet
<1>2. ElectionInv => ElectionSafety
  <2> SUFFICES ASSUME ElectionInv, NEW e \in elected, NEW f \in elected, e.term = f.term
               PROVE  e.leader = f.leader
    BY DEF ElectionSafety
  <2>1. PICK M \in Membership : \E P \in SUBSET M :
           /\ Cardinality(P) >= Majority(M)
           /\ \A v \in P : Ballot(e.term, v, e.leader) \in ballots
    BY DEF ElectionInv, Backed
  <2>1q. PICK P \in SUBSET M :
           /\ Cardinality(P) >= Majority(M)
           /\ \A v \in P : Ballot(e.term, v, e.leader) \in ballots
    BY <2>1
  <2>2. PICK N \in Membership : \E Q \in SUBSET N :
           /\ Cardinality(Q) >= Majority(N)
           /\ \A v \in Q : Ballot(f.term, v, f.leader) \in ballots
    BY DEF ElectionInv, Backed
  <2>2q. PICK Q \in SUBSET N :
           /\ Cardinality(Q) >= Majority(N)
           /\ \A v \in Q : Ballot(f.term, v, f.leader) \in ballots
    BY <2>2
  <2>3. PICK v : v \in P \cap Q
    BY <1>1, <2>1q, <2>2q DEF QuorumsMeet
  <2>4. Ballot(e.term, v, e.leader) \in ballots /\ Ballot(f.term, v, f.leader) \in ballots
    BY <2>1q, <2>2q, <2>3
  <2> QED BY <2>4 DEF ElectionInv, VoteOnce, Ballot
<1> QED BY <1>2, ElectionInvHolds, PTL
=============================================================================

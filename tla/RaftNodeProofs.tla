--------------------------- MODULE RaftNodeProofs ---------------------------
(***************************************************************************)
(* The shape of a node's state and of the messages, for every set of nodes *)
(* and every set of configurations, and that every helper of module        *)
(* RaftNode preserves it (ShapeHolds, in RaftElectionProofs, is the        *)
(* theorem).  The shape is the type invariant without what only the safety *)
(* of the whole protocol guarantees: that indexes stay within the log.     *)
(***************************************************************************)
EXTENDS RaftSafety, FiniteSetTheorems, TLAPS

-----------------------------------------------------------------------------
(* Extrema of finite sets of integers.                                     *)

\* A finite non-empty set has an element that no other is above.
LEMMA FiniteMax ==
    ASSUME NEW S \in SUBSET Int, IsFiniteSet(S), S # {}
    PROVE  Max(S) \in S /\ \A y \in S : Max(S) >= y
<1> DEFINE Above(x) == {y \in S : y > x}
           T == {Above(x) : x \in S}
<1>1. T \subseteq SUBSET S /\ T # {}
  BY Zenon
<1>2. IsWellFoundedOn(StrictSubsetOrdering(S), SUBSET S)
  BY FS_StrictSubsetOrderingWellFounded, FS_FiniteSubsetsOfFinite, Zenon
<1>3. PICK U \in T : \A V \in T : <<V, U>> \notin StrictSubsetOrdering(S)
  <2> HIDE DEF T
  <2> QED BY <1>1, <1>2, WFMin, Zenon
<1>4. PICK x \in S : U = Above(x)
  OBVIOUS
<1>5. ASSUME NEW y \in S, y > x PROVE FALSE
  <2>1. Above(y) \subseteq Above(x) /\ Above(y) # Above(x)
    <3>1. y \in Above(x) /\ y \notin Above(y)
      BY <1>5
    <3>2. \A z \in Above(y) : z \in Above(x)
      BY <1>5
    <3> QED BY <3>1, <3>2, Zenon
  <2>2. <<Above(y), U>> \in StrictSubsetOrdering(S)
    BY <2>1, <1>4 DEF StrictSubsetOrdering
  <2> QED BY <2>2, <1>3, Zenon
<1>6. \A y \in S : x >= y
  BY <1>5
<1> QED BY <1>6, Zenon DEF Max

LEMMA FiniteMin ==
    ASSUME NEW S \in SUBSET Int, IsFiniteSet(S), S # {}
    PROVE  Min(S) \in S /\ \A y \in S : Min(S) <= y
<1> DEFINE Below(x) == {y \in S : y < x}
           T == {Below(x) : x \in S}
<1>1. T \subseteq SUBSET S /\ T # {}
  BY Zenon
<1>2. IsWellFoundedOn(StrictSubsetOrdering(S), SUBSET S)
  BY FS_StrictSubsetOrderingWellFounded, FS_FiniteSubsetsOfFinite, Zenon
<1>3. PICK U \in T : \A V \in T : <<V, U>> \notin StrictSubsetOrdering(S)
  <2> HIDE DEF T
  <2> QED BY <1>1, <1>2, WFMin, Zenon
<1>4. PICK x \in S : U = Below(x)
  OBVIOUS
<1>5. ASSUME NEW y \in S, y < x PROVE FALSE
  <2>1. Below(y) \subseteq Below(x) /\ Below(y) # Below(x)
    <3>1. y \in Below(x) /\ y \notin Below(y)
      BY <1>5
    <3>2. \A z \in Below(y) : z \in Below(x)
      BY <1>5
    <3> QED BY <3>1, <3>2, Zenon
  <2>2. <<Below(y), U>> \in StrictSubsetOrdering(S)
    BY <2>1, <1>4 DEF StrictSubsetOrdering
  <2> QED BY <2>2, <1>3, Zenon
<1>6. \A y \in S : x <= y
  BY <1>5
<1> QED BY <1>6, Zenon DEF Min

\* Positions in a sequence.
LEMMA PositionsFinite ==
    ASSUME NEW T, NEW q \in Seq(T), NEW S \in SUBSET DOMAIN q
    PROVE  S \in SUBSET Int /\ IsFiniteSet(S)
<1>1. DOMAIN q = 1 .. Len(q) /\ Len(q) \in Nat
  OBVIOUS
<1>2. IsFiniteSet(1 .. Len(q))
  BY <1>1, FS_Interval
<1> QED BY <1>1, <1>2, FS_Subset

LEMMA MinOfTwo ==
    ASSUME NEW x \in Int, NEW y \in Int
    PROVE  Min({x, y}) \in {x, y}
BY DEF Min

LEMMA MaxOfTwo ==
    ASSUME NEW x \in Int, NEW y \in Int
    PROVE  Max({x, y}) \in {x, y}
BY DEF Max
-----------------------------------------------------------------------------
(* Shapes.                                                                 *)

NodeFields ==
    {"term", "votedFor", "snap", "log", "role", "leaderId", "commitIndex", "lastApplied",
     "sm", "pending", "staged", "members", "membersIndex", "contacted", "told", "granted"}

LeaderFields ==
    {"kind", "next", "match", "termStart", "seq", "acked", "departing", "reads"}

SnapShape(snap) ==
    /\ DOMAIN snap = {"index", "term", "members", "state"}
    /\ snap.index \in Nat
    /\ snap.term \in Int
    /\ snap.members \in {Nil} \cup Configs

StageShape(staged) ==
    /\ staged.index \in Nat
    /\ staged.members \in {Nil} \cup Configs

LeaderShape(role) ==
    /\ DOMAIN role = LeaderFields
    /\ role.kind = "leader"
    /\ role.next \in [Node -> Nat]
    /\ role.match \in [Node -> Nat]
    /\ role.termStart \in Nat
    /\ role.seq \in Nat
    /\ role.acked \in [Node -> Int]
    /\ role.departing \in [Node -> Nat]

RoleShape(role) ==
    \/ role = Follower
    \/ role \in [kind : {"precandidate", "candidate"}, votes : SUBSET Node]
    \/ LeaderShape(role)

Shape(s) ==
    /\ DOMAIN s = NodeFields
    /\ s.term \in Nat
    /\ s.votedFor \in Node \cup {Nil}
    /\ SnapShape(s.snap)
    /\ s.log \in Seq(LogEntry)
    /\ RoleShape(s.role)
    /\ s.leaderId \in Node \cup {Nil}
    /\ s.commitIndex \in Nat
    /\ s.lastApplied \in Nat
    /\ s.staged # Nil => StageShape(s.staged)
    /\ s.members \in Membership
    /\ s.membersIndex \in Nat

MessageShape(m) ==
    /\ m.from \in Node /\ m.to \in Node /\ m.term \in Nat
    /\ m.type \in {"RequestVoteReply", "PreVoteReply"} => m.sentTerm \in Nat
    /\ m.type = "AppendEntries" =>
          m.prevIndex \in Nat /\ m.entries \in Seq(LogEntry) /\ m.commit \in Nat /\ m.seq \in Nat
    /\ m.type = "AppendReply" => m.prevIndex \in Nat /\ m.sent \in Nat /\ m.seq \in Nat
    /\ m.type = "InstallSnapshot" => SnapShape(m.snap)
    /\ m.type = "InstallSnapshotReply" => m.index \in Nat

\* From s to t nothing changed that an election looks at, unless a leader or
\* candidate went back to follower.
Quiet(s, t) ==
    /\ t.term = s.term /\ t.votedFor = s.votedFor
    /\ \/ /\ t.leaderId = s.leaderId
          /\ t.role.kind = s.role.kind
          /\ t.role.kind = "candidate" => t.role = s.role
       \/ t.leaderId = Nil /\ t.role = Follower

Kept(s, t) == Shape(t) /\ Quiet(s, t)

LEMMA MembershipFinite ==
    ASSUME NEW M \in Membership
    PROVE  M \subseteq Node /\ IsFiniteSet(M) /\ Cardinality(M) \in Nat
<1>1. M \subseteq Node
  BY ConfigsAssumption, BootstrapAssumption DEF Membership
<1>2. IsFiniteSet(M)
  BY <1>1, BootstrapAssumption, FS_Subset
<1> QED BY <1>1, <1>2, FS_CardinalityType

LEMMA RoleKinds ==
    ASSUME NEW role, RoleShape(role)
    PROVE  /\ "kind" \in DOMAIN role
           /\ role.kind = "leader" => LeaderShape(role)
           /\ role.kind \in {"precandidate", "candidate"} =>
                 role \in [kind : {"precandidate", "candidate"}, votes : SUBSET Node]
           /\ role.kind = "follower" => role = Follower
           /\ role.kind \in {"follower", "precandidate", "candidate", "leader"}
BY DEF RoleShape, LeaderShape, LeaderFields, Follower

LEMMA QuietReflexive ==
    ASSUME NEW s, Shape(s)
    PROVE  Kept(s, s)
BY DEF Kept, Quiet

LEMMA QuietTransitive ==
    ASSUME NEW s, NEW t, NEW u, Kept(s, t), Kept(t, u)
    PROVE  Kept(s, u)
<1>1. u.role.kind = "follower" => u.role = Follower
  BY RoleKinds DEF Kept, Shape
<1>2. Follower.kind = "follower"
  BY DEF Follower
<1> QED BY <1>1, <1>2 DEF Kept, Quiet
-----------------------------------------------------------------------------
(* The log.                                                                *)

LEMMA LastIndexType ==
    ASSUME NEW s, Shape(s)
    PROVE  LastIndex(s) \in Nat /\ LastTerm(s) \in Int
<1>1. CASE s.log = << >>
  BY <1>1 DEF Shape, SnapShape, LastIndex, LastTerm
<1>2. CASE s.log # << >>
  <2>1. Len(s.log) \in 1 .. Len(s.log) /\ s.log[Len(s.log)] \in LogEntry
    BY <1>2 DEF Shape
  <2> QED BY <1>2, <2>1 DEF Shape, SnapShape, LastIndex, LastTerm, LogEntry
<1> QED BY <1>1, <1>2

LEMMA TermAtType ==
    ASSUME NEW s, Shape(s), NEW i \in Int
    PROVE  TermAt(s, i) \in Int
<1>1. CASE HasEntry(s, i)
  <2>1. s.log[Pos(s, i)] \in LogEntry
    BY <1>1 DEF Shape, HasEntry
  <2> QED BY <1>1, <2>1 DEF TermAt, Shape, SnapShape, LogEntry
<1>2. CASE ~HasEntry(s, i)
  BY <1>2 DEF TermAt, Shape, SnapShape, NoTerm
<1> QED BY <1>1, <1>2

LEMMA EntriesFromType ==
    ASSUME NEW s, Shape(s), NEW i \in Int
    PROVE  EntriesFrom(s, i) \in Seq(LogEntry)
BY DEF EntriesFrom, Pos, Shape, SnapShape

LEMMA AppendKeeps ==
    ASSUME NEW s, Shape(s), NEW entries \in Seq(LogEntry)
    PROVE  Kept(s, AppendEntries(s, entries))
BY DEF AppendEntries, Kept, Quiet, Shape, NodeFields

LEMMA TruncateKeeps ==
    ASSUME NEW s, Shape(s), NEW i \in Int, HasEntry(s, i)
    PROVE  Kept(s, TruncateFrom(s, i))
<1>1. Pos(s, i) \in 1 .. Len(s.log) /\ s.log \in Seq(LogEntry)
  BY DEF HasEntry, Shape
<1>2. SubSeq(s.log, 1, Pos(s, i) - 1) \in Seq(LogEntry)
  BY <1>1
<1> QED BY <1>2 DEF TruncateFrom, Kept, Quiet, Shape, NodeFields

LEMMA CompactKeeps ==
    ASSUME NEW s, Shape(s), NEW c, StageShape(c)
    PROVE  Kept(s, CompactTo(s, c))
<1>1. EntriesFrom(s, c.index + 1) \in Seq(LogEntry) /\ TermAt(s, c.index) \in Int
  <2>1. c.index \in Int /\ c.index + 1 \in Int
    BY DEF StageShape
  <2> QED BY <2>1, EntriesFromType, TermAtType, Zenon
<1> DEFINE snap == [index |-> c.index, term |-> TermAt(s, c.index),
                    members |-> c.members, state |-> c.state]
<1>2. SnapShape(snap)
  BY <1>1 DEF SnapShape, StageShape
<1>3. CompactTo(s, c) = [s EXCEPT !.snap = snap, !.log = EntriesFrom(s, c.index + 1)]
  BY DEF CompactTo
<1> HIDE DEF snap
<1> QED BY <1>1, <1>2, <1>3 DEF Kept, Quiet, Shape, NodeFields

LEMMA InstallKeeps ==
    ASSUME NEW s, Shape(s), NEW snap, SnapShape(snap)
    PROVE  /\ Kept(s, InstallSnapshot(s, snap))
           /\ Kept(s, ReopenAfterSnapshotOnly(s, snap))
<1>1. EntriesFrom(s, snap.index + 1) \in Seq(LogEntry) /\ << >> \in Seq(LogEntry)
  BY EntriesFromType DEF SnapShape
<1>2. Kept(s, InstallSnapshot(s, snap))
  BY <1>1 DEF InstallSnapshot, Kept, Quiet, Shape, NodeFields
<1>3. Kept(s, ReopenAfterSnapshotOnly(s, snap))
  BY <1>1 DEF ReopenAfterSnapshotOnly, Kept, Quiet, Shape, NodeFields
<1> QED BY <1>2, <1>3
-----------------------------------------------------------------------------
(* Membership and step-down.                                               *)

\* The members of a configuration entry are one of Configs.
LEMMA ConfigEntry ==
    ASSUME NEW log \in Seq(LogEntry), NEW S \in SUBSET ConfigPositions(log), S # {}
    PROVE  /\ Max(S) \in S /\ Max(S) \in Nat
           /\ log[Max(S)].cmd.members \in Configs
<1>1. S \in SUBSET DOMAIN log
  BY DEF ConfigPositions
<1>2. S \in SUBSET Int /\ IsFiniteSet(S)
  BY <1>1, PositionsFinite
<1>3. Max(S) \in S
  BY <1>2, FiniteMax
<1>4. log[Max(S)] \in LogEntry /\ log[Max(S)].cmd.op = "config" /\ Max(S) \in Nat
  BY <1>3 DEF ConfigPositions
<1> QED BY <1>3, <1>4 DEF LogEntry, Command, Noop, Write

LEMMA DeriveType ==
    ASSUME NEW s, Shape(s), NEW n
    PROVE  /\ DeriveMembership(n, s).members \in Membership
           /\ DeriveMembership(n, s).index \in Nat
<1>1. CASE ConfigPositions(s.log) # {}
  <2> DEFINE last == Max(ConfigPositions(s.log))
  <2>1. last \in Nat /\ s.log[last].cmd.members \in Configs
    BY <1>1, ConfigEntry DEF Shape
  <2>2. DeriveMembership(n, s) = [members |-> s.log[last].cmd.members,
                                  index |-> s.snap.index + last]
    BY <1>1 DEF DeriveMembership
  <2> HIDE DEF last
  <2> QED BY <2>1, <2>2 DEF Membership, Shape, SnapShape
<1>2. CASE ConfigPositions(s.log) = {}
  BY <1>2 DEF DeriveMembership, Membership, Shape, SnapShape
<1> QED BY <1>1, <1>2

LEMMA MembershipAtType ==
    ASSUME NEW s, Shape(s), NEW i
    PROVE  MembershipAt(s, i) \in {Nil} \cup Configs
<1> DEFINE positions == {k \in ConfigPositions(s.log) : s.snap.index + k <= i}
<1>1. positions # {} => s.log[Max(positions)].cmd.members \in Configs
  BY ConfigEntry, Zenon DEF Shape
<1> HIDE DEF positions
<1>2. MembershipAt(s, i) = IF positions # {} THEN s.log[Max(positions)].cmd.members
                                             ELSE s.snap.members
  BY DEF MembershipAt, positions
<1> QED BY <1>1, <1>2 DEF Shape, SnapShape

LEMMA AdoptKeeps ==
    ASSUME NEW s, Shape(s), NEW n, NEW M \in Membership, NEW i \in Nat
    PROVE  Kept(s, AdoptMembership(n, s, M, i))
<1> DEFINE owed == [p \in Node |-> IF p \in M THEN 0
                                   ELSE IF p \in Peers(n, s) THEN i
                                   ELSE s.role.departing[p]]
           role == IF IsLeader(s) THEN [s.role EXCEPT !.departing = owed] ELSE s.role
<1>1. RoleShape(role) /\ role.kind = s.role.kind /\ (role.kind = "candidate" => role = s.role)
  <2>1. CASE IsLeader(s)
    <3>1. LeaderShape(s.role)
      BY <2>1, RoleKinds DEF IsLeader, Shape
    <3>2. owed \in [Node -> Nat]
      BY <3>1 DEF LeaderShape
    <3> HIDE DEF owed
    <3> QED BY <2>1, <3>1, <3>2 DEF RoleShape, LeaderShape, LeaderFields
  <2>2. CASE ~IsLeader(s)
    BY <2>2 DEF Shape
  <2> QED BY <2>1, <2>2
<1>2. AdoptMembership(n, s, M, i) = [s EXCEPT !.members = M, !.membersIndex = i, !.role = role]
  BY DEF AdoptMembership
<1> HIDE DEF role
<1> QED BY <1>1, <1>2 DEF Kept, Quiet, Shape, NodeFields

LEMMA RescanKeeps ==
    ASSUME NEW s, Shape(s), NEW n
    PROVE  Kept(s, RescanMembership(n, s))
BY DeriveType, AdoptKeeps DEF RescanMembership

LEMMA BecomeFollowerType ==
    ASSUME NEW s, Shape(s), NEW t \in Nat, NEW l \in Node \cup {Nil}
    PROVE  LET f == BecomeFollower(s, t, l)
           IN  /\ Shape(f) /\ f.term = t /\ f.leaderId = l /\ f.role = Follower
               /\ f.votedFor = IF t > s.term THEN Nil ELSE s.votedFor
BY DEF BecomeFollower, Shape, NodeFields, RoleShape
-----------------------------------------------------------------------------
(* Applying and committing.                                                *)

LEMMA ApplyEntriesKeeps ==
    ASSUME NEW s, Shape(s)
    PROVE  Kept(s, ApplyEntries(s))
BY DEF ApplyEntries, Kept, Quiet, Shape, NodeFields

LEMMA ResolvePendingKeeps ==
    ASSUME NEW s, Shape(s)
    PROVE  Kept(s, ResolvePending(s))
BY DEF ResolvePending, Kept, Quiet, Shape, NodeFields

LEMMA ResolveReadsKeeps ==
    ASSUME NEW s, Shape(s), NEW n
    PROVE  Kept(s, ResolveReads(n, s))
<1>1. CASE ~IsLeader(s)
  BY <1>1, QuietReflexive DEF ResolveReads
<1>2. CASE IsLeader(s)
  <2>1. LeaderShape(s.role)
    BY <1>2, RoleKinds DEF IsLeader, Shape
  <2> DEFINE servable == {r \in s.role.reads : ReadServable(n, s, r)}
             role == [s.role EXCEPT !.reads = s.role.reads \ servable]
             answers == s.granted \cup {[floor |-> r.floor, at |-> s.lastApplied]
                                        : r \in servable}
  <2>2. LeaderShape(role)
    <3> HIDE DEF servable
    <3> QED BY <2>1 DEF LeaderShape, LeaderFields
  <2>3. ResolveReads(n, s) = [s EXCEPT !.role = role, !.granted = answers]
    BY <1>2 DEF ResolveReads
  <2> HIDE DEF role, answers
  <2>4. role.kind = "leader" /\ s.role.kind = "leader" /\ RoleShape(role)
    BY <2>1, <2>2 DEF LeaderShape, RoleShape
  <2> QED BY <2>3, <2>4 DEF Kept, Quiet, Shape, NodeFields
<1> QED BY <1>1, <1>2

LEMMA StageType ==
    ASSUME NEW s, Shape(s)
    PROVE  Stage(s) # Nil => StageShape(Stage(s))
<1>1. LiveStage(s) # Nil => StageShape(LiveStage(s))
  BY DEF LiveStage, Shape
<1> DEFINE capture == [index |-> s.lastApplied, state |-> s.sm,
                       members |-> MembershipAt(s, s.lastApplied)]
<1>2. StageShape(capture)
  BY MembershipAtType DEF StageShape, Shape
<1>3. Stage(s) \in {capture, LiveStage(s)}
  BY DEF Stage
<1> QED BY <1>1, <1>2, <1>3

LEMMA MaybeCompactKeeps ==
    ASSUME NEW s, Shape(s)
    PROVE  Kept(s, MaybeCompact(s))
<1>1. CASE MaybeCompact(s) = s
  BY <1>1, QuietReflexive
<1>2. CASE /\ Stage(s) # Nil
           /\ MaybeCompact(s) = [CompactTo(s, Stage(s)) EXCEPT !.staged = Nil]
  <2>1. Kept(s, CompactTo(s, Stage(s)))
    BY <1>2, StageType, CompactKeeps
  <2> QED BY <1>2, <2>1 DEF Kept, Quiet, Shape, NodeFields
<1>3. CASE MaybeCompact(s) = [s EXCEPT !.staged = Stage(s)]
  BY <1>3, StageType DEF Kept, Quiet, Shape, NodeFields
<1> QED BY <1>1, <1>2, <1>3 DEF MaybeCompact

LEMMA ApplyCommittedKeeps ==
    ASSUME NEW s, Shape(s), NEW n
    PROVE  Kept(s, ApplyCommitted(n, s))
<1> DEFINE a == ApplyEntries(s)
           b == ResolvePending(a)
           c == ResolveReads(n, b)
<1>1. Kept(s, a)
  BY ApplyEntriesKeeps
<1>2. Kept(a, b)
  BY <1>1, ResolvePendingKeeps DEF Kept
<1>3. Kept(b, c)
  BY <1>2, ResolveReadsKeeps DEF Kept
<1>4. Kept(c, MaybeCompact(c))
  BY <1>3, MaybeCompactKeeps DEF Kept
<1>5. ApplyCommitted(n, s) = MaybeCompact(c)
  BY DEF ApplyCommitted
<1> HIDE DEF a, b, c
<1> QED BY <1>1, <1>2, <1>3, <1>4, <1>5, QuietTransitive

\* The set that CommitCandidate takes the maximum of is not empty: a majority
\* holds the least of the match indexes.
LEMMA CommitCandidateType ==
    ASSUME NEW s, Shape(s), LeaderShape(s.role), NEW n \in Node, s.members # {}
    PROVE  CommitCandidate(n, s) \in Nat
<1> DEFINE M == s.members
           held == [p \in M |-> IF p = n THEN LastIndex(s) ELSE s.role.match[p]]
           holders(i) == {p \in M : held[p] >= i}
           H == {held[p] : p \in M}
           C == {i \in H : Cardinality(holders(i)) >= Majority(M)}
<1>1. M \subseteq Node /\ IsFiniteSet(M) /\ Cardinality(M) \in Nat
  BY MembershipFinite DEF Shape
<1>2. held \in [M -> Nat]
  BY <1>1, LastIndexType DEF LeaderShape
<1>3. CommitCandidate(n, s) = Max(C)
  BY DEF CommitCandidate
<1> HIDE DEF held
<1>4. H \in SUBSET Int /\ H # {} /\ IsFiniteSet(H)
  <2>1. H \in SUBSET Int /\ H # {}
    BY <1>2
  <2>2. IsFiniteSet(H)
    <3> DEFINE f == [p \in M |-> held[p]]
    <3>1. f \in Surjection(M, H)
      BY DEF Surjection
    <3> HIDE DEF f, H
    <3> QED BY <3>1, <1>1, FS_Surjection
  <2> QED BY <2>1, <2>2
<1>5. Min(H) \in H /\ \A y \in H : Min(H) <= y
  <2> HIDE DEF H
  <2> QED BY <1>4, FiniteMin
<1>6. holders(Min(H)) = M
  <2>1. Min(H) \in Int
    BY <1>4, <1>5
  <2>2. \A p \in M : held[p] \in H /\ held[p] \in Nat
    BY <1>2
  <2> QED BY <1>5, <2>1, <2>2
<1>7. Cardinality(M) >= Majority(M)
  <2>1. Cardinality(M) # 0
    BY <1>1, FS_EmptySet
  <2> QED BY <1>1, <2>1 DEF Majority
<1>8. Min(H) \in C
  BY <1>5, <1>6, <1>7, Zenon
<1>9. C \in SUBSET Int /\ IsFiniteSet(C) /\ C # {} /\ C \subseteq Nat
  <2>1. C \in SUBSET H /\ C \subseteq Nat
    BY <1>2
  <2> HIDE DEF C, H
  <2> QED BY <1>4, <1>8, <2>1, FS_Subset, Zenon
<1>10. Max(C) \in C
  <2> HIDE DEF C
  <2> QED BY <1>9, FiniteMax
<1> QED BY <1>3, <1>9, <1>10

LEMMA AdvanceKeeps ==
    ASSUME NEW s, Shape(s), NEW n \in Node, IsLeader(s), s.members # {}
    PROVE  Kept(s, AdvanceCommit(n, s))
<1> DEFINE i == CommitCandidate(n, s)
           t == [s EXCEPT !.commitIndex = i]
<1>1. i \in Nat
  BY CommitCandidateType, RoleKinds DEF IsLeader, Shape
<1>2. AdvanceCommit(n, s) \in {s, ApplyCommitted(n, t)}
  BY DEF AdvanceCommit
<1> HIDE DEF i
<1>3. Kept(s, t)
  BY <1>1 DEF Kept, Quiet, Shape, NodeFields
<1> HIDE DEF t
<1>4. Kept(t, ApplyCommitted(n, t))
  BY <1>3, ApplyCommittedKeeps DEF Kept
<1> QED BY <1>2, <1>3, <1>4, QuietReflexive, QuietTransitive

LEMMA MaybeAdvanceKeeps ==
    ASSUME NEW s, Shape(s), NEW n \in Node
    PROVE  Kept(s, MaybeAdvanceCommit(n, s))
<1> DEFINE t == AdvanceCommit(n, s)
<1>1. CASE IsLeader(s) /\ s.members # {}
  <2>1. Kept(s, t)
    BY <1>1, AdvanceKeeps
  <2>2. MaybeAdvanceCommit(n, s) \in {t, BecomeFollower(t, t.term, Nil)}
    BY <1>1 DEF MaybeAdvanceCommit, StepDownIfRemoved
  <2> HIDE DEF t
  <2>3. t.term \in Nat /\ Shape(t)
    BY <2>1 DEF Kept, Shape
  <2>4. Kept(t, BecomeFollower(t, t.term, Nil))
    BY <2>3, BecomeFollowerType DEF Kept, Quiet
  <2> QED BY <2>1, <2>2, <2>4, QuietTransitive
<1>2. CASE ~(IsLeader(s) /\ s.members # {})
  BY <1>2, QuietReflexive DEF MaybeAdvanceCommit
<1> QED BY <1>1, <1>2
-----------------------------------------------------------------------------
(* Outgoing requests.                                                      *)

\* A request that n may send in state s: only leaders replicate.
Outgoing(n, s, m) ==
    /\ MessageShape(m)
    /\ m.from = n
    /\ m.type \in {"PreVote", "RequestVote", "AppendEntries", "InstallSnapshot"}
    /\ m.type \in {"AppendEntries", "InstallSnapshot"} => IsLeader(s) /\ m.term = s.term

LEMMA SendAppendType ==
    ASSUME NEW s, Shape(s), NEW n \in Node, NEW p \in Node, NEW m \in SendAppend(n, s, p)
    PROVE  Outgoing(n, s, m)
<1> DEFINE next == IF s.role.next[p] = 0 THEN LastIndex(s) + 1 ELSE s.role.next[p]
<1>1. IsLeader(s)
  BY DEF SendAppend
<1>2. LeaderShape(s.role)
  BY <1>1, RoleKinds DEF IsLeader, Shape
<1>3. next \in Nat
  BY <1>2, LastIndexType DEF LeaderShape
<1> HIDE DEF next
<1>4. CASE m = [type |-> "InstallSnapshot", from |-> n, to |-> p, term |-> s.term,
                snap |-> s.snap]
  BY <1>1, <1>4 DEF Outgoing, MessageShape, Shape
<1>5. CASE /\ ~NeedsSnapshot(s, next)
           /\ m = [type |-> "AppendEntries", from |-> n, to |-> p, term |-> s.term,
                   prevIndex |-> next - 1, prevTerm |-> TermAt(s, next - 1),
                   entries |-> EntriesFrom(s, next), commit |-> s.commitIndex,
                   seq |-> s.role.seq]
  <2>1. next - 1 \in Nat
    BY <1>3, <1>5 DEF NeedsSnapshot, Shape, SnapShape
  <2>2. EntriesFrom(s, next) \in Seq(LogEntry)
    BY <1>3, EntriesFromType
  <2> QED BY <1>1, <1>2, <1>5, <2>1, <2>2 DEF Outgoing, MessageShape, Shape, LeaderShape
<1> QED BY <1>4, <1>5 DEF SendAppend, next

LEMMA TargetsAreNodes ==
    ASSUME NEW s, Shape(s), NEW n
    PROVE  Peers(n, s) \subseteq Node /\ ReplicationTargets(n, s) \subseteq Node
BY MembershipFinite DEF Peers, ReplicationTargets, Shape

LEMMA FanOutType ==
    ASSUME NEW s, Shape(s), NEW n \in Node, NEW targets \in SUBSET Node,
           NEW m \in FanOut(n, s, targets)
    PROVE  Outgoing(n, s, m)
BY SendAppendType DEF FanOut

LEMMA VoteRequestType ==
    ASSUME NEW s, NEW n \in Node, NEW p \in Node, NEW t \in Nat,
           NEW type \in {"PreVote", "RequestVote"}
    PROVE  Outgoing(n, s, VoteRequest(type, n, s, t, p))
BY DEF VoteRequest, Outgoing, MessageShape

LEMMA SolicitType ==
    ASSUME NEW s, Shape(s), NEW n \in Node, NEW m \in Solicit(n, s)
    PROVE  Outgoing(n, s, m)
<1>1. s.term \in Nat /\ s.term + 1 \in Nat
  BY DEF Shape
<1>2. Peers(n, s) \subseteq Node /\ ReplicationTargets(n, s) \in SUBSET Node
  BY TargetsAreNodes
<1>3. CASE s.role.kind = "precandidate"
  <2>1. PICK p \in Peers(n, s) : m = VoteRequest("PreVote", n, s, s.term + 1, p)
    BY <1>3 DEF Solicit
  <2> QED BY <1>1, <1>2, <2>1, VoteRequestType
<1>4. CASE s.role.kind = "candidate"
  <2>1. PICK p \in Peers(n, s) : m = VoteRequest("RequestVote", n, s, s.term, p)
    BY <1>4 DEF Solicit
  <2> QED BY <1>1, <1>2, <2>1, VoteRequestType
<1>5. CASE s.role.kind = "leader"
  <2>1. m \in FanOut(n, s, ReplicationTargets(n, s))
    BY <1>5 DEF Solicit
  <2> QED BY <1>2, <2>1, FanOutType
<1>6. CASE s.role.kind \notin {"precandidate", "candidate", "leader"}
  BY <1>6 DEF Solicit
<1> QED BY <1>3, <1>4, <1>5, <1>6
-----------------------------------------------------------------------------
(* Elections.                                                              *)

LEMMA MaybeBecomeLeaderType ==
    ASSUME NEW s, Shape(s), NEW n \in Node
    PROVE  LET t == MaybeBecomeLeader(n, s)
           IN  /\ Shape(t)
               /\ t.term = s.term /\ t.votedFor = s.votedFor
               /\ \/ t = s
                  \/ /\ HasMajority(s)
                     /\ \/ IsLeader(t) /\ t.leaderId = n
                        \/ t.role = Follower /\ t.leaderId = Nil
<1>1. CASE ~HasMajority(s)
  BY <1>1 DEF MaybeBecomeLeader
<1>2. CASE HasMajority(s)
  <2> DEFINE role == Leader(LastIndex(s) + 1, Peers(n, s))
             led == [s EXCEPT !.role = role, !.leaderId = n]
             noop == <<Entry(s.term, Noop)>>
             longer == AppendEntries(led, noop)
             t == MaybeAdvanceCommit(n, longer)
  <2>1. LeaderShape(role)
    <3>1. LastIndex(s) + 1 \in Nat
      BY LastIndexType
    <3> QED BY <3>1 DEF Leader, LeaderShape, LeaderFields
  <2> HIDE DEF role
  <2>2. /\ Shape(led) /\ led.role.kind = "leader" /\ led.leaderId = n
        /\ led.term = s.term /\ led.votedFor = s.votedFor
    BY <2>1, Zenon DEF Shape, NodeFields, RoleShape, LeaderShape
  <2>3. noop \in Seq(LogEntry)
    BY DEF Entry, LogEntry, Command, Shape
  <2> HIDE DEF led, noop
  <2>4. Kept(led, longer)
    BY <2>2, <2>3, AppendKeeps
  <2> HIDE DEF longer
  <2>5. Kept(longer, t)
    BY <2>4, MaybeAdvanceKeeps DEF Kept
  <2>6. MaybeBecomeLeader(n, s) = t
    BY <1>2 DEF MaybeBecomeLeader, t, longer, led, noop, role
  <2> HIDE DEF t
  <2>7. Kept(led, t)
    BY <2>4, <2>5, QuietTransitive
  <2> QED BY <1>2, <2>2, <2>6, <2>7 DEF Kept, Quiet, IsLeader
<1> QED BY <1>1, <1>2

\* The candidate that a pre-vote majority makes of s.
Standing(n, s) ==
    [s EXCEPT !.term = s.term + 1, !.votedFor = n, !.role = Candidate({n}), !.leaderId = Nil]

LEMMA StandingType ==
    ASSUME NEW s, Shape(s), NEW n \in Node
    PROVE  LET c == Standing(n, s)
           IN  /\ Shape(c)
               /\ c.term = s.term + 1 /\ c.votedFor = n
               /\ c.role = Candidate({n}) /\ c.leaderId = Nil
<1>1. RoleShape(Candidate({n}))
  BY DEF RoleShape, Candidate
<1> QED BY <1>1 DEF Standing, Shape, NodeFields

LEMMA MaybeStartElectionCases ==
    ASSUME NEW s, NEW n
    PROVE  MaybeStartElection(n, s) \in {s, MaybeBecomeLeader(n, Standing(n, s))}
BY DEF MaybeStartElection, Standing
-----------------------------------------------------------------------------
(* Inbound replication.                                                    *)

LEMMA FollowLeaderType ==
    ASSUME NEW s, Shape(s), NEW m, MessageShape(m)
    PROVE  LET f == FollowLeader(s, m)
           IN  /\ Shape(f) /\ f.term = m.term /\ f.leaderId = m.from /\ f.role = Follower
               /\ f.votedFor = IF m.term > s.term THEN Nil ELSE s.votedFor
<1> DEFINE b == BecomeFollower(s, m.term, m.from)
<1>1. /\ Shape(b) /\ b.term = m.term /\ b.leaderId = m.from /\ b.role = Follower
      /\ b.votedFor = IF m.term > s.term THEN Nil ELSE s.votedFor
  BY BecomeFollowerType DEF MessageShape
<1> HIDE DEF b
<1>2. FollowLeader(s, m) = [b EXCEPT !.contacted = TRUE]
  BY DEF FollowLeader, b
<1> QED BY <1>1, <1>2 DEF Shape, NodeFields

LEMMA FirstMissing ==
    ASSUME NEW s, NEW m, MessageShape(m), m.type = "AppendEntries", Missing(s, m) # {}
    PROVE  Min(Missing(s, m)) \in 1 .. Len(m.entries)
<1>1. m.entries \in Seq(LogEntry)
  BY DEF MessageShape
<1>2. Missing(s, m) \in SUBSET DOMAIN m.entries
  BY DEF Missing
<1>3. Missing(s, m) \in SUBSET Int /\ IsFiniteSet(Missing(s, m))
  BY <1>1, <1>2, PositionsFinite
<1>4. Min(Missing(s, m)) \in Missing(s, m)
  BY <1>3, FiniteMin
<1> QED BY <1>1, <1>2, <1>4

LEMMA NewEntriesType ==
    ASSUME NEW s, NEW m, MessageShape(m), m.type = "AppendEntries"
    PROVE  NewEntries(s, m) \in Seq(LogEntry)
<1>1. m.entries \in Seq(LogEntry)
  BY DEF MessageShape
<1>2. CASE Missing(s, m) # {}
  <2>1. Min(Missing(s, m)) \in 1 .. Len(m.entries)
    BY <1>2, FirstMissing
  <2>2. SubSeq(m.entries, Min(Missing(s, m)), Len(m.entries)) \in Seq(LogEntry)
    BY <1>1, <2>1
  <2> QED BY <1>2, <2>2 DEF NewEntries
<1>3. CASE Missing(s, m) = {}
  BY <1>3 DEF NewEntries
<1> QED BY <1>2, <1>3

LEMMA TruncatedKeeps ==
    ASSUME NEW s, Shape(s), NEW n, NEW m, MessageShape(m), m.type = "AppendEntries"
    PROVE  Kept(s, Truncated(n, s, m))
<1> DEFINE from == m.prevIndex + Min(Missing(s, m))
           short == TruncateFrom(s, from)
           cut == ResolvePending(short)
<1>1. CASE ~Conflicts(s, m)
  BY <1>1, QuietReflexive DEF Truncated
<1>2. CASE Conflicts(s, m)
  <2>1. from \in Int /\ HasEntry(s, from)
    BY <1>2, FirstMissing DEF Conflicts, MessageShape
  <2>2. Truncated(n, s, m) \in {cut, RescanMembership(n, cut)}
    BY <1>2 DEF Truncated
  <2> HIDE DEF from
  <2>3. Kept(s, short)
    BY <2>1, TruncateKeeps
  <2> HIDE DEF short
  <2>4. Kept(short, cut)
    BY <2>3, ResolvePendingKeeps DEF Kept
  <2> HIDE DEF cut
  <2>5. Kept(cut, RescanMembership(n, cut))
    BY <2>4, RescanKeeps DEF Kept
  <2>6. Kept(s, cut)
    BY <2>3, <2>4, QuietTransitive
  <2> QED BY <2>2, <2>5, <2>6, QuietTransitive
<1> QED BY <1>1, <1>2

LEMMA ExtendedKeeps ==
    ASSUME NEW s, Shape(s), NEW n, NEW entries \in Seq(LogEntry)
    PROVE  Kept(s, Extended(n, s, entries))
<1> DEFINE positions == ConfigPositions(entries)
           longer == AppendEntries(s, entries)
           i == LastIndex(s) + 1 + Max(positions) - 1
<1>1. Kept(s, longer)
  BY AppendKeeps
<1>2. CASE positions = {}
  BY <1>1, <1>2 DEF Extended
<1>3. CASE positions # {}
  <2>1. Max(positions) \in Nat /\ entries[Max(positions)].cmd.members \in Configs
    BY <1>3, ConfigEntry
  <2>2. LastIndex(s) \in Nat
    BY LastIndexType
  <2>3. i \in Nat /\ entries[Max(positions)].cmd.members \in Membership
    BY <2>1, <2>2 DEF Membership
  <2>4. Extended(n, s, entries)
           = AdoptMembership(n, longer, entries[Max(positions)].cmd.members, i)
    BY <1>3 DEF Extended
  <2> HIDE DEF longer, positions, i
  <2>5. Kept(longer, Extended(n, s, entries))
    BY <1>1, <2>3, <2>4, AdoptKeeps DEF Kept
  <2> QED BY <1>1, <2>5, QuietTransitive
<1> QED BY <1>2, <1>3

LEMMA CommitKeeps ==
    ASSUME NEW s, Shape(s), NEW n, NEW m, MessageShape(m), m.type = "AppendEntries"
    PROVE  Kept(s, Commit(n, s, m))
<1> DEFINE new == Min({m.commit, m.prevIndex + Len(m.entries)})
           t == [s EXCEPT !.commitIndex = new]
<1>1. new \in Nat
  <2>1. m.commit \in Nat /\ m.prevIndex + Len(m.entries) \in Nat
    BY DEF MessageShape
  <2> QED BY <2>1, MinOfTwo
<1>2. Commit(n, s, m) \in {s, ApplyCommitted(n, t)}
  BY DEF Commit
<1> HIDE DEF new
<1>3. Kept(s, t)
  BY <1>1 DEF Kept, Quiet, Shape, NodeFields
<1> HIDE DEF t
<1>4. Kept(t, ApplyCommitted(n, t))
  BY <1>3, ApplyCommittedKeeps DEF Kept
<1> QED BY <1>2, <1>3, <1>4, QuietReflexive, QuietTransitive

\* Everything handle_append_entries does after it has accepted the leader.
LEMMA AppendHandledKeeps ==
    ASSUME NEW s, Shape(s), NEW n, NEW m, MessageShape(m), m.type = "AppendEntries"
    PROVE  Kept(s, Commit(n, Extended(n, Truncated(n, s, m), NewEntries(s, m)), m))
<1> DEFINE a == Truncated(n, s, m)
           b == Extended(n, a, NewEntries(s, m))
<1>1. Kept(s, a)
  BY TruncatedKeeps
<1>2. Kept(a, b)
  BY <1>1, NewEntriesType, ExtendedKeeps DEF Kept
<1> HIDE DEF a, b
<1>3. Kept(b, Commit(n, b, m))
  BY <1>2, CommitKeeps DEF Kept
<1>4. Kept(s, Commit(n, b, m))
  BY <1>1, <1>2, <1>3, QuietTransitive
<1> QED BY <1>4 DEF a, b

LEMMA InstalledKeeps ==
    ASSUME NEW s, Shape(s), NEW n, NEW snap, SnapShape(snap)
    PROVE  Kept(s, Installed(n, s, snap))
<1> DEFINE put == InstallSnapshot(s, snap)
           restored == [put EXCEPT !.sm = snap.state, !.commitIndex = snap.index,
                                   !.lastApplied = snap.index]
           scanned == RescanMembership(n, restored)
           waiting == {p \in scanned.pending : p.index > snap.index}
           trimmed == [scanned EXCEPT !.pending = waiting]
<1>1. Kept(s, put)
  BY InstallKeeps
<1>2. Installed(n, s, snap) = ResolvePending(trimmed)
  BY DEF Installed
<1> HIDE DEF put, waiting
<1>3. Kept(put, restored)
  BY <1>1 DEF Kept, Quiet, Shape, NodeFields, SnapShape
<1> HIDE DEF restored
<1>4. Kept(restored, scanned)
  BY <1>3, RescanKeeps DEF Kept
<1> HIDE DEF scanned
<1>5. Kept(scanned, trimmed)
  BY <1>4 DEF Kept, Quiet, Shape, NodeFields
<1> HIDE DEF trimmed
<1>6. Kept(trimmed, ResolvePending(trimmed))
  BY <1>5, ResolvePendingKeeps DEF Kept
<1> QED BY <1>1, <1>2, <1>3, <1>4, <1>5, <1>6, QuietTransitive

LEMMA BootKeeps ==
    ASSUME NEW s, Shape(s), NEW n
    PROVE  Kept(s, Boot(n, s)) /\ Boot(n, s).role = Follower /\ Boot(n, s).leaderId = Nil
<1> DEFINE derived == DeriveMembership(n, s)
           t == Boot(n, s)
<1>1. derived.members \in Membership /\ derived.index \in Nat
  BY DeriveType
<1>2. t = [s EXCEPT !.role = Follower, !.leaderId = Nil, !.commitIndex = s.snap.index,
                    !.lastApplied = s.snap.index, !.sm = s.snap.state, !.pending = {},
                    !.staged = Nil, !.members = derived.members,
                    !.membersIndex = derived.index, !.contacted = FALSE]
  BY DEF Boot
<1> HIDE DEF derived, t
<1>3. /\ t.term = s.term /\ t.votedFor = s.votedFor /\ t.snap = s.snap /\ t.log = s.log
      /\ t.role = Follower /\ t.leaderId = Nil
      /\ t.commitIndex = s.snap.index /\ t.lastApplied = s.snap.index /\ t.staged = Nil
      /\ t.members = derived.members /\ t.membersIndex = derived.index
      /\ DOMAIN t = NodeFields
  BY <1>2, Zenon DEF Shape, NodeFields
<1>4. Shape(t)
  BY <1>1, <1>3 DEF Shape, SnapShape, RoleShape
<1>5. Quiet(s, t)
  BY <1>3 DEF Quiet
<1> QED BY <1>3, <1>4, <1>5 DEF Kept, t
=============================================================================

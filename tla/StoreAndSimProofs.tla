------------------------- MODULE StoreAndSimProofs -------------------------
(***************************************************************************)
(* What runs above and below the consensus core: the store with its HTTP   *)
(* service, and the simulated network of the test suite.                   *)
(*                                                                         *)
(* The store, for every window, any number of clients and replicas and any *)
(* log: the session table makes a retried write apply at most once         *)
(* (AtMostOnceHolds) and, when clients keep their outstanding operations   *)
(* within one window, exactly once (NothingSkippedHolds).                  *)
(*                                                                         *)
(* The service implements the store (ServiceImplementsKvStore), and its    *)
(* reads are linearizable (ReadsLinearizableHolds).  Its invariant         *)
(* (ServiceInv) follows a call: where in the log the write of a waiter     *)
(* stands, what index a read has to wait for, and that whatever a client   *)
(* was told about is below it.                                             *)
(*                                                                         *)
(* The simulated network, for any nodes, messages and bounds, keeps the    *)
(* contract of the trait Transport (SimImplementsTransport).  Its          *)
(* invariant (SimInv) counts how often a request can still reach an inbox, *)
(* by its own leg while it is "sent", and by its copy while there is one.  *)
(*                                                                         *)
(* The network's observer reports exactly the violations that the messages *)
(* it inspected show (ObserverExactHolds).                                 *)
(***************************************************************************)
EXTENDS KvService, SimNetwork, WellFoundedInduction, TLAPS

Session == [max : Nat \cup {-1}, recent : SUBSET Nat]

Entries == Op \cup {Plain}

ReplicaState ==
    [applied : Nat, map : Entries \cup {Nil}, sessions : [Client -> Session],
     hits : [Op -> Nat]]

TypeOK ==
    /\ issued \in [Client -> 0 .. MaxSeq]
    /\ acked \subseteq Op
    /\ log \in Seq(Entries)
    /\ replica \in [Replica -> ReplicaState]
    /\ \A r \in Replica : replica[r].applied <= Len(log)

\* What has mutated the map is in the window or below it, and did so once.
Remembered(rep) ==
    \A op \in Op : /\ rep.hits[op] <= 1
                   /\ rep.hits[op] = 1 => Contains(rep.sessions[op.client], op.seq)

-----------------------------------------------------------------------------
(* The window.                                                             *)

LEMMA RecordType ==
    ASSUME NEW st \in Session, NEW seq \in Nat
    PROVE  Record(st, seq) \in Session
BY WindowAssumption DEF Record, Session

\* Recording a sequence number makes it contained and forgets none.
LEMMA RecordRemembers ==
    ASSUME NEW st \in Session, NEW seq \in Nat, NEW q \in Nat
    PROVE  /\ Contains(Record(st, seq), seq)
           /\ Contains(st, q) => Contains(Record(st, seq), q)
<1>1. CASE seq > st.max
  <2>1. Record(st, seq) =
           [max    |-> seq,
            recent |-> {0} \cup {o \in 0 .. Window - 1 : o - (seq - st.max) \in st.recent}]
    BY <1>1, Zenon DEF Record
  <2>2. Contains(Record(st, seq), seq)
    BY <2>1, WindowAssumption DEF Contains
  <2>3. ASSUME Contains(st, q) PROVE Contains(Record(st, seq), q)
    <3>1. q <= st.max /\ (st.max - q >= Window \/ st.max - q \in st.recent)
      BY <2>3, Zenon DEF Contains
    <3>2. q <= seq /\ (seq - q) - (seq - st.max) = st.max - q /\ seq - q >= st.max - q
      BY <1>1, <3>1 DEF Session
    <3>3. seq - q >= Window \/ seq - q \in 0 .. Window - 1
      BY <3>2, WindowAssumption
    <3>4. CASE seq - q >= Window
      BY <2>1, <3>2, <3>4 DEF Contains
    <3>5. CASE seq - q \in 0 .. Window - 1
      <4>1. st.max - q \in st.recent
        BY <3>1, <3>2, <3>5, WindowAssumption DEF Session
      <4>2. seq - q \in {o \in 0 .. Window - 1 : o - (seq - st.max) \in st.recent}
        BY <4>1, <3>2, <3>5, Zenon
      <4> QED BY <4>2, <2>1, <3>2 DEF Contains
    <3> QED BY <3>3, <3>4, <3>5, Zenon
  <2> QED BY <2>2, <2>3, Zenon
<1>2. CASE seq <= st.max /\ st.max - seq < Window
  BY <1>2 DEF Record, Contains, Session
<1>3. CASE seq <= st.max /\ st.max - seq >= Window
  BY <1>3, WindowAssumption DEF Record, Contains, Session
<1> QED BY <1>1, <1>2, <1>3, WindowAssumption DEF Session
-----------------------------------------------------------------------------
(* One entry.                                                              *)

LEMMA ApplyType ==
    ASSUME NEW rep \in ReplicaState, NEW op \in Entries
    PROVE  ApplyEntry(rep, op) \in ReplicaState
<1>1. CASE op = Plain
  BY <1>1, NilIsNoClient, Zenon DEF ApplyEntry, AlreadyApplied, RecordApplied, Mutate, ReplicaState,
     Entries, Plain
<1>2. CASE op \in Op
  <2>1. op.client \in Client /\ op.client # Nil /\ op.seq \in Nat
    BY <1>2, NilIsNoClient DEF Op
  <2>2. rep.sessions[op.client] \in Session
    BY <2>1, Zenon DEF ReplicaState
  <2>3. Record(rep.sessions[op.client], op.seq) \in Session
    BY <2>1, <2>2, RecordType, Zenon
  <2>4. NewSession(op.seq) \in Session
    BY <2>1 DEF NewSession, Session
  <2>5. Mutate(rep, op) \in ReplicaState /\ Mutate(rep, op).sessions = rep.sessions
    <3> DEFINE counted == [rep.hits EXCEPT ![op] = rep.hits[op] + 1]
    <3>1. counted \in [Op -> Nat]
      BY <1>2 DEF ReplicaState
    <3>2. Mutate(rep, op) = [rep EXCEPT !.map = op, !.hits = counted]
      BY <2>1 DEF Mutate
    <3> HIDE DEF counted
    <3> QED BY <3>1, <3>2, Zenon DEF ReplicaState
  <2>6. RecordApplied(Mutate(rep, op), op) \in ReplicaState
    BY <2>1, <2>3, <2>4, <2>5, Zenon DEF RecordApplied, ReplicaState
  <2> QED BY <2>6, Zenon DEF ApplyEntry
<1> QED BY <1>1, <1>2, Zenon DEF Entries

LEMMA BumpType ==
    ASSUME NEW rep \in ReplicaState
    PROVE  [rep EXCEPT !.applied = @ + 1] \in ReplicaState
BY DEF ReplicaState

\* The effect of a tokened entry that is not a duplicate.
LEMMA ApplyFresh ==
    ASSUME NEW rep \in ReplicaState, NEW op \in Op, ~AlreadyApplied(rep, op)
    PROVE  LET done == ApplyEntry(rep, op)
               old == rep.sessions[op.client]
           IN  /\ done.hits = [rep.hits EXCEPT ![op] = @ + 1]
               /\ done.sessions = [rep.sessions EXCEPT ![op.client] =
                     IF old = NoSession THEN NewSession(op.seq) ELSE Record(old, op.seq)]
BY NilIsNoClient, Zenon DEF ApplyEntry, Mutate, RecordApplied, ReplicaState, Op

LEMMA ApplyPlain ==
    ASSUME NEW rep \in ReplicaState
    PROVE  /\ ApplyEntry(rep, Plain).hits = rep.hits
           /\ ApplyEntry(rep, Plain).sessions = rep.sessions
BY Zenon DEF ApplyEntry, AlreadyApplied, Mutate, RecordApplied, ReplicaState, Plain

LEMMA ApplyRemembers ==
    ASSUME NEW rep \in ReplicaState, NEW op \in Entries, Remembered(rep)
    PROVE  Remembered(ApplyEntry(rep, op))
<1> DEFINE done == ApplyEntry(rep, op)
<1>1. CASE op = Plain
  BY <1>1, ApplyPlain, Zenon DEF Remembered
<1>2. CASE op \in Op /\ AlreadyApplied(rep, op)
  BY <1>2 DEF ApplyEntry
<1>3. CASE op \in Op /\ ~AlreadyApplied(rep, op)
  <2> DEFINE old == rep.sessions[op.client]
             new == IF old = NoSession THEN NewSession(op.seq) ELSE Record(old, op.seq)
  <2>1. /\ done.hits = [rep.hits EXCEPT ![op] = @ + 1]
        /\ done.sessions = [rep.sessions EXCEPT ![op.client] = new]
    BY <1>3, ApplyFresh, Zenon
  <2>2. /\ op.client \in Client /\ op.client # Nil /\ op.seq \in Nat
        /\ old \in Session
        /\ rep.hits \in [Op -> Nat] /\ rep.sessions \in [Client -> Session]
    BY <1>3, NilIsNoClient DEF Op, ReplicaState
  <2>3. rep.hits[op] = 0
    BY <1>3, <2>2 DEF AlreadyApplied, Remembered
  <2>4. Contains(new, op.seq)
    BY <2>2, RecordRemembers DEF NewSession, Contains
  <2>5. ASSUME NEW q \in Nat, Contains(old, q) PROVE Contains(new, q)
    <3>1. old # NoSession
      BY <2>5 DEF NoSession, Contains
    <3> QED BY <3>1, <2>2, <2>5, RecordRemembers, Zenon
  <2>6. ASSUME NEW p \in Op
        PROVE  done.hits[p] <= 1 /\ (done.hits[p] = 1 => Contains(done.sessions[p.client], p.seq))
    <3>0. p.client \in Client /\ p.seq \in Nat
      BY DEF Op
    <3>1. CASE p = op
      BY <3>1, <2>1, <2>2, <2>3, <2>4, <1>3
    <3>2. CASE p # op
      <4>1. done.hits[p] = rep.hits[p]
        BY <3>2, <2>1, <2>2, Zenon
      <4>2. Contains(rep.sessions[p.client], p.seq) => Contains(done.sessions[p.client], p.seq)
        BY <3>0, <2>1, <2>2, <2>5
      <4> QED BY <4>1, <4>2, Zenon DEF Remembered
    <3> QED BY <3>1, <3>2, Zenon
  <2> QED BY <2>6, Zenon DEF Remembered
<1> QED BY <1>1, <1>2, <1>3, Zenon DEF Entries
-----------------------------------------------------------------------------
(* Every step.                                                             *)

LEMMA EmptyType == EmptyReplica \in ReplicaState /\ EmptyReplica.applied = 0
BY Zenon DEF EmptyReplica, ReplicaState, NoSession, Session

LEMMA TypeStep ==
    ASSUME TypeOK, [Next]_vars
    PROVE  TypeOK'
<1> USE DEF TypeOK
<1>1. ASSUME NEW c \in Client, IssueWithinWindow(c) PROVE TypeOK'
  BY <1>1, KvBounds DEF IssueWithinWindow
<1>2. CASE Commit
  <2>1. PICK op \in Entries : log' = Append(log, op)
    BY <1>2, Zenon DEF Commit, Entries
  <2>2. log' \in Seq(Entries) /\ Len(log') = Len(log) + 1
    BY <2>1
  <2>3. UNCHANGED <<issued, acked, replica>>
    BY <1>2, Zenon DEF Commit
  <2> QED BY <2>2, <2>3 DEF ReplicaState
<1>3. ASSUME NEW r \in Replica, Apply(r) PROVE TypeOK'
  <2> DEFINE entry == log[replica[r].applied + 1]
             done == ApplyEntry(replica[r], entry)
  <2>1. /\ replica[r] \in ReplicaState
        /\ replica[r].applied \in Nat /\ replica[r].applied < Len(log)
    BY <1>3, Zenon DEF Apply, ReplicaState
  <2>2. entry \in Entries
    BY <2>1
  <2>3. done \in ReplicaState /\ done.applied = replica[r].applied
    BY <2>1, <2>2, ApplyType, Zenon DEF ApplyEntry, Mutate, RecordApplied, ReplicaState
  <2>4. [done EXCEPT !.applied = @ + 1] \in ReplicaState
    BY <2>3, BumpType, Zenon
  <2>5. [done EXCEPT !.applied = @ + 1].applied <= Len(log)
    BY <2>1, <2>3 DEF ReplicaState
  <2>6. /\ replica' = [replica EXCEPT ![r] = [done EXCEPT !.applied = @ + 1]]
        /\ UNCHANGED <<issued, acked, log>>
    BY <1>3, Zenon DEF Apply
  <2> HIDE DEF done
  <2> QED BY <2>4, <2>5, <2>6, Zenon
<1>4. CASE Ack
  <2>1. PICK k \in 1 .. Len(log) :
           log[k].client # Nil /\ acked' = acked \cup {log[k]}
    BY <1>4, Zenon DEF Ack
  <2>2. log[k] \in Op
    BY <2>1 DEF Entries, Plain
  <2> QED BY <1>4, <2>1, <2>2, Zenon DEF Ack
<1>5. ASSUME NEW r \in Replica, NEW q \in Replica, Install(r, q) PROVE TypeOK'
  BY <1>5, Zenon DEF Install, Import
<1>6. ASSUME NEW r \in Replica, Restart(r) PROVE TypeOK'
  BY <1>6, EmptyType DEF Restart
<1>7. CASE UNCHANGED vars
  BY <1>7, Zenon DEF vars
<1> QED BY <1>1, <1>2, <1>3, <1>4, <1>5, <1>6, <1>7, Zenon DEF Next, Replicate

LEMMA TypeCorrect == Spec => []TypeOK
<1>1. Init => TypeOK
  BY KvBounds DEF Init, TypeOK, EmptyReplica, ReplicaState, NoSession, Session
<1>2. TypeOK /\ [Next]_vars => TypeOK'
  BY TypeStep, Zenon
<1> QED BY <1>1, <1>2, PTL DEF Spec

\* What the one step that changes a replica other than by a snapshot does.
LEMMA ApplyStep ==
    ASSUME TypeOK, NEW r \in Replica, Apply(r)
    PROVE  LET op == log[replica[r].applied + 1]
               done == ApplyEntry(replica[r], op)
           IN  /\ op \in Entries /\ replica[r] \in ReplicaState
               /\ replica[r].applied \in Nat /\ replica[r].applied < Len(log)
               /\ replica'[r].applied = replica[r].applied + 1
               /\ replica'[r].hits = done.hits
               /\ replica'[r].sessions = done.sessions
               /\ \A q \in Replica \ {r} : replica'[q] = replica[q]
<1> DEFINE op == log[replica[r].applied + 1]
           done == ApplyEntry(replica[r], op)
<1>1. /\ replica[r] \in ReplicaState
      /\ replica[r].applied \in Nat /\ replica[r].applied < Len(log)
  BY Zenon DEF Apply, TypeOK, ReplicaState
<1>2. op \in Entries
  BY <1>1 DEF TypeOK
<1>3. done \in ReplicaState /\ done.applied = replica[r].applied
  BY <1>1, <1>2, ApplyType, Zenon DEF ApplyEntry, Mutate, RecordApplied, ReplicaState
<1>4. replica' = [replica EXCEPT ![r] = [done EXCEPT !.applied = @ + 1]]
  BY Zenon DEF Apply
<1> HIDE DEF done
<1>5. replica'[r] = [done EXCEPT !.applied = @ + 1]
  BY <1>4, Zenon DEF TypeOK
<1>6. \A q \in Replica \ {r} : replica'[q] = replica[q]
  BY <1>4, Zenon DEF TypeOK
<1> QED BY <1>1, <1>2, <1>3, <1>5, <1>6, Zenon DEF ReplicaState, done

\* Property AtMostOnce: no retry of a tokened write mutates the map a second
\* time (KvStore::apply), for every window and any number of clients.
THEOREM AtMostOnceHolds == Spec => []AtMostOnce
<1> DEFINE Inv == \A r \in Replica : Remembered(replica[r])
<1>1. Init => Inv
  BY DEF Init, EmptyReplica, Remembered
<1>2. TypeOK /\ Inv /\ [Next]_vars => Inv'
  <2> SUFFICES ASSUME TypeOK, Inv, [Next]_vars PROVE Inv'
    BY Zenon
  <2>1. CASE UNCHANGED replica
    BY <2>1, Zenon DEF Remembered
  <2>2. ASSUME NEW r \in Replica, Apply(r) PROVE Inv'
    <3> DEFINE op == log[replica[r].applied + 1]
               done == ApplyEntry(replica[r], op)
    <3>1. /\ op \in Entries /\ replica[r] \in ReplicaState
          /\ replica'[r].hits = done.hits /\ replica'[r].sessions = done.sessions
          /\ \A q \in Replica \ {r} : replica'[q] = replica[q]
      BY <2>2, ApplyStep, Zenon
    <3>2. Remembered(done)
      BY <3>1, ApplyRemembers, Zenon
    <3> HIDE DEF done
    <3>3. Remembered(replica'[r])
      BY <3>1, <3>2, Zenon DEF Remembered
    <3>4. \A q \in Replica : Remembered(replica'[q])
      BY <3>1, <3>3, Zenon
    <3> QED BY <3>4, Zenon DEF Remembered
  <2>3. ASSUME NEW r \in Replica, NEW q \in Replica, Install(r, q) PROVE Inv'
    <3>1. \A p \in Replica : \E o \in Replica : replica'[p] = replica[o]
      BY <2>3, Zenon DEF Install, Import, TypeOK
    <3>2. \A p \in Replica : Remembered(replica'[p])
      BY <3>1, Zenon
    <3> QED BY <3>2, Zenon DEF Remembered
  <2>4. ASSUME NEW r \in Replica, Restart(r) PROVE Inv'
    <3>1. \A p \in Replica : replica'[p] \in {EmptyReplica, replica[p]}
      BY <2>4, Zenon DEF Restart, TypeOK
    <3>2. Remembered(EmptyReplica)
      BY DEF EmptyReplica, Remembered
    <3>3. \A p \in Replica : Remembered(replica'[p])
      BY <3>1, <3>2, Zenon
    <3> QED BY <3>3, Zenon DEF Remembered
  <2> QED BY <2>1, <2>2, <2>3, <2>4, Zenon DEF Next, Replicate, IssueWithinWindow, Commit, Ack, vars
<1>3. Inv => AtMostOnce
  BY Zenon DEF Remembered, AtMostOnce
<1> QED BY <1>1, <1>2, <1>3, TypeCorrect, PTL DEF Spec
-----------------------------------------------------------------------------
(***************************************************************************)
(* Nothing is skipped.  The strengthening: an operation that is Window or  *)
(* more below one in the log stands before it in the log, since its client *)
(* waited for it; so what a session assumes applied, being below the       *)
(* window, the replica has been through.                                   *)
(***************************************************************************)
\* The bit of q is set.
Listed(st, q) == q <= st.max /\ st.max - q \in st.recent

Contract ==
    /\ \A op \in Op :
          op.seq <= issued[op.client] /\ issued[op.client] - op.seq >= Window => op \in acked
    /\ \A op \in acked : \E k \in 1 .. Len(log) : log[k] = op
    /\ \A k \in 1 .. Len(log) : log[k].client # Nil => log[k].seq <= issued[log[k].client]
    /\ \A j \in 1 .. Len(log), op \in Op :
          log[j].client = op.client /\ log[j].seq - op.seq >= Window =>
             \E k \in 1 .. j - 1 : log[k] = op

Accounted(rep) ==
    /\ \A k \in 1 .. rep.applied : log[k].client # Nil => rep.hits[log[k]] >= 1
    /\ \A c \in Client : rep.sessions[c].max >= 0 =>
          \E j \in 1 .. rep.applied : log[j] = [client |-> c, seq |-> rep.sessions[c].max]
    /\ \A op \in Op : Listed(rep.sessions[op.client], op.seq) => rep.hits[op] >= 1

LEMMA RecordExact ==
    ASSUME NEW st \in Session, NEW seq \in Nat, NEW q \in Nat
    PROVE  /\ Listed(Record(st, seq), q) => q = seq \/ Listed(st, q)
           /\ Record(st, seq).max \in {seq, st.max}
<1>1. CASE seq > st.max
  BY <1>1 DEF Record, Listed, Session
<1>2. CASE seq <= st.max /\ st.max - seq < Window
  BY <1>2 DEF Record, Listed, Session
<1>3. CASE seq <= st.max /\ ~(st.max - seq < Window)
  BY <1>3 DEF Record, Listed, Session
<1> QED BY <1>1, <1>2, <1>3 DEF Session

LEMMA ContractHolds == Spec => []Contract
<1>1. Init => Contract
  BY WindowAssumption DEF Init, Contract, Op
<1>2. TypeOK /\ Contract /\ [Next]_vars => Contract'
  <2> SUFFICES ASSUME TypeOK, Contract, [Next]_vars PROVE Contract'
    OBVIOUS
  <2>1. ASSUME NEW c \in Client, IssueWithinWindow(c) PROVE Contract'
    <3>1. /\ issued' = [issued EXCEPT ![c] = @ + 1]
          /\ UNCHANGED <<acked, log>>
          /\ \A s \in Outstanding(c) : issued[c] + 1 - s < Window
      BY <2>1, Zenon DEF IssueWithinWindow
    <3>2. ASSUME NEW op \in Op, op.seq <= issued'[op.client],
                 issued'[op.client] - op.seq >= Window
          PROVE  op \in acked'
      <4>1. CASE op.client = c
        <5>1. issued'[c] = issued[c] + 1 /\ issued[c] \in Nat /\ op.seq \in Nat \ {0}
          BY <3>1 DEF TypeOK, Op
        <5>2. op.seq \in 1 .. issued[c] /\ ~(issued[c] + 1 - op.seq < Window)
          BY <5>1, <4>1, <3>2, WindowAssumption
        <5>3. op.seq \notin Outstanding(c)
          BY <5>2, <3>1, Zenon
        <5>4. [client |-> c, seq |-> op.seq] = op
          BY <4>1, Zenon DEF Op
        <5> QED BY <5>2, <5>3, <5>4, <3>1, Zenon DEF Outstanding
      <4>2. CASE op.client # c
        BY <4>2, <3>1, <3>2, Zenon DEF TypeOK, Contract, Op
      <4> QED BY <4>1, <4>2
    <3>3. ASSUME NEW k \in 1 .. Len(log), log[k].client # Nil
          PROVE  log[k].seq <= issued'[log[k].client]
      <4>1. log[k] \in Op /\ log[k].seq <= issued[log[k].client]
        BY <3>3 DEF TypeOK, Contract, Entries, Plain
      <4> QED BY <4>1, <3>1 DEF TypeOK, Op
    <3> QED BY <3>1, <3>2, <3>3 DEF Contract
  <2>2. CASE Commit
    <3>1. PICK op \in Entries : /\ op.client # Nil => op.seq <= issued[op.client]
                                /\ log' = Append(log, op)
      BY <2>2, Zenon DEF Commit, Entries
    <3>2. UNCHANGED <<issued, acked>>
      BY <2>2, Zenon DEF Commit
    <3>3. /\ Len(log) \in Nat /\ Len(log') = Len(log) + 1 /\ log'[Len(log) + 1] = op
          /\ \A k \in 1 .. Len(log) : log'[k] = log[k]
      BY <3>1 DEF TypeOK
    <3>4. \A p \in acked : \E k \in 1 .. Len(log') : log'[k] = p
      BY <3>3 DEF Contract
    <3>5. \A k \in 1 .. Len(log') : log'[k].client # Nil => log'[k].seq <= issued[log'[k].client]
      BY <3>1, <3>3 DEF Contract
    <3>6. ASSUME NEW j \in 1 .. Len(log'), NEW p \in Op,
                 log'[j].client = p.client, log'[j].seq - p.seq >= Window
          PROVE  \E k \in 1 .. j - 1 : log'[k] = p
      <4>1. CASE j \in 1 .. Len(log)
        <5>1. \E k \in 1 .. j - 1 : log[k] = p
          BY <4>1, <3>6, <3>3 DEF Contract
        <5> QED BY <5>1, <4>1, <3>3
      <4>2. CASE j = Len(log) + 1
        <5>1. op.client = p.client /\ op.seq - p.seq >= Window
          BY <4>2, <3>3, <3>6, Zenon
        <5>2. p.client \in Client /\ p.client # Nil /\ p.seq \in Nat /\ op \in Op
          BY <5>1, NilIsNoClient DEF Op, Entries, Plain
        <5>3. p.seq <= issued[p.client] /\ issued[p.client] - p.seq >= Window
          BY <5>1, <5>2, <3>1, WindowAssumption DEF TypeOK, Op
        <5>4. p \in acked
          BY <5>3, Zenon DEF Contract
        <5> QED BY <5>4, <4>2, <3>3 DEF Contract
      <4> QED BY <4>1, <4>2, <3>3
    <3>7. \A p \in Op : p.seq <= issued'[p.client] /\ issued'[p.client] - p.seq >= Window => p \in acked'
      BY <3>2, Zenon DEF Contract
    <3> QED BY <3>2, <3>4, <3>5, <3>6, <3>7 DEF Contract
  <2>3. CASE Ack
    <3>1. PICK k \in 1 .. Len(log) :
             log[k].client # Nil /\ acked' = acked \cup {log[k]}
      BY <2>3, Zenon DEF Ack
    <3>2. UNCHANGED <<issued, log>>
      BY <2>3, Zenon DEF Ack
    <3> QED BY <3>1, <3>2 DEF Contract
  <2>4. CASE UNCHANGED <<issued, acked, log>>
    BY <2>4 DEF Contract
  <2> QED BY <2>1, <2>2, <2>3, <2>4, Zenon DEF Next, Replicate, Apply, Install, Restart, vars
<1> QED BY <1>1, <1>2, TypeCorrect, PTL DEF Spec

\* The step of a replica from one entry of the log to the next.
LEMMA ApplyAccounts ==
    ASSUME TypeOK, Contract, NEW r \in Replica, Apply(r), Accounted(replica[r])
    PROVE  Accounted(replica'[r])
<1> DEFINE rep == replica[r]
           op == log[rep.applied + 1]
           done == ApplyEntry(rep, op)
<1>1. /\ op \in Entries /\ rep \in ReplicaState
      /\ rep.applied \in Nat /\ rep.applied < Len(log)
      /\ replica'[r].applied = rep.applied + 1
      /\ replica'[r].hits = done.hits
      /\ replica'[r].sessions = done.sessions
      /\ op = log[rep.applied + 1] /\ done = ApplyEntry(rep, op) /\ Accounted(rep)
  BY ApplyStep, Zenon
<1>2. rep.hits \in [Op -> Nat] /\ rep.sessions \in [Client -> Session]
  BY <1>1, Zenon DEF ReplicaState
<1>3. \A k \in 1 .. rep.applied : log[k].client # Nil => log[k] \in Op
  BY <1>1 DEF TypeOK, Entries, Plain
<1> HIDE DEF rep, op, done
<1>4. ASSUME done.hits = rep.hits, done.sessions = rep.sessions,
             op.client # Nil => rep.hits[op] >= 1
      PROVE  Accounted(replica'[r])
  BY <1>1, <1>4 DEF Accounted
<1>5. CASE op = Plain
  <2>1. done.hits = rep.hits /\ done.sessions = rep.sessions /\ op.client = Nil
    BY <1>1, <1>5, ApplyPlain DEF Plain
  <2> QED BY <2>1, <1>4, Zenon
<1>6. CASE op \in Op /\ AlreadyApplied(rep, op)
  <2>1. done = rep
    BY <1>1, <1>6, Zenon DEF ApplyEntry
  <2>2. /\ op.client \in Client /\ op.seq \in Nat /\ rep.sessions[op.client] \in Session
        /\ Contains(rep.sessions[op.client], op.seq)
    BY <1>2, <1>6 DEF AlreadyApplied, Op
  <2>3. CASE Listed(rep.sessions[op.client], op.seq)
    BY <1>1, <1>4, <1>6, <2>1, <2>3, Zenon DEF Accounted
  <2>4. CASE rep.sessions[op.client].max - op.seq >= Window
    <3>1. rep.sessions[op.client].max >= 0
      BY <2>2, <2>4, WindowAssumption DEF Session
    <3>2. PICK j \in 1 .. rep.applied :
             log[j] = [client |-> op.client, seq |-> rep.sessions[op.client].max]
      BY <1>1, <2>2, <3>1, Zenon DEF Accounted
    <3>3. log[j].client = op.client /\ log[j].seq = rep.sessions[op.client].max
      BY ONLY <3>2
    <3>7. log[j].seq - op.seq >= Window
      BY <2>4, <3>3, Zenon
    <3>8. j \in 1 .. Len(log) /\ j \in Nat
      BY <1>1, <3>2
    <3>4. PICK k \in 1 .. j - 1 : log[k] = op
      BY <3>3, <3>7, <3>8, <1>6, Zenon DEF Contract
    <3>5. k \in 1 .. rep.applied
      BY <1>1, <3>8
    <3>6. op.client # Nil => rep.hits[op] >= 1
      BY <1>1, <3>4, <3>5, Zenon DEF Accounted
    <3> QED BY <3>6, <2>1, <1>4, Zenon
  <2> QED BY <2>2, <2>3, <2>4, Zenon DEF Contains, Listed
<1>7. CASE op \in Op /\ ~AlreadyApplied(rep, op)
  <2> DEFINE old == rep.sessions[op.client]
             new == IF old = NoSession THEN NewSession(op.seq) ELSE Record(old, op.seq)
  <2>1. /\ done.hits = [rep.hits EXCEPT ![op] = @ + 1]
        /\ done.sessions = [rep.sessions EXCEPT ![op.client] = new]
    BY <1>1, <1>7, ApplyFresh, Zenon
  <2>2. op.client \in Client /\ op.client # Nil /\ op.seq \in Nat /\ old \in Session
    BY <1>2, <1>7, NilIsNoClient DEF Op
  <2>3. /\ new.max \in {op.seq, old.max}
        /\ \A q \in Nat : Listed(new, q) => q = op.seq \/ Listed(old, q)
    <3>1. CASE old = NoSession
      BY <3>1, <2>2 DEF NewSession, Listed
    <3>2. CASE old # NoSession
      <4>1. new = Record(old, op.seq)
        BY <3>2, Zenon
      <4> HIDE DEF old, new
      <4> QED BY <4>1, <2>2, RecordExact, Zenon
    <3> QED BY <3>1, <3>2, Zenon
  <2>4. done.hits[op] >= 1 /\ \A p \in Op : done.hits[p] >= rep.hits[p]
    <3> HIDE DEF new
    <3>1. \A p \in Op : done.hits[p] = IF p = op THEN rep.hits[op] + 1 ELSE rep.hits[p]
      BY <1>2, <1>7, <2>1, Zenon
    <3>2. \A p \in Op : rep.hits[p] \in Nat
      BY <1>2, Zenon
    <3> QED BY <3>1, <3>2, <1>7
  <2>5. \A c \in Client \ {op.client} : done.sessions[c] = rep.sessions[c]
    BY <1>2, <2>1, Zenon
  <2>6. done.sessions[op.client] = new
    BY <1>2, <2>1, <2>2, Zenon
  <2> HIDE DEF new
  <2>7. \A k \in 1 .. rep.applied + 1 : log[k].client # Nil => done.hits[log[k]] >= 1
    <3>1. ASSUME NEW k \in 1 .. rep.applied, log[k].client # Nil
          PROVE  done.hits[log[k]] >= 1
      <4>1. log[k] \in Op /\ rep.hits[log[k]] >= 1
        BY <1>1, <1>3, <3>1, Zenon DEF Accounted
      <4>2. done.hits[log[k]] \in Nat /\ rep.hits[log[k]] \in Nat
        BY <4>1, <2>1, <1>2, <1>7
      <4> QED BY <4>1, <4>2, <2>4
    <3> QED BY <3>1, <2>4, <1>1
  <2>8. ASSUME NEW c \in Client, done.sessions[c].max >= 0
        PROVE  \E j \in 1 .. rep.applied + 1 :
                  log[j] = [client |-> c, seq |-> done.sessions[c].max]
    <3>1. CASE c = op.client /\ new.max = op.seq
      <4>1. op = [client |-> c, seq |-> done.sessions[c].max]
        BY <3>1, <2>6, <1>7, Zenon DEF Op
      <4> QED BY <4>1, <1>1
    <3>2. CASE done.sessions[c].max = rep.sessions[c].max
      <4>1. \E j \in 1 .. rep.applied :
               log[j] = [client |-> c, seq |-> rep.sessions[c].max]
        BY <1>1, <3>2, <2>8, Zenon DEF Accounted
      <4> QED BY <4>1, <3>2, <1>1
    <3> QED BY <3>1, <3>2, <2>3, <2>5, <2>6, Zenon
  <2>9. ASSUME NEW p \in Op, Listed(done.sessions[p.client], p.seq)
        PROVE  done.hits[p] >= 1
    <3>1. p.client \in Client /\ p.seq \in Nat
      BY DEF Op
    <3>2. CASE p.client = op.client /\ p.seq = op.seq
      <4>1. p = op
        BY <3>2, <1>7 DEF Op
      <4> QED BY <4>1, <2>4, Zenon
    <3>3. CASE Listed(rep.sessions[p.client], p.seq)
      <4>1. rep.hits[p] >= 1
        BY <1>1, <3>3, Zenon DEF Accounted
      <4>2. done.hits[p] \in Nat /\ rep.hits[p] \in Nat
        BY <2>1, <1>2, <1>7
      <4> QED BY <4>1, <4>2, <2>4
    <3> QED BY <3>1, <3>2, <3>3, <2>3, <2>5, <2>6, <2>9, Zenon
  <2> HIDE DEF done
  <2> QED BY <1>1, <2>7, <2>8, <2>9, Zenon DEF Accounted
<1> QED BY <1>1, <1>5, <1>6, <1>7, Zenon DEF Entries

\* Property NothingSkipped: when clients keep their outstanding operations
\* within one window, what KvStore::apply treats as a duplicate has mutated the
\* map before, so no acknowledged write was silently skipped.
THEOREM NothingSkippedHolds == Spec => []NothingSkipped
<1> DEFINE Inv == \A r \in Replica : Accounted(replica[r])
<1>1. Init => Inv
  BY DEF Init, EmptyReplica, Accounted, NoSession, Listed, Op
<1>2. TypeOK /\ Contract /\ Inv /\ [Next]_vars => Inv'
  <2> SUFFICES ASSUME TypeOK, Contract, Inv, [Next]_vars PROVE Inv'
    BY Zenon
  <2>1. CASE UNCHANGED <<replica, log>>
    BY <2>1, Zenon DEF Accounted
  <2>2. CASE Commit
    <3>1. PICK op \in Entries : log' = Append(log, op)
      BY <2>2, Zenon DEF Commit, Entries
    <3>2. \A k \in 1 .. Len(log) : log'[k] = log[k]
      BY <3>1 DEF TypeOK
    <3>3. ASSUME NEW r \in Replica, NEW k \in 1 .. replica[r].applied
          PROVE  log'[k] = log[k]
      <4>1. replica[r].applied \in Nat /\ replica[r].applied <= Len(log)
        BY Zenon DEF TypeOK, ReplicaState
      <4>2. k \in 1 .. Len(log)
        BY ONLY <4>1, k \in 1 .. replica[r].applied
      <4> QED BY <3>2, <4>2, Zenon
    <3>4. UNCHANGED replica
      BY <2>2, Zenon DEF Commit
    <3> QED BY <3>3, <3>4 DEF Accounted
  <2>3. ASSUME NEW r \in Replica, Apply(r) PROVE Inv'
    <3>1. \A q \in Replica \ {r} : replica'[q] = replica[q]
      BY <2>3, ApplyStep, Zenon
    <3>2. Accounted(replica'[r])
      BY <2>3, ApplyAccounts, Zenon
    <3>3. UNCHANGED log
      BY <2>3, Zenon DEF Apply
    <3>4. \A q \in Replica : Accounted(replica'[q])
      BY <3>1, <3>2, Zenon
    <3> QED BY <3>3, <3>4, Zenon DEF Accounted
  <2>4. ASSUME NEW r \in Replica, NEW q \in Replica, Install(r, q) PROVE Inv'
    <3>1. \A p \in Replica : \E o \in Replica : replica'[p] = replica[o]
      BY <2>4, Zenon DEF Install, Import, TypeOK
    <3>2. UNCHANGED log
      BY <2>4, Zenon DEF Install
    <3>3. \A p \in Replica : Accounted(replica'[p])
      BY <3>1, Zenon
    <3> QED BY <3>2, <3>3 DEF Accounted
  <2>5. ASSUME NEW r \in Replica, Restart(r) PROVE Inv'
    <3>1. \A p \in Replica : replica'[p] \in {EmptyReplica, replica[p]}
      BY <2>5, Zenon DEF Restart, TypeOK
    <3>2. UNCHANGED log
      BY <2>5 DEF Restart
    <3>3. Accounted(EmptyReplica)
      <4>1. EmptyReplica.applied = 0 /\ \A c \in Client : EmptyReplica.sessions[c] = NoSession
        BY Zenon DEF EmptyReplica
      <4>2. NoSession.max = -1 /\ NoSession.recent = {}
        BY Zenon DEF NoSession
      <4>3. \A op \in Op : op.client \in Client
        BY Zenon DEF Op
      <4> QED BY ONLY <4>1, <4>2, <4>3 DEF Accounted, Listed
    <3>4. \A p \in Replica : Accounted(replica'[p])
      BY <3>1, <3>3, Zenon
    <3> QED BY <3>2, <3>4, Zenon DEF Accounted
  <2> QED BY <2>1, <2>2, <2>3, <2>4, <2>5, Zenon DEF Next, Replicate, IssueWithinWindow, Ack, vars
<1>3. Inv => NothingSkipped
  BY Zenon DEF Accounted, NothingSkipped
<1> QED BY <1>1, <1>2, <1>3, TypeCorrect, ContractHolds, PTL DEF Spec
-----------------------------------------------------------------------------
(* Replicas agree, because every one of them is a point of one fold.       *)

Advance(rep, op) == [ApplyEntry(rep, op) EXCEPT !.applied = @ + 1]

Fold(f) ==
    /\ f \in [0 .. Len(log) -> ReplicaState]
    /\ f[0] = EmptyReplica
    /\ \A k \in 0 .. Len(log) - 1 : f[k + 1] = Advance(f[k], log[k + 1])
    /\ \A r \in Replica : replica[r] = f[replica[r].applied]

\* Property ReplicasAgree: replicas that have applied the same prefix of the
\* log are in the same state, whether they replayed it or imported a snapshot
\* (apply is "a pure fold of the log"; export and import carry the sessions).
THEOREM ReplicasAgreeHolds == Spec => []ReplicasAgree
<1> DEFINE Inv == \E f : Fold(f)
<1>1. Init => Inv
  <2> SUFFICES ASSUME Init PROVE Inv
    OBVIOUS
  <2> DEFINE f == [k \in 0 .. 0 |-> EmptyReplica]
  <2>1. EmptyReplica \in ReplicaState /\ EmptyReplica.applied = 0
    BY EmptyType
  <2>2. log = << >> /\ Len(log) = 0 /\ \A r \in Replica : replica[r] = EmptyReplica
    BY Zenon DEF Init
  <2>3. Fold(f)
    BY <2>1, <2>2 DEF Fold
  <2> QED BY <2>3
<1>2. TypeOK /\ Inv /\ [Next]_vars => Inv'
  <2> SUFFICES ASSUME TypeOK, Inv, [Next]_vars PROVE Inv'
    OBVIOUS
  <2>0. PICK f : Fold(f)
    OBVIOUS
  <2>1. CASE UNCHANGED <<replica, log>>
    BY <2>0, <2>1, Zenon DEF Fold
  <2>2. CASE Commit
    <3>1. PICK op \in Entries : log' = Append(log, op)
      BY <2>2, Zenon DEF Commit, Entries
    <3>2. /\ Len(log) \in Nat /\ Len(log') = Len(log) + 1 /\ log'[Len(log) + 1] = op
          /\ \A k \in 1 .. Len(log) : log'[k] = log[k]
      BY <3>1 DEF TypeOK
    <3> DEFINE last == Advance(f[Len(log)], op)
               g == [k \in 0 .. Len(log) + 1 |-> IF k <= Len(log) THEN f[k] ELSE last]
    <3>3. last \in ReplicaState
      <4>1. ApplyEntry(f[Len(log)], op) \in ReplicaState
        BY <2>0, <3>2, ApplyType DEF Fold
      <4> QED BY <4>1, BumpType, Zenon DEF Advance
    <3>4. g \in [0 .. Len(log') -> ReplicaState]
      BY <2>0, <3>2, <3>3 DEF Fold
    <3>5. ASSUME NEW k \in 0 .. Len(log') - 1 PROVE g[k + 1] = Advance(g[k], log'[k + 1])
      <4>1. CASE k < Len(log)
        BY <4>1, <2>0, <3>2 DEF Fold
      <4>2. CASE k = Len(log)
        BY <4>2, <3>2
      <4> QED BY <4>1, <4>2, <3>2
    <3>6. UNCHANGED replica
      BY <2>2, Zenon DEF Commit
    <3>7. \A r \in Replica : replica'[r] = g[replica'[r].applied]
      BY <2>0, <3>2, <3>6 DEF Fold, TypeOK, ReplicaState
    <3> HIDE DEF g
    <3>8. PICK h : h = g
      OBVIOUS
    <3>9. g[0] = EmptyReplica
      BY <2>0, <3>2 DEF Fold, g
    <3>10. Fold(h)'
      BY <3>4, <3>5, <3>7, <3>8, <3>9, Zenon DEF Fold
    <3> QED BY <3>10
  <2>3. ASSUME NEW r \in Replica, Apply(r) PROVE Inv'
    <3>1. /\ replica[r].applied \in Nat /\ replica[r].applied < Len(log) /\ Len(log) \in Nat
          /\ replica'[r].applied = replica[r].applied + 1
          /\ \A q \in Replica \ {r} : replica'[q] = replica[q]
      BY <2>3, ApplyStep DEF TypeOK
    <3>2. replica'[r] = Advance(replica[r], log[replica[r].applied + 1])
      BY <2>3, Zenon DEF Apply, Advance, TypeOK
    <3>3. replica'[r] = f[replica'[r].applied]
      BY <2>0, <3>1, <3>2 DEF Fold
    <3>4. UNCHANGED log
      BY <2>3, Zenon DEF Apply
    <3>5. Fold(f)'
      BY <2>0, <3>1, <3>3, <3>4, Zenon DEF Fold
    <3> QED BY <3>5
  <2>4. ASSUME NEW r \in Replica, NEW q \in Replica, Install(r, q) PROVE Inv'
    <3>1. \A p \in Replica : \E o \in Replica : replica'[p] = replica[o]
      BY <2>4, Zenon DEF Install, Import, TypeOK
    <3>2. UNCHANGED log
      BY <2>4, Zenon DEF Install
    <3>3. ASSUME NEW p \in Replica PROVE replica'[p] = f[replica'[p].applied]
      <4>1. PICK o \in Replica : replica'[p] = replica[o]
        BY <3>1, Zenon
      <4>2. replica[o] = f[replica[o].applied]
        BY <2>0, Zenon DEF Fold
      <4> QED BY ONLY <4>1, <4>2, Zenon
    <3>4. Fold(f)'
      BY <2>0, <3>2, <3>3, Zenon DEF Fold
    <3> QED BY <3>4
  <2>5. ASSUME NEW r \in Replica, Restart(r) PROVE Inv'
    <3>1. \A p \in Replica : replica'[p] \in {EmptyReplica, replica[p]}
      BY <2>5, Zenon DEF Restart, TypeOK
    <3>2. UNCHANGED log
      BY <2>5 DEF Restart
    <3>3. EmptyReplica = f[EmptyReplica.applied]
      BY <2>0, EmptyType, Zenon DEF Fold
    <3>4. Fold(f)'
      BY <2>0, <3>1, <3>2, <3>3, Zenon DEF Fold
    <3> QED BY <3>4
  <2> QED BY <2>1, <2>2, <2>3, <2>4, <2>5, Zenon DEF Next, Replicate, IssueWithinWindow, Ack, vars
<1>3. Inv => ReplicasAgree
  BY Zenon DEF Fold, ReplicasAgree
<1> QED BY <1>1, <1>2, <1>3, TypeCorrect, PTL DEF Spec
-----------------------------------------------------------------------------
(***************************************************************************)
(* The service above the state machine.  A proposal is known by its number *)
(* until its entry is committed, and by its place in the log from then on: *)
(* the two never mix up two proposals, so a waiter that is told true is    *)
(* told so about its own entry.                                            *)
(***************************************************************************)
WriteCall == [phase : {"waiting", "applied"}, at : Replica, op : Op, no : Nat]

ReadCall == [phase : {"registered", "granted"}, at : Replica, floor : Nat, index : Nat]

CallsTyped == calls \in [Call -> {Free} \cup WriteCall \cup ReadCall]

Numbered ==
    /\ proposals \in Nat
    /\ floating \subseteq [no : 1 .. proposals, op : Op]
    /\ origin \in Seq(1 .. proposals) /\ Len(origin) = Len(log)
    /\ \A e \in floating : e.op.seq <= issued[e.op.client]
    /\ \A e, d \in floating : e.no = d.no => e = d
    /\ \A e \in floating, i \in 1 .. Len(origin) : e.no # origin[i]
    /\ \A i, j \in 1 .. Len(origin) : origin[i] = origin[j] => i = j

\* The entry of the write, floating or at place i of the log.
Floats(call) == [no |-> call.no, op |-> call.op] \in floating

StandsAt(call, i) == origin[i] = call.no /\ log[i] = call.op

Waiters ==
    \A k \in Call :
        /\ In(k, "waiting") =>
              Floats(calls[k]) \/ \E i \in 1 .. Len(log) : StandsAt(calls[k], i)
        /\ In(k, "applied") => \E i \in 1 .. frontier : StandsAt(calls[k], i)

Disclosure ==
    /\ frontier \in Nat /\ disclosed \in Nat
    /\ disclosed <= frontier /\ frontier <= Len(log)
    /\ \A r \in Replica : replica[r].applied <= frontier

Readers ==
    \A k \in Call :
        Reading(k) =>
           /\ calls[k].floor <= calls[k].index
           /\ In(k, "granted") => calls[k].index <= replica[calls[k].at].applied

ServiceInv == TypeOK /\ CallsTyped /\ Numbered /\ Waiters /\ Disclosure /\ Readers

LEMMA NumberedStep ==
    ASSUME TypeOK, Numbered, [ServiceNext]_serviceVars
    PROVE  Numbered'
<1>1. CASE UNCHANGED <<floating, origin, proposals, issued, log>>
  BY <1>1 DEF Numbered
<1>2. ASSUME NEW k \in Call, NEW r \in Replica, Put(k, r) PROVE Numbered'
  <2>1. PICK op \in Op : /\ op.seq \in Outstanding(op.client)
                         /\ floating' = floating \cup {[no |-> proposals', op |-> op]}
    BY <1>2, Zenon DEF Put
  <2>2. proposals' = proposals + 1 /\ UNCHANGED <<origin, issued, log>>
    BY <1>2, Zenon DEF Put, vars
  <2>3. op.seq <= issued[op.client]
    BY <2>1 DEF Outstanding
  <2>4. PICK n : n = proposals + 1
    BY Zenon
  <2>5. PICK new : new = [no |-> n, op |-> op]
    BY Zenon
  <2>6. /\ new.no = n /\ new.op = op /\ floating' = floating \cup {new}
        /\ new \in [no : {n}, op : Op]
    BY <2>1, <2>2, <2>4, <2>5, Zenon
  <2>7. /\ n \in Nat /\ 1 .. n = (1 .. proposals) \cup {n} /\ n \notin 1 .. proposals
        /\ proposals' = n
    BY <2>2, <2>4 DEF Numbered
  <2>8. \A e \in floating : e.no \in 1 .. proposals /\ e.op \in Op
    BY Zenon DEF Numbered
  <2>9. \A i \in 1 .. Len(origin) : origin[i] \in 1 .. proposals
    BY DEF Numbered
  <2>10. floating' \subseteq [no : 1 .. n, op : Op]
    BY <2>6, <2>7, Zenon DEF Numbered
  <2>11. origin \in Seq(1 .. n)
    BY <2>7, <2>9 DEF Numbered
  <2>12. \A e, d \in floating' : e.no = d.no => e = d
    BY <2>6, <2>7, <2>8, Zenon DEF Numbered
  <2>13. \A e \in floating', i \in 1 .. Len(origin) : e.no # origin[i]
    BY <2>6, <2>7, <2>9, Zenon DEF Numbered
  <2>14. \A e \in floating' : e.op.seq <= issued[e.op.client]
    BY <2>3, <2>6, Zenon DEF Numbered
  <2> QED BY <2>2, <2>7, <2>10, <2>11, <2>12, <2>13, <2>14, Zenon DEF Numbered
<1>3. CASE EntryCommitted
  <2>1. PICK e \in floating : /\ log' = Append(log, e.op) /\ origin' = Append(origin, e.no)
                              /\ floating' = floating \ {e} /\ UNCHANGED <<issued, proposals>>
    BY <1>3, Zenon DEF EntryCommitted
  <2>2. e.no \in 1 .. proposals /\ e.op \in Op
    BY <2>1 DEF Numbered
  <2>3. /\ Len(log') = Len(log) + 1 /\ Len(origin') = Len(origin) + 1
        /\ origin' \in Seq(1 .. proposals) /\ origin'[Len(origin) + 1] = e.no
        /\ \A i \in 1 .. Len(origin) : origin'[i] = origin[i]
    BY <2>1, <2>2 DEF Numbered, TypeOK, Entries
  <2>4. \A i, j \in 1 .. Len(origin') : origin'[i] = origin'[j] => i = j
    BY <2>1, <2>3 DEF Numbered
  <2>5. \A d \in floating' : d \in floating /\ d.no # e.no
    BY <2>1, Zenon DEF Numbered
  <2>6. ASSUME NEW d \in floating', NEW i \in 1 .. Len(origin') PROVE d.no # origin'[i]
    <3>1. i \in 1 .. Len(origin) \/ i = Len(origin) + 1
      BY <2>3
    <3>2. \A j \in 1 .. Len(origin) : d.no # origin[j]
      BY <2>5, Zenon DEF Numbered
    <3> QED BY <3>1, <3>2, <2>3, <2>5, Zenon
  <2>7. Len(origin') = Len(log') /\ UNCHANGED <<issued, proposals>>
    BY <2>1, <2>3 DEF Numbered
  <2> QED BY <2>3, <2>4, <2>5, <2>6, <2>7, Zenon DEF Numbered
<1>4. ASSUME NEW c \in Client, Issue(c) PROVE Numbered'
  <2>1. /\ issued' = [issued EXCEPT ![c] = @ + 1]
        /\ UNCHANGED <<floating, origin, proposals, log>>
    BY <1>4, Zenon DEF Issue, IssueWithinWindow, NoChange
  <2>2. ASSUME NEW e \in floating PROVE e.op.seq <= issued'[e.op.client]
    BY <2>1 DEF Numbered, TypeOK, Op
  <2> QED BY <2>1, <2>2 DEF Numbered
<1> QED BY <1>1, <1>2, <1>3, <1>4, Zenon DEF ServiceNext, Handler, Core, Get, Superseded, Timeout,
    Respond, ReadGranted, ReadAnswered, ReadDropped, EntryApplied, Apply, Crash, Restart,
    SnapshotInstalled, Install, NoChange, vars, serviceVars

LEMMA CallKinds ==
    ASSUME CallsTyped, NEW k \in Call
    PROVE  /\ calls[k].phase \in {"waiting", "applied"} => calls[k] \in WriteCall
           /\ calls[k].phase \in {"registered", "granted"} => calls[k] \in ReadCall
<1>1. calls[k] \in {Free} \cup WriteCall \cup ReadCall
  BY Zenon DEF CallsTyped
<1>2. Free.phase = "free"
  BY Zenon DEF Free
<1>3. calls[k] \in WriteCall => calls[k].phase \in {"waiting", "applied"}
  BY Zenon DEF WriteCall
<1>4. calls[k] \in ReadCall => calls[k].phase \in {"registered", "granted"}
  BY Zenon DEF ReadCall
<1> QED BY <1>1, <1>2, <1>3, <1>4

LEMMA CallsStep ==
    ASSUME TypeOK, CallsTyped, Numbered, Disclosure, [ServiceNext]_serviceVars
    PROVE  CallsTyped'
<1>1. ASSUME NEW k \in Call, calls' = [calls EXCEPT ![k] = Free] PROVE CallsTyped'
  BY <1>1, Zenon DEF CallsTyped
<1>2. ASSUME NEW k \in Call, NEW r \in Replica, Put(k, r) PROVE CallsTyped'
  <2>1. PICK op \in Op :
           calls' = [calls EXCEPT ![k] = [phase |-> "waiting", at |-> r, op |-> op,
                                          no |-> proposals']]
    BY <1>2, Zenon DEF Put
  <2>2. proposals' \in Nat
    BY <1>2 DEF Put, Numbered
  <2>3. [phase |-> "waiting", at |-> r, op |-> op, no |-> proposals'] \in WriteCall
    BY <2>2, Zenon DEF WriteCall
  <2> QED BY <2>1, <2>3, Zenon DEF CallsTyped
<1>3. ASSUME NEW k \in Call, NEW r \in Replica, Get(k, r) PROVE CallsTyped'
  <2>1. [phase |-> "registered", at |-> r, floor |-> disclosed, index |-> frontier] \in ReadCall
    BY Zenon DEF ReadCall, Disclosure
  <2> QED BY <1>3, <2>1, Zenon DEF CallsTyped, Get
<1>4. ASSUME NEW k \in Call, ReadGranted(k) PROVE CallsTyped'
  <2>1. calls[k] \in ReadCall
    BY <1>4, CallKinds, Zenon DEF ReadGranted, In
  <2>2. [calls[k] EXCEPT !.phase = "granted"] \in ReadCall
    BY <2>1, Zenon DEF ReadCall
  <2> QED BY <1>4, <2>2, Zenon DEF CallsTyped, ReadGranted
<1>5. ASSUME NEW r \in Replica, EntryApplied(r) PROVE CallsTyped'
  <2>1. ASSUME NEW k \in Call, In(k, "waiting")
        PROVE  [calls[k] EXCEPT !.phase = "applied"] \in WriteCall
    <3>1. calls[k] \in WriteCall
      BY <2>1, CallKinds, Zenon DEF In
    <3> QED BY <3>1, Zenon DEF WriteCall
  <2> QED BY <1>5, <2>1, Zenon DEF CallsTyped, EntryApplied
<1>6. ASSUME NEW r \in Replica, NEW q \in Replica, SnapshotInstalled(r, q) PROVE CallsTyped'
  BY <1>6, Zenon DEF CallsTyped, SnapshotInstalled
<1>7. ASSUME NEW r \in Replica, Crash(r) PROVE CallsTyped'
  BY <1>7, Zenon DEF CallsTyped, Crash
<1>8. CASE UNCHANGED calls
  BY <1>8, Zenon DEF CallsTyped
<1> QED BY <1>1, <1>2, <1>3, <1>4, <1>5, <1>6, <1>7, <1>8, Zenon DEF ServiceNext, Handler, Core,
    Issue, Superseded, Timeout, Respond, ReadAnswered, ReadDropped, Answer, EntryCommitted,
    serviceVars

\* The one place of the log where the entry of an applied write stands.
LEMMA IndexOfDone ==
    ASSUME Numbered, NEW call, NEW i \in 1 .. Len(log), StandsAt(call, i)
    PROVE  IndexOf(call.no) = i
<1>1. i \in 1 .. Len(origin) /\ origin[i] = call.no
  BY Zenon DEF Numbered, StandsAt
<1>2. \A j \in 1 .. Len(origin) : origin[j] = call.no <=> j = i
  BY <1>1, Zenon DEF Numbered
<1> QED BY <1>1, <1>2, Zenon DEF IndexOf

\* A write that waits and whose number stands at place i waits for that entry.
LEMMA WaiterStandsAt ==
    ASSUME Numbered, Waiters, NEW k \in Call, In(k, "waiting"),
           NEW i \in 1 .. Len(log), origin[i] = calls[k].no
    PROVE  StandsAt(calls[k], i)
<1>1. i \in 1 .. Len(origin)
  BY Zenon DEF Numbered
<1>2. ~Floats(calls[k])
  <2>1. SUFFICES ASSUME NEW e, e = [no |-> calls[k].no, op |-> calls[k].op], e \in floating
                 PROVE  FALSE
    BY Zenon DEF Floats
  <2>2. e.no = origin[i]
    BY <2>1, Zenon
  <2> QED BY <1>1, <2>1, <2>2, Zenon DEF Numbered
<1>3. PICK j \in 1 .. Len(log) : StandsAt(calls[k], j)
  BY <1>2, Zenon DEF Waiters
<1>4. j \in 1 .. Len(origin) /\ origin[j] = origin[i]
  BY <1>3, Zenon DEF Numbered, StandsAt
<1>5. j = i
  BY <1>1, <1>4, Zenon DEF Numbered
<1> QED BY <1>3, <1>5, Zenon

LEMMA WaitersStep ==
    ASSUME TypeOK, CallsTyped, Numbered, Waiters, Disclosure, [ServiceNext]_serviceVars
    PROVE  Waiters'
<1>1. ASSUME UNCHANGED <<floating, origin, log, frontier>>,
             \A k \in Call : \/ calls'[k] = calls[k]
                             \/ ~(calls'[k].phase \in {"waiting", "applied"})
      PROVE  Waiters'
  <2>1. ASSUME NEW k \in Call, calls'[k] = calls[k]
        PROVE  /\ In(k, "waiting")' =>
                     \/ Floats(calls[k])'
                     \/ \E i \in 1 .. Len(log') : StandsAt(calls[k], i)'
               /\ In(k, "applied")' => \E i \in 1 .. frontier' : StandsAt(calls[k], i)'
    BY <1>1, <2>1, Zenon DEF Waiters, In, Floats, StandsAt
  <2> QED BY <1>1, <2>1, Zenon DEF Waiters, In, Floats, StandsAt
<1>2. ASSUME NEW k \in Call, calls' = [calls EXCEPT ![k] = Free],
             UNCHANGED <<floating, origin, log, frontier>>
      PROVE  Waiters'
  <2>1. Free.phase = "free"
    BY Zenon DEF Free
  <2>2. \A j \in Call : \/ calls'[j] = calls[j] \/ calls'[j].phase = "free"
    BY <1>2, <2>1, Zenon DEF CallsTyped
  <2> QED BY <1>1, <1>2, <2>2
<1>3. ASSUME NEW k \in Call, NEW r \in Replica, Put(k, r) PROVE Waiters'
  <2>1. PICK op \in Op :
           /\ floating' = floating \cup {[no |-> proposals', op |-> op]}
           /\ calls' = [calls EXCEPT ![k] = [phase |-> "waiting", at |-> r, op |-> op,
                                             no |-> proposals']]
    BY <1>3, Zenon DEF Put
  <2>2. UNCHANGED <<origin, log, frontier>>
    BY <1>3, Zenon DEF Put, vars
  <2>3. /\ calls'[k].phase = "waiting" /\ calls'[k].op = op /\ calls'[k].no = proposals'
        /\ \A j \in Call \ {k} : calls'[j] = calls[j]
    BY <2>1, Zenon DEF CallsTyped
  <2>4. Floats(calls[k])'
    BY <2>1, <2>3 DEF Floats
  <2>5. ASSUME NEW j \in Call \ {k}
        PROVE  /\ In(j, "waiting")' =>
                     \/ Floats(calls[j])'
                     \/ \E i \in 1 .. Len(log') : StandsAt(calls[j], i)'
               /\ In(j, "applied")' => \E i \in 1 .. frontier' : StandsAt(calls[j], i)'
    <3>1. calls'[j] = calls[j] /\ floating \subseteq floating'
      BY <2>1, <2>3, Zenon
    <3>2. /\ In(j, "waiting") => Floats(calls[j]) \/ \E i \in 1 .. Len(log) : StandsAt(calls[j], i)
          /\ In(j, "applied") => \E i \in 1 .. frontier : StandsAt(calls[j], i)
      BY Zenon DEF Waiters
    <3>3. /\ Floats(calls[j]) => Floats(calls[j])'
          /\ \A i : StandsAt(calls[j], i) => StandsAt(calls[j], i)'
      BY <2>2, <3>1, Zenon DEF Floats, StandsAt
    <3> QED BY <2>2, <3>1, <3>2, <3>3, Zenon DEF In
  <2>6. ~In(k, "applied")'
    BY <2>3 DEF In
  <2> QED BY <2>4, <2>5, <2>6, Zenon DEF Waiters, StandsAt, Floats, In
<1>4. ASSUME NEW k \in Call, NEW r \in Replica, Get(k, r) PROVE Waiters'
  <2>1. \A j \in Call : \/ calls'[j] = calls[j] \/ calls'[j].phase = "registered"
    BY <1>4, Zenon DEF Get, CallsTyped
  <2>2. UNCHANGED <<floating, origin, log, frontier>>
    BY <1>4, Zenon DEF Get, vars
  <2> QED BY <1>1, <2>1, <2>2
<1>5. ASSUME NEW k \in Call, ReadGranted(k) PROVE Waiters'
  <2>1. \A j \in Call : \/ calls'[j] = calls[j]
                        \/ calls'[j] = [calls[j] EXCEPT !.phase = "granted"] /\ j = k
    BY <1>5, Zenon DEF ReadGranted, CallsTyped
  <2>2. calls[k] \in ReadCall
    BY <1>5, CallKinds, Zenon DEF ReadGranted, In
  <2>3. [calls[k] EXCEPT !.phase = "granted"].phase = "granted"
    BY <2>2, Zenon DEF ReadCall
  <2>4. UNCHANGED <<floating, origin, log, frontier>>
    BY <1>5, Zenon DEF ReadGranted, vars, NoChange
  <2>5. \A j \in Call : calls'[j] = calls[j] \/ calls'[j].phase = "granted"
    BY <2>1, <2>3, Zenon
  <2> QED BY <1>1, <2>4, <2>5
<1>6. CASE EntryCommitted
  <2>1. PICK e \in floating : /\ log' = Append(log, e.op) /\ origin' = Append(origin, e.no)
                              /\ floating' = floating \ {e} /\ UNCHANGED <<calls, frontier>>
    BY <1>6, Zenon DEF EntryCommitted
  <2>2. e = [no |-> e.no, op |-> e.op]
    BY <2>1, Zenon DEF Numbered
  <2>3. /\ Len(log) \in Nat /\ Len(log') = Len(log) + 1 /\ log'[Len(log) + 1] = e.op
        /\ origin'[Len(log) + 1] = e.no
        /\ \A i \in 1 .. Len(log) : log'[i] = log[i] /\ origin'[i] = origin[i]
        /\ 1 .. Len(log') = (1 .. Len(log)) \cup {Len(log) + 1}
    <3>1. log \in Seq(Entries) /\ origin \in Seq(1 .. proposals) /\ Len(origin) = Len(log)
      BY Zenon DEF Numbered, TypeOK
    <3>2. /\ Len(log) \in Nat /\ Len(log') = Len(log) + 1 /\ log'[Len(log) + 1] = e.op
          /\ \A i \in 1 .. Len(log) : log'[i] = log[i]
      BY ONLY <2>1, <3>1
    <3>3. /\ origin'[Len(origin) + 1] = e.no
          /\ \A i \in 1 .. Len(origin) : origin'[i] = origin[i]
      BY ONLY <2>1, <3>1
    <3>4. 1 .. Len(log') = (1 .. Len(log)) \cup {Len(log) + 1}
      BY ONLY <3>2
    <3> QED BY <3>1, <3>2, <3>3, <3>4, Zenon
  <2>4. \A call, i : i \in 1 .. Len(log) /\ StandsAt(call, i) => StandsAt(call, i)'
    BY <2>3, Zenon DEF StandsAt
  <2>5. ASSUME NEW k \in Call, In(k, "waiting")
        PROVE  Floats(calls[k])' \/ \E i \in 1 .. Len(log') : StandsAt(calls[k], i)'
    <3>1. CASE [no |-> calls[k].no, op |-> calls[k].op] = e
      <4>1. calls[k].no = e.no /\ calls[k].op = e.op
        BY <3>1, Zenon
      <4> QED BY <2>1, <2>3, <4>1, Zenon DEF StandsAt
    <3>2. CASE [no |-> calls[k].no, op |-> calls[k].op] # e
      <4>1. CASE Floats(calls[k])
        BY <2>1, <3>2, <4>1, Zenon DEF Floats
      <4>2. CASE ~Floats(calls[k])
        <5>1. PICK i \in 1 .. Len(log) : StandsAt(calls[k], i)
          BY <2>5, <4>2, Zenon DEF Waiters
        <5>2. StandsAt(calls[k], i)'
          BY <2>1, <2>4, <5>1, Zenon DEF StandsAt
        <5>3. i \in 1 .. Len(log')
          BY <2>3, Zenon
        <5> QED BY <5>2, <5>3, Zenon
      <4> QED BY <4>1, <4>2, Zenon
    <3> QED BY <3>1, <3>2, Zenon
  <2>6. 1 .. frontier \subseteq 1 .. Len(log)
    BY DEF Disclosure, TypeOK
  <2>7. ASSUME NEW k \in Call, In(k, "applied")
        PROVE  \E i \in 1 .. frontier : StandsAt(calls[k], i)'
    BY <2>1, <2>4, <2>6, <2>7, Zenon DEF Waiters, StandsAt
  <2> QED BY <2>1, <2>5, <2>7, Zenon DEF Waiters, In, Floats, StandsAt
<1>7. ASSUME NEW r \in Replica, EntryApplied(r) PROVE Waiters'
  <2>1. /\ UNCHANGED <<floating, origin, log>> /\ Apply(r)
        /\ frontier' = Later(frontier, replica'[r].applied)
        /\ calls' = [k \in Call |->
              IF In(k, "waiting") /\ calls[k].at = r /\ calls[k].no \in DueAt(r)
              THEN [calls[k] EXCEPT !.phase = "applied"] ELSE calls[k]]
    BY <1>7, Zenon DEF EntryApplied, Apply
  <2>2. PICK top : top = replica'[r].applied
    BY Zenon
  <2>3. top \in 1 .. Len(log)
    <3>1. /\ replica[r].applied \in Nat /\ replica[r].applied < Len(log)
          /\ top = replica[r].applied + 1
      BY <2>1, <2>2, ApplyStep, Zenon
    <3> QED BY <3>1 DEF TypeOK
  <2>4. frontier \in Nat /\ frontier' \in Nat /\ frontier <= frontier' /\ top <= frontier'
    BY <2>1, <2>2, <2>3 DEF Later, Disclosure
  <2>5. top \in 1 .. frontier' /\ 1 .. frontier \subseteq 1 .. frontier'
    BY <2>3, <2>4
  <2>6. ASSUME NEW k \in Call, calls'[k] = calls[k]
        PROVE  /\ In(k, "waiting")' =>
                     \/ Floats(calls[k])'
                     \/ \E i \in 1 .. Len(log') : StandsAt(calls[k], i)'
               /\ In(k, "applied")' => \E i \in 1 .. frontier' : StandsAt(calls[k], i)'
    <3>1. UNCHANGED <<floating, origin, log>>
      BY <2>1, Zenon
    <3> QED BY ONLY Waiters, <2>5, <2>6, <3>1, Zenon DEF Waiters, In, Floats, StandsAt
  <2>7. ASSUME NEW k \in Call, calls'[k] # calls[k]
        PROVE  calls'[k].phase = "applied" /\ \E i \in 1 .. frontier' : StandsAt(calls[k], i)'
    <3>1. /\ In(k, "waiting") /\ calls[k].no = origin[top]
          /\ calls'[k] = [calls[k] EXCEPT !.phase = "applied"]
      BY <2>1, <2>2, <2>7, Zenon DEF DueAt
    <3>2. calls[k] \in WriteCall
      BY <3>1, CallKinds, Zenon DEF In
    <3>3. /\ calls'[k].phase = "applied" /\ calls'[k].no = calls[k].no
          /\ calls'[k].op = calls[k].op
      BY <3>1, <3>2, Zenon DEF WriteCall
    <3>4. StandsAt(calls[k], top)
      BY <2>3, <3>1, WaiterStandsAt, Zenon
    <3> QED BY <2>1, <2>5, <3>3, <3>4, Zenon DEF StandsAt
  <2>8. \A k \in Call : calls'[k].phase = "applied" => calls'[k].phase # "waiting"
    OBVIOUS
  <2> QED BY <2>6, <2>7, <2>8, Zenon DEF Waiters, In, Floats, StandsAt
<1>8. ASSUME NEW r \in Replica, \E q \in Replica : SnapshotInstalled(r, q)
      PROVE  Waiters'
  <2>1. \A k \in Call : calls'[k] = calls[k] \/ calls'[k].phase = "free"
    <3>1. \A k \in Call : calls'[k] = calls[k] \/ calls'[k] = Free
      BY <1>8, Zenon DEF SnapshotInstalled
    <3>2. Free.phase = "free"
      BY Zenon DEF Free
    <3> QED BY <3>1, <3>2, Zenon
  <2>2. UNCHANGED <<floating, origin, log, frontier>>
    BY <1>8, Zenon DEF SnapshotInstalled, Install, NoChange
  <2> QED BY <1>1, <2>1, <2>2
<1>9. ASSUME NEW r \in Replica, Crash(r) PROVE Waiters'
  <2>1. \A k \in Call : calls'[k] = calls[k] \/ calls'[k].phase = "free"
    <3>1. \A k \in Call : calls'[k] = calls[k] \/ calls'[k] = Free
      BY <1>9, Zenon DEF Crash
    <3>2. Free.phase = "free"
      BY Zenon DEF Free
    <3> QED BY <3>1, <3>2, Zenon
  <2>2. UNCHANGED <<floating, origin, log, frontier>>
    BY <1>9, Zenon DEF Crash, Restart
  <2> QED BY <1>1, <2>1, <2>2
<1>10. CASE UNCHANGED <<calls, floating, origin, log, frontier>>
  BY <1>10, <1>1, Zenon
<1> QED BY <1>2, <1>3, <1>4, <1>5, <1>6, <1>7, <1>8, <1>9, <1>10, Zenon DEF ServiceNext, Handler,
    Core, Issue, IssueWithinWindow, Superseded, Timeout, Respond, ReadAnswered, ReadDropped, Answer,
    NoChange, vars, serviceVars

LEMMA DisclosureStep ==
    ASSUME ServiceInv, [ServiceNext]_serviceVars
    PROVE  Disclosure'
<1> USE DEF ServiceInv
<1>1. CASE UNCHANGED <<frontier, disclosed, replica, log>>
  BY <1>1 DEF Disclosure
<1>2. ASSUME NEW k \in Call, Respond(k) PROVE Disclosure'
  <2>1. PICK i \in 1 .. frontier : StandsAt(calls[k], i)
    BY <1>2, Zenon DEF Respond, Waiters
  <2>2. i \in 1 .. Len(log)
    BY <2>1 DEF Disclosure, TypeOK
  <2>3. IndexOf(calls[k].no) = i
    BY <2>1, <2>2, IndexOfDone, Zenon
  <2>4. disclosed' = Later(disclosed, i) /\ UNCHANGED <<frontier, replica, log>>
    BY <1>2, <2>3, Zenon DEF Respond
  <2> QED BY <2>1, <2>4 DEF Disclosure, Later
<1>3. ASSUME NEW k \in Call, ReadAnswered(k) PROVE Disclosure'
  <2>1. calls[k].at \in Replica
    <3>1. calls[k] \in ReadCall
      BY <1>3, CallKinds, Zenon DEF ReadAnswered, In
    <3> QED BY <3>1, Zenon DEF ReadCall
  <2>2. PICK i : i = replica[calls[k].at].applied
    BY Zenon
  <2>3. i \in Nat /\ i <= frontier
    BY <2>1, <2>2, Zenon DEF Disclosure, TypeOK, ReplicaState
  <2>4. disclosed' = Later(disclosed, i) /\ UNCHANGED <<frontier, replica, log>>
    BY <1>3, <2>2, Zenon DEF ReadAnswered, vars
  <2> QED BY <2>3, <2>4 DEF Disclosure, Later
<1>4. CASE EntryCommitted
  <2>1. UNCHANGED <<frontier, disclosed, replica>> /\ \E e : log' = Append(log, e)
    BY <1>4, Zenon DEF EntryCommitted
  <2>2. Len(log') >= Len(log) /\ Len(log) \in Nat /\ Len(log') \in Nat
    BY <2>1 DEF TypeOK
  <2> QED BY <2>1, <2>2 DEF Disclosure
<1>5. ASSUME NEW r \in Replica, EntryApplied(r) PROVE Disclosure'
  <2>1. /\ Apply(r) /\ UNCHANGED <<disclosed, log>>
        /\ frontier' = Later(frontier, replica'[r].applied)
    BY <1>5, Zenon DEF EntryApplied, Apply
  <2>2. /\ replica[r].applied \in Nat /\ replica[r].applied < Len(log)
        /\ replica'[r].applied = replica[r].applied + 1
        /\ \A q \in Replica \ {r} : replica'[q] = replica[q]
    BY <2>1, ApplyStep, Zenon
  <2>3. /\ frontier' \in Nat /\ frontier <= frontier' /\ replica'[r].applied <= frontier'
        /\ frontier' <= Len(log)
    BY <2>1, <2>2 DEF Disclosure, Later, TypeOK
  <2>4. ASSUME NEW q \in Replica PROVE replica'[q].applied <= frontier'
    <3>1. replica[q].applied \in Nat /\ replica[q].applied <= frontier
      BY Zenon DEF Disclosure, TypeOK, ReplicaState
    <3> QED BY <2>2, <2>3, <3>1 DEF Disclosure
  <2> QED BY <2>1, <2>3, <2>4 DEF Disclosure
<1>6. ASSUME NEW r \in Replica, NEW q \in Replica, SnapshotInstalled(r, q) PROVE Disclosure'
  <2>1. UNCHANGED <<frontier, disclosed, log>>
    BY <1>6, Zenon DEF SnapshotInstalled, Install, NoChange
  <2>2. \A p \in Replica : \E o \in Replica : replica'[p] = replica[o]
    BY <1>6, Zenon DEF SnapshotInstalled, Install, Import, TypeOK
  <2> QED BY <2>1, <2>2, Zenon DEF Disclosure
<1>7. ASSUME NEW r \in Replica, Crash(r) PROVE Disclosure'
  <2>1. UNCHANGED <<frontier, disclosed, log>>
    BY <1>7, Zenon DEF Crash, Restart
  <2>2. \A p \in Replica : replica'[p] = EmptyReplica \/ replica'[p] = replica[p]
    BY <1>7, Zenon DEF Crash, Restart, TypeOK
  <2>3. EmptyReplica.applied <= frontier
    BY EmptyType DEF Disclosure
  <2> QED BY <2>1, <2>2, <2>3, Zenon DEF Disclosure
<1> QED BY <1>1, <1>2, <1>3, <1>4, <1>5, <1>6, <1>7, Zenon DEF ServiceNext, Handler, Core, Issue,
    IssueWithinWindow, Put, Get, Superseded, Timeout, ReadGranted, ReadDropped, NoChange, vars,
    serviceVars

\* Every step of the handlers and of the core is one of the state machine as its
\* clients see it, or none at all.
LEMMA ServiceSteps ==
    ASSUME TypeOK, CallsTyped, Numbered, Waiters, Disclosure, [ServiceNext]_serviceVars
    PROVE  [Next]_vars
<1>1. CASE EntryCommitted
  <2>1. PICK e \in floating : /\ Len(log) < MaxLog /\ log' = Append(log, e.op)
                              /\ UNCHANGED <<issued, acked, replica>>
    BY <1>1, Zenon DEF EntryCommitted
  <2>2. e.op \in Op /\ e.op.seq <= issued[e.op.client]
    BY <2>1, Zenon DEF Numbered
  <2>3. Commit
    BY <2>1, <2>2, Zenon DEF Commit
  <2> QED BY <2>3, Zenon DEF Next, Replicate
<1>2. ASSUME NEW k \in Call, Respond(k) PROVE [Next]_vars
  <2>1. PICK i \in 1 .. frontier : StandsAt(calls[k], i)
    BY <1>2, Zenon DEF Respond, Waiters
  <2>2. i \in 1 .. Len(log)
    BY <2>1 DEF Disclosure, TypeOK
  <2>3. calls[k] \in WriteCall
    BY <1>2, CallKinds, Zenon DEF Respond, In
  <2>4. log[i].client # Nil
    BY <2>1, <2>3, NilIsNoClient, Zenon DEF WriteCall, Op, StandsAt
  <2>5. acked' = acked \cup {log[i]} /\ UNCHANGED <<issued, log, replica>>
    BY <1>2, <2>1, Zenon DEF Respond, StandsAt
  <2>6. Ack
    BY <2>2, <2>4, <2>5, Zenon DEF Ack
  <2> QED BY <2>6, Zenon DEF Next, Replicate
<1>3. ASSUME NEW r \in Replica,
             EntryApplied(r) \/ Crash(r) \/ \E q \in Replica : SnapshotInstalled(r, q)
      PROVE  [Next]_vars
  BY <1>3, Zenon DEF EntryApplied, Crash, SnapshotInstalled, Next, Replicate
<1>4. ASSUME NEW c \in Client, Issue(c) PROVE [Next]_vars
  BY <1>4, Zenon DEF Issue, Next
<1>5. CASE UNCHANGED vars
  BY <1>5, Zenon
<1> QED BY <1>1, <1>2, <1>3, <1>4, <1>5, Zenon DEF ServiceNext, Handler, Core, Put, Get, Superseded,
    Timeout, ReadGranted, ReadAnswered, ReadDropped, serviceVars

\* A replica that still serves the read it was asked for has not gone back.
LEMMA ReadersStep ==
    ASSUME ServiceInv, [ServiceNext]_serviceVars
    PROVE  Readers'
<1> USE DEF ServiceInv
<1>1. ASSUME NEW k \in Call, NEW r \in Replica, Get(k, r) PROVE Readers'
  <2>1. /\ calls' = [calls EXCEPT ![k] = [phase |-> "registered", at |-> r,
                                          floor |-> disclosed, index |-> frontier]]
        /\ UNCHANGED replica
    BY <1>1, Zenon DEF Get, vars
  <2>2. /\ calls'[k].phase = "registered" /\ calls'[k].floor = disclosed
        /\ calls'[k].index = frontier
        /\ \A j \in Call \ {k} : calls'[j] = calls[j]
    BY <2>1, Zenon DEF CallsTyped
  <2>3. calls'[k].phase # "granted" /\ disclosed <= frontier
    BY <2>2 DEF Disclosure
  <2> QED BY <2>1, <2>2, <2>3, Zenon DEF Readers, Reading, In
<1>2. ASSUME NEW k \in Call, ReadGranted(k) PROVE Readers'
  <2>1. /\ calls' = [calls EXCEPT ![k].phase = "granted"] /\ UNCHANGED replica
        /\ replica[calls[k].at].applied >= calls[k].index /\ calls[k].phase = "registered"
    BY <1>2, Zenon DEF ReadGranted, GrantDue, In, vars
  <2>2. calls[k] \in ReadCall
    BY <2>1, CallKinds, Zenon
  <2>3. /\ calls'[k].floor = calls[k].floor /\ calls'[k].index = calls[k].index
        /\ calls'[k].at = calls[k].at
        /\ \A j \in Call \ {k} : calls'[j] = calls[j]
    BY <2>1, <2>2, Zenon DEF CallsTyped, ReadCall
  <2>4. calls[k].index <= replica[calls[k].at].applied
    <3>1. calls[k].index \in Nat /\ replica[calls[k].at].applied \in Nat
      BY <2>2, Zenon DEF ReadCall, TypeOK, ReplicaState
    <3> QED BY <2>1, <3>1
  <2>5. calls[k].floor <= calls[k].index
    BY <2>1, Zenon DEF Readers, Reading
  <2>6. ASSUME NEW j \in Call, Reading(j)'
        PROVE  /\ calls'[j].floor <= calls'[j].index
               /\ In(j, "granted")' => calls'[j].index <= replica'[calls'[j].at].applied
    <3>1. CASE j = k
      BY <2>1, <2>3, <2>4, <2>5, <3>1, Zenon
    <3>2. CASE j # k
      BY <2>1, <2>3, <2>6, <3>2, Zenon DEF Readers, Reading, In
    <3> QED BY <3>1, <3>2, Zenon
  <2> QED BY <2>6, Zenon DEF Readers, Reading, In
<1>3. ASSUME \A k \in Call : calls'[k] = calls[k] \/ ~Reading(k)',
             \A k \in Call : Reading(k)' =>
                replica[calls[k].at].applied <= replica'[calls[k].at].applied
      PROVE  Readers'
  <2>1. ASSUME NEW k \in Call, Reading(k)'
        PROVE  /\ calls'[k].floor <= calls'[k].index
               /\ In(k, "granted")' => calls'[k].index <= replica'[calls'[k].at].applied
    <3>1. calls'[k] = calls[k] /\ Reading(k)
      BY <1>3, <2>1, Zenon DEF Reading
    <3>2. calls[k] \in ReadCall
      BY <3>1, CallKinds, Zenon DEF Reading
    <3>3. /\ calls[k].index \in Nat /\ replica[calls[k].at].applied \in Nat
      BY <3>2, Zenon DEF ReadCall, TypeOK, ReplicaState
    <3>4. replica[calls[k].at].applied <= replica'[calls[k].at].applied
      BY <1>3, <2>1, Zenon
    <3>5. replica'[calls[k].at].applied \in Nat
      <4>1. TypeOK'
        BY ServiceSteps, TypeStep, Zenon
      <4> QED BY <3>2, <4>1, Zenon DEF ReadCall, TypeOK, ReplicaState
    <3>6. /\ calls[k].floor <= calls[k].index
          /\ In(k, "granted") => calls[k].index <= replica[calls[k].at].applied
      BY <3>1, Zenon DEF Readers
    <3>7. In(k, "granted") => calls[k].index <= replica'[calls[k].at].applied
      BY <3>3, <3>4, <3>5, <3>6
    <3> QED BY <3>1, <3>6, <3>7, Zenon DEF In
  <2> QED BY <2>1, Zenon DEF Readers, Reading, In
<1>4. ASSUME NEW k \in Call, Reading(k)
      PROVE  calls[k].at \in Replica /\ replica[calls[k].at].applied \in Nat
  BY <1>4, CallKinds, Zenon DEF Reading, ReadCall, TypeOK, ReplicaState
<1>5. ASSUME \A k \in Call : calls'[k] = calls[k] \/ ~Reading(k)', UNCHANGED replica
      PROVE  Readers'
  <2>1. \A k \in Call : Reading(k)' => Reading(k)
    BY <1>5, Zenon DEF Reading
  <2>2. \A k \in Call : Reading(k)' =>
           replica[calls[k].at].applied <= replica'[calls[k].at].applied
    BY <1>4, <1>5, <2>1
  <2> QED BY <1>3, <1>5, <2>2, Zenon
<1>6. \A k \in Call : calls'[k] = Free => ~Reading(k)'
  BY DEF Free, Reading
<1>7. ASSUME NEW k \in Call, calls' = [calls EXCEPT ![k] = Free], UNCHANGED replica
      PROVE  Readers'
  <2>1. \A j \in Call : calls'[j] = calls[j] \/ calls'[j] = Free
    BY <1>7, Zenon DEF CallsTyped
  <2> QED BY <1>5, <1>6, <1>7, <2>1, Zenon
<1>8. ASSUME NEW k \in Call, NEW r \in Replica, Put(k, r) PROVE Readers'
  <2>1. \A j \in Call : calls'[j] = calls[j] \/ calls'[j].phase = "waiting"
    <3>1. PICK op \in Op :
             calls' = [calls EXCEPT ![k] = [phase |-> "waiting", at |-> r, op |-> op,
                                            no |-> proposals']]
      BY <1>8, Zenon DEF Put
    <3> QED BY <3>1, Zenon DEF CallsTyped
  <2>2. \A j \in Call : calls'[j].phase = "waiting" => ~Reading(j)'
    BY DEF Reading
  <2>3. UNCHANGED replica
    BY <1>8, Zenon DEF Put, vars
  <2> QED BY <1>5, <2>1, <2>2, <2>3, Zenon
<1>9. ASSUME NEW r \in Replica, EntryApplied(r) PROVE Readers'
  <2>1. /\ replica[r].applied \in Nat /\ replica'[r].applied = replica[r].applied + 1
        /\ \A q \in Replica \ {r} : replica'[q] = replica[q]
    BY <1>9, ApplyStep, Zenon DEF EntryApplied
  <2>2. ASSUME NEW k \in Call PROVE calls'[k] = calls[k] \/ ~Reading(k)'
    <3>1. calls'[k] = calls[k] \/ (In(k, "waiting") /\ calls'[k] = [calls[k] EXCEPT !.phase = "applied"])
      BY <1>9, Zenon DEF EntryApplied
    <3>2. In(k, "waiting") => [calls[k] EXCEPT !.phase = "applied"].phase = "applied"
      BY CallKinds, Zenon DEF In, WriteCall
    <3>3. calls'[k] = calls[k] \/ calls'[k].phase = "applied"
      BY <3>1, <3>2, Zenon
    <3> QED BY <3>3 DEF Reading
  <2>3. ASSUME NEW k \in Call, Reading(k)'
        PROVE  replica[calls[k].at].applied <= replica'[calls[k].at].applied
    <3>1. Reading(k)
      BY <2>2, <2>3, Zenon DEF Reading
    <3> QED BY <1>4, <2>1, <3>1
  <2> QED BY <1>3, <2>2, <2>3, Zenon
<1>10. ASSUME NEW r \in Replica, NEW q \in Replica, SnapshotInstalled(r, q) PROVE Readers'
  <2>1. /\ replica[q].applied > replica[r].applied /\ replica'[r] = replica[q]
        /\ \A p \in Replica \ {r} : replica'[p] = replica[p]
    BY <1>10, Zenon DEF SnapshotInstalled, Install, Import, TypeOK
  <2>2. ASSUME NEW k \in Call PROVE calls'[k] = calls[k] \/ ~Reading(k)'
    <3>1. calls'[k] = calls[k] \/ calls'[k] = Free
      BY <1>10, Zenon DEF SnapshotInstalled
    <3> QED BY <1>6, <3>1, Zenon
  <2>3. ASSUME NEW k \in Call, Reading(k)'
        PROVE  replica[calls[k].at].applied <= replica'[calls[k].at].applied
    <3>1. Reading(k)
      BY <2>2, <2>3, Zenon DEF Reading
    <3>2. replica[q].applied \in Nat /\ replica[r].applied \in Nat
      BY Zenon DEF TypeOK, ReplicaState
    <3> QED BY <1>4, <2>1, <3>1, <3>2
  <2> QED BY <1>3, <2>2, <2>3, Zenon
<1>11. ASSUME NEW r \in Replica, Crash(r) PROVE Readers'
  <2>1. \A p \in Replica \ {r} : replica'[p] = replica[p]
    BY <1>11, Zenon DEF Crash, Restart, TypeOK
  <2>2. ASSUME NEW k \in Call
        PROVE  \/ calls'[k] = Free
               \/ calls'[k] = calls[k] /\ (calls[k].at # r \/ In(k, "applied") \/ In(k, "free"))
    <3>1. PICK onTheWay \in SUBSET {j \in Call : In(j, "applied")} :
             calls' = [j \in Call |-> IF j \in onTheWay \/ In(j, "free") \/ calls[j].at # r
                                      THEN calls[j] ELSE Free]
      BY <1>11, Zenon DEF Crash
    <3>2. k \in onTheWay => In(k, "applied")
      BY <3>1, Zenon
    <3>3. CASE k \in onTheWay \/ In(k, "free") \/ calls[k].at # r
      BY <3>1, <3>2, <3>3, Zenon
    <3>4. CASE ~(k \in onTheWay \/ In(k, "free") \/ calls[k].at # r)
      BY <3>1, <3>4, Zenon
    <3> QED BY <3>3, <3>4, Zenon
  <2>3. \A k \in Call : calls'[k] = calls[k] \/ ~Reading(k)'
    BY <1>6, <2>2, Zenon
  <2>4. ASSUME NEW k \in Call, Reading(k)'
        PROVE  replica[calls[k].at].applied <= replica'[calls[k].at].applied
    <3>1. calls'[k] = calls[k] /\ (calls[k].at # r \/ In(k, "applied") \/ In(k, "free"))
      BY <1>6, <2>2, <2>4, Zenon
    <3>2. Reading(k)
      BY <2>4, <3>1, Zenon DEF Reading
    <3>3. calls[k].at # r
      BY <3>1, <3>2 DEF Reading, In
    <3>4. replica'[calls[k].at] = replica[calls[k].at]
      BY <1>4, <2>1, <3>2, <3>3, Zenon
    <3> QED BY <1>4, <3>2, <3>4
  <2> QED BY <1>3, <2>3, <2>4, Zenon
<1>12. CASE UNCHANGED <<calls, replica>>
  BY <1>5, <1>12, Zenon
<1> QED BY <1>1, <1>2, <1>7, <1>8, <1>9, <1>10, <1>11, <1>12, Zenon DEF ServiceNext, Handler, Core,
    EntryCommitted, Issue, IssueWithinWindow, Superseded, Timeout, Respond, ReadAnswered,
    ReadDropped, Answer, NoChange, vars, serviceVars

LEMMA ServiceInvHolds == ServiceSpec => []ServiceInv
<1>1. ServiceInit => ServiceInv
  <2> SUFFICES ASSUME ServiceInit PROVE ServiceInv
    OBVIOUS
  <2>1. TypeOK
    BY KvBounds DEF ServiceInit, Init, TypeOK, EmptyReplica, ReplicaState, NoSession, Session
  <2>2. Numbered
    BY DEF ServiceInit, Init, Numbered
  <2>3. CallsTyped /\ \A k \in Call : calls[k] = Free
    BY Zenon DEF ServiceInit, CallsTyped
  <2>4. Waiters /\ Readers
    BY <2>3 DEF Waiters, Readers, Reading, In, Free
  <2>5. Disclosure
    BY EmptyType DEF ServiceInit, Init, Disclosure
  <2> QED BY <2>1, <2>2, <2>3, <2>4, <2>5, Zenon DEF ServiceInv
<1>2. ServiceInv /\ [ServiceNext]_serviceVars => ServiceInv'
  <2> SUFFICES ASSUME ServiceInv, [ServiceNext]_serviceVars PROVE ServiceInv'
    OBVIOUS
  <2>1. TypeOK'
    BY ServiceSteps, TypeStep, Zenon DEF ServiceInv
  <2>2. Numbered' /\ CallsTyped' /\ Waiters'
    BY NumberedStep, CallsStep, WaitersStep, Zenon DEF ServiceInv
  <2>3. Disclosure' /\ Readers'
    BY DisclosureStep, ReadersStep, Zenon
  <2> QED BY <2>1, <2>2, <2>3, Zenon DEF ServiceInv
<1> QED BY <1>1, <1>2, PTL DEF ServiceSpec

\* Property ImplementsKvStore: the handlers with their timeouts, retries,
\* redirects and lost answers implement the state machine's view of its clients
\* (KvNode::write, write_error_response), for any number of calls under way,
\* nodes and crashes.
THEOREM ServiceImplementsKvStore == ServiceSpec => ImplementsKvStore
<1>1. ServiceInit => Init
  BY Zenon DEF ServiceInit
<1>2. ServiceInv /\ [ServiceNext]_serviceVars => [Next]_vars
  BY ServiceSteps, Zenon DEF ServiceInv
<1> QED BY <1>1, <1>2, ServiceInvHolds, PTL DEF ServiceSpec, ImplementsKvStore, Spec

\* Property ReadsLinearizable: from the grant on, the state machine that a
\* linearizable read is about to see holds all that any answer given before the
\* read was registered depended on (KvNode::get_linearizable).
THEOREM ReadsLinearizableHolds == ServiceSpec => []ReadsLinearizable
<1>1. ServiceInv => ReadsLinearizable
  <2> SUFFICES ASSUME ServiceInv, NEW k \in Call, In(k, "granted")
               PROVE  replica[calls[k].at].applied >= calls[k].floor
    BY Zenon DEF ReadsLinearizable
  <2>1. calls[k] \in ReadCall /\ Reading(k)
    BY CallKinds, Zenon DEF ServiceInv, In, Reading
  <2>2. calls[k].floor <= calls[k].index /\ calls[k].index <= replica[calls[k].at].applied
    BY <2>1, Zenon DEF ServiceInv, Readers
  <2>3. /\ calls[k].floor \in Nat /\ calls[k].index \in Nat
        /\ replica[calls[k].at].applied \in Nat
    BY <2>1, Zenon DEF ServiceInv, TypeOK, ReadCall, ReplicaState
  <2> QED BY <2>2, <2>3
<1> QED BY <1>1, ServiceInvHolds, PTL

\* Property AckedTookEffect: a write whose waiter is told true has mutated the
\* map of the answering node exactly once (resolve_pending after apply), as a
\* retry of it may long have done.
THEOREM AckedTookEffectHolds == ServiceSpec => AckedTookEffect
<1>1. ServiceInv /\ [ServiceNext]_serviceVars /\ TypeOK' /\ NothingSkipped' /\ AtMostOnce' =>
         [\A k \in Call :
             In(k, "waiting") /\ calls'[k].phase = "applied"
             => replica'[calls[k].at].hits[calls[k].op] = 1]_serviceVars
  <2> SUFFICES ASSUME ServiceInv, [ServiceNext]_serviceVars, TypeOK', NothingSkipped', AtMostOnce',
                      NEW k \in Call, In(k, "waiting"), calls'[k].phase = "applied"
               PROVE  replica'[calls[k].at].hits[calls[k].op] = 1
    BY Zenon
  <2> USE DEF ServiceInv
  <2>1. calls[k].phase = "waiting" /\ calls'[k] # calls[k] /\ calls'[k] # Free
    BY DEF In, Free
  <2>2. PICK r \in Replica : EntryApplied(r)
    <3>1. \A j \in Call : calls' # [calls EXCEPT ![j] = Free]
      BY <2>1, Zenon DEF CallsTyped
    <3>2. ASSUME NEW j \in Call, NEW r \in Replica, Put(j, r) \/ Get(j, r) PROVE FALSE
      <4>1. \E call : /\ calls' = [calls EXCEPT ![j] = call]
                      /\ call.phase = "waiting" \/ call.phase = "registered"
        <5>1. CASE Put(j, r)
          <6>1. PICK op, no : calls' = [calls EXCEPT ![j] = [phase |-> "waiting", at |-> r,
                                                            op |-> op, no |-> no]]
            BY <5>1, Zenon DEF Put
          <6>2. PICK call : call = [phase |-> "waiting", at |-> r, op |-> op, no |-> no]
            BY Zenon
          <6>3. calls' = [calls EXCEPT ![j] = call] /\ call.phase = "waiting"
            BY <6>1, <6>2, Zenon
          <6> QED BY <6>3, Zenon
        <5>2. CASE Get(j, r)
          <6>1. PICK call : call = [phase |-> "registered", at |-> r,
                                    floor |-> disclosed, index |-> frontier]
            BY Zenon
          <6>2. calls' = [calls EXCEPT ![j] = call] /\ call.phase = "registered"
            BY <5>2, <6>1, Zenon DEF Get
          <6> QED BY <6>2, Zenon
        <5> QED BY <3>2, <5>1, <5>2, Zenon
      <4>2. calls'[k] = calls[k] \/ calls'[k].phase = "waiting" \/ calls'[k].phase = "registered"
        BY <4>1, Zenon DEF CallsTyped
      <4> QED BY <2>1, <4>2
    <3>3. ASSUME NEW j \in Call, ReadGranted(j) PROVE FALSE
      <4>1. j # k
        BY <2>1, <3>3 DEF ReadGranted, In
      <4> QED BY <2>1, <3>3, <4>1, Zenon DEF ReadGranted, CallsTyped
    <3>4. ASSUME NEW r \in Replica, Crash(r) \/ \E q \in Replica : SnapshotInstalled(r, q)
          PROVE  FALSE
      <4>1. calls'[k] = calls[k] \/ calls'[k] = Free
        BY <3>4, Zenon DEF Crash, SnapshotInstalled
      <4> QED BY <2>1, <4>1, Zenon
    <3> QED BY <2>1, <3>1, <3>2, <3>3, <3>4, Zenon DEF ServiceNext, Handler, Core, EntryCommitted,
        Issue, Superseded, Timeout, Respond, ReadAnswered, ReadDropped, Answer, serviceVars
  <2>3. /\ calls[k].at = r /\ calls[k].no = origin[replica'[r].applied] /\ UNCHANGED log
        /\ Apply(r)
    BY <2>1, <2>2, Zenon DEF EntryApplied, DueAt, Apply
  <2>4. PICK top : top = replica'[r].applied
    BY Zenon
  <2>5. top \in 1 .. Len(log) /\ top \in 1 .. replica'[r].applied
    <3>1. /\ replica[r].applied \in Nat /\ replica[r].applied < Len(log)
          /\ top = replica[r].applied + 1
      BY <2>3, <2>4, ApplyStep, Zenon
    <3> QED BY <2>4, <3>1 DEF TypeOK
  <2>6. log[top] = calls[k].op
    BY <2>3, <2>4, <2>5, WaiterStandsAt, Zenon DEF StandsAt
  <2>7. calls[k].op \in Op /\ calls[k].op.client # Nil
    <3>1. calls[k] \in WriteCall
      BY <2>1, CallKinds, Zenon
    <3> QED BY <3>1, NilIsNoClient, Zenon DEF WriteCall, Op
  <2>8. replica'[r].hits[calls[k].op] >= 1
    BY <2>3, <2>5, <2>6, <2>7, Zenon DEF NothingSkipped
  <2>9. replica'[r].hits[calls[k].op] <= 1
    BY <2>7, Zenon DEF AtMostOnce
  <2>10. replica'[r].hits[calls[k].op] \in Nat
    <3>1. replica'[r] \in ReplicaState
      BY Zenon DEF TypeOK
    <3>2. replica'[r].hits \in [Op -> Nat]
      BY ONLY <3>1, Zenon DEF ReplicaState
    <3> QED BY ONLY <2>7, <3>2, Zenon
  <2>11. replica'[r].hits[calls[k].op] = 1
    BY <2>8, <2>9, <2>10
  <2> QED BY <2>3, <2>11, Zenon
<1> QED BY <1>1, ServiceInvHolds, ServiceImplementsKvStore, NothingSkippedHolds, AtMostOnceHolds,
       TypeCorrect, PTL DEF ServiceSpec, AckedTookEffect, ImplementsKvStore
-----------------------------------------------------------------------------
(* The simulated network.                                                  *)

SendPhase == {"sent", "handling", "answered", "lost", "ok", "error"}

SendState ==
    [phase : SendPhase, from : Node, to : Node, target : Nat, req_blocked : BOOLEAN, copy : BOOLEAN]

SimTypes ==
    /\ lives \in [Node -> Nat]
    /\ sends \in [SendNo -> {NotSent} \cup SendState]
    /\ inboxes \in [SendNo -> Seq(Nat)]

\* What is true of one send, with call its exchange and box the inboxes reached.
Planned(call, box) ==
    /\ call = NotSent => box = << >>
    /\ call # NotSent =>
          /\ Len(box) <= 2
          /\ call.phase = "sent" => Len(box) <= 1
          /\ call.copy => Len(box) <= 1 /\ ~call.req_blocked
          /\ call.phase = "sent" /\ call.copy => Len(box) = 0
          /\ call.phase \in {"handling", "answered", "ok"} => Len(box) > 0
          /\ \A i \in 1 .. Len(box) : box[i] = call.target /\ ~call.req_blocked

SimInv == SimTypes /\ \A s \in SendNo : Planned(sends[s], inboxes[s])

\* The two shapes of an exchange are told apart by their phase.
LEMMA Shapes ==
    /\ NotSent \notin SendState
    /\ \A c \in SendState : c # NotSent /\ c.phase # "none"
    /\ NotSent.phase = "none"
BY DEF NotSent, SendState, SendPhase

LEMMA SimInitInv == SimInit => SimInv
BY Shapes DEF SimInit, SimInv, SimTypes, Planned, SendNo, NotSent

\* A step of one exchange: only its own entries change.
LEMMA OneSend ==
    ASSUME SimInv, NEW s \in SendNo,
           NEW c \in SendState, sends' = [sends EXCEPT ![s] = c],
           NEW b \in Seq(Nat), inboxes' = [inboxes EXCEPT ![s] = b],
           UNCHANGED lives, Planned(c, b)
    PROVE  SimInv'
<1>1. SimTypes'
  BY Zenon DEF SimInv, SimTypes
<1>2. ASSUME NEW t \in SendNo PROVE Planned(sends'[t], inboxes'[t])
  <2>1. CASE t = s
    BY <2>1, Zenon DEF SimInv, SimTypes
  <2>2. CASE t # s
    <3>1. sends'[t] = sends[t] /\ inboxes'[t] = inboxes[t]
      BY <2>2, Zenon DEF SimInv, SimTypes
    <3> QED BY <3>1, Zenon DEF SimInv
  <2> QED BY <2>1, <2>2, Zenon
<1> QED BY <1>1, <1>2, Zenon DEF SimInv

\* The request enters the inbox it was sent to.
LEMMA OneMore ==
    ASSUME NEW b \in Seq(Nat), NEW l \in Nat,
           \A i \in 1 .. Len(b) : b[i] = l
    PROVE  /\ Append(b, l) \in Seq(Nat)
           /\ Len(Append(b, l)) = Len(b) + 1
           /\ \A i \in 1 .. Len(Append(b, l)) : Append(b, l)[i] = l
OBVIOUS

LEMMA Moved ==
    ASSUME NEW c \in SendState, NEW m \in SendPhase
    PROVE  LET d == [c EXCEPT !.phase = m] IN
           /\ d \in SendState /\ d # NotSent /\ d.phase = m
           /\ d.target = c.target /\ d.req_blocked = c.req_blocked /\ d.copy = c.copy
BY Shapes, Zenon DEF SendState, SendPhase

LEMMA Copied ==
    ASSUME NEW c \in SendState
    PROVE  LET d == [c EXCEPT !.copy = FALSE] IN
           /\ d \in SendState /\ d # NotSent /\ d.phase = c.phase /\ ~d.copy
           /\ d.target = c.target /\ d.req_blocked = c.req_blocked
BY Shapes, Zenon DEF SendState, SendPhase

LEMMA ExchangeInv ==
    ASSUME SimInv, NEW s \in SendNo, Exchange(s)
    PROVE  SimInv'
<1> DEFINE c == sends[s]
           b == inboxes[s]
<1>1. /\ c \in {NotSent} \cup SendState /\ b \in Seq(Nat) /\ Planned(c, b)
      /\ inboxes = [inboxes EXCEPT ![s] = b]
  BY Zenon DEF SimInv, SimTypes
<1>2. ASSUME NEW from \in Sender, NEW to \in Node, NEW m \in Message, Send(s, from, to, m)
      PROVE  SimInv'
  <2>1. PICK d \in BOOLEAN :
          LET req_blocked == <<from, to>> \in blocked IN
          sends' = [sends EXCEPT ![s] =
             [phase |-> IF lives[to] = 0 THEN "error" ELSE "sent",
              from |-> from, to |-> to, target |-> lives[to], req_blocked |-> req_blocked,
              copy |-> lives[to] > 0 /\ d /\ ~req_blocked]]
    BY <1>2, Zenon DEF Send
  <2> DEFINE n == [phase |-> IF lives[to] = 0 THEN "error" ELSE "sent",
                   from |-> from, to |-> to, target |-> lives[to],
                   req_blocked |-> <<from, to>> \in blocked,
                   copy |-> lives[to] > 0 /\ d /\ ~(<<from, to>> \in blocked)]
  <2>2. c = NotSent /\ b = << >> /\ UNCHANGED <<lives, inboxes>>
    BY <1>1, <1>2, Zenon DEF Send, Planned
  <2>3. from \in Node /\ lives[to] \in Nat
    BY SenderIsNode, Zenon DEF SimInv, SimTypes
  <2>4. n \in SendState
    BY <2>3 DEF SendState, SendPhase
  <2>6. n # NotSent /\ n.phase \in {"error", "sent"} /\ (n.copy => ~n.req_blocked)
    BY <2>4, Shapes, Zenon
  <2> HIDE DEF n
  <2>7. Len(b) = 0
    BY <2>2
  <2>5. Planned(n, b)
    BY <2>2, <2>6, <2>7 DEF Planned
  <2>8. sends' = [sends EXCEPT ![s] = n]
    BY <2>1, Zenon DEF n
  <2> QED BY <1>1, <2>2, <2>4, <2>5, <2>8, OneSend, Zenon
<1>3. CASE RequestArrives(s)
  <2>1. c \in SendState /\ c.phase = "sent" /\ UNCHANGED lives
    BY <1>1, <1>3, Shapes, Zenon DEF RequestArrives
  <2>2. CASE sends' = [sends EXCEPT ![s].phase = "lost"] /\ UNCHANGED inboxes
    <3> DEFINE d == [c EXCEPT !.phase = "lost"]
    <3>1. sends' = [sends EXCEPT ![s] = d]
      BY <2>2
    <3>2. /\ d \in SendState /\ d # NotSent /\ d.phase = "lost"
          /\ d.target = c.target /\ d.req_blocked = c.req_blocked /\ d.copy = c.copy
          /\ c # NotSent
      BY <2>1, Moved, Shapes, Zenon DEF SendPhase
    <3> HIDE DEF d
    <3>3. Planned(d, b)
      BY <1>1, <3>2, Zenon DEF Planned
    <3> QED BY <1>1, <2>1, <2>2, <3>1, <3>2, <3>3, OneSend, Zenon
  <2>3. CASE /\ ~c.req_blocked /\ sends' = [sends EXCEPT ![s].phase = "handling"]
             /\ Handed(s)
    <3> DEFINE d == [c EXCEPT !.phase = "handling"]
               a == Append(b, c.target)
    <3>1. sends' = [sends EXCEPT ![s] = d] /\ inboxes' = [inboxes EXCEPT ![s] = a]
      BY <2>3, Zenon DEF Handed, Inbox
    <3>2. c.target \in Nat /\ c # NotSent
      BY <2>1, Shapes, Zenon DEF SendState
    <3>3. /\ a \in Seq(Nat) /\ Len(a) = Len(b) + 1
          /\ \A i \in 1 .. Len(a) : a[i] = c.target
      BY <1>1, <3>2, OneMore, Zenon DEF Planned
    <3>4. /\ d \in SendState /\ d # NotSent /\ d.phase = "handling"
          /\ d.target = c.target /\ d.req_blocked = c.req_blocked /\ d.copy = c.copy
      BY <2>1, Moved, Zenon DEF SendPhase
    <3>5. Len(b) \in Nat
      BY <1>1
    <3> HIDE DEF d, a
    <3>6. Planned(d, a)
      BY <1>1, <2>1, <2>3, <3>2, <3>3, <3>4, <3>5 DEF Planned
    <3> QED BY <2>1, <3>1, <3>3, <3>4, <3>6, OneSend, Zenon
  <2> QED BY <1>3, <2>2, <2>3, Zenon DEF RequestArrives
<1>4. CASE CopyArrives(s)
  <2>1. c \in SendState /\ c.copy /\ UNCHANGED lives
    BY <1>1, <1>4, Zenon DEF CopyArrives
  <2>2. sends' = [sends EXCEPT ![s].copy = FALSE]
    BY <1>4, Zenon DEF CopyArrives, CopyLeft
  <2> DEFINE d == [c EXCEPT !.copy = FALSE]
  <2>5. sends' = [sends EXCEPT ![s] = d]
    BY <2>2
  <2>6. /\ d \in SendState /\ d # NotSent /\ d.phase = c.phase /\ ~d.copy
        /\ d.target = c.target /\ d.req_blocked = c.req_blocked
        /\ c # NotSent /\ c.target \in Nat /\ Len(b) \in Nat
    BY <1>1, <2>1, Copied, Shapes DEF SendState
  <2> HIDE DEF d
  <2>3. CASE UNCHANGED inboxes
    <3>1. Planned(d, b)
      BY <1>1, <2>6, Zenon DEF Planned
    <3> QED BY <1>1, <2>1, <2>3, <2>5, <2>6, <3>1, OneSend, Zenon
  <2>4. CASE Handed(s)
    <3> DEFINE a == Append(b, c.target)
    <3>1. inboxes' = [inboxes EXCEPT ![s] = a]
      BY <2>4, Zenon DEF Handed, Inbox
    <3>2. /\ a \in Seq(Nat) /\ Len(a) = Len(b) + 1
          /\ \A i \in 1 .. Len(a) : a[i] = c.target
      BY <1>1, <2>6, OneMore, Zenon DEF Planned
    <3> HIDE DEF a
    <3>3. Planned(d, a)
      BY <1>1, <2>1, <2>6, <3>2 DEF Planned
    <3> QED BY <2>1, <2>5, <2>6, <3>1, <3>2, <3>3, OneSend, Zenon
  <2> QED BY <1>4, <2>3, <2>4, Zenon DEF CopyArrives
<1>5. CASE NodeAnswers(s) \/ ReplyArrives(s) \/ SendTimeout(s)
  <2>1. c \in SendState /\ UNCHANGED <<lives, inboxes>>
    BY <1>1, <1>5, Shapes, Zenon DEF NodeAnswers, ReplyArrives, SendTimeout
  <2>2. PICK m \in SendPhase :
          /\ sends' = [sends EXCEPT ![s].phase = m]
          /\ m \in {"answered", "lost", "ok", "error"}
          /\ m \in {"answered", "ok"} => c.phase \in {"handling", "answered"}
    BY <1>5, Zenon DEF NodeAnswers, ReplyArrives, SendTimeout, SendPhase
  <2> DEFINE d == [c EXCEPT !.phase = m]
  <2>3. sends' = [sends EXCEPT ![s] = d]
    BY <2>2, Zenon
  <2>4. /\ d \in SendState /\ d # NotSent /\ d.phase = m
        /\ d.target = c.target /\ d.req_blocked = c.req_blocked /\ d.copy = c.copy
        /\ c # NotSent
    BY <2>1, <2>2, Moved, Shapes
  <2> HIDE DEF d
  <2>5. Planned(d, b)
    BY <1>1, <2>2, <2>4, Zenon DEF Planned
  <2> QED BY <1>1, <2>1, <2>3, <2>4, <2>5, OneSend, Zenon
<1> QED BY <1>2, <1>3, <1>4, <1>5, Zenon DEF Exchange

LEMMA ControlInv ==
    ASSUME SimInv, Control
    PROVE  SimInv'
<1>1. ASSUME NEW n \in Node, Register(n) PROVE SimInv'
  BY <1>1 DEF SimInv, SimTypes, Register
<1>2. ASSUME NEW n \in Node, NodeCrash(n) PROVE SimInv'
  <2>1. UNCHANGED <<lives, inboxes>>
    BY <1>2, Zenon DEF NodeCrash
  <2>2. ASSUME NEW s \in SendNo
        PROVE  /\ sends'[s] \in {NotSent} \cup SendState
               /\ Planned(sends'[s], inboxes[s])
    <3>1. sends[s] \in {NotSent} \cup SendState /\ Planned(sends[s], inboxes[s])
      BY Zenon DEF SimInv, SimTypes
    <3>2. CASE sends[s].phase = "handling" /\ sends[s].to = n
      <4>1. sends[s] \in SendState /\ sends'[s] = [sends[s] EXCEPT !.phase = "lost"]
        BY <1>2, <3>1, <3>2, Shapes, Zenon DEF NodeCrash
      <4> QED BY <3>1, <4>1, Shapes DEF Planned, SendState, SendPhase
    <3>3. CASE ~(sends[s].phase = "handling" /\ sends[s].to = n)
      BY <1>2, <3>1, <3>3, Zenon DEF NodeCrash
    <3> QED BY <3>2, <3>3, Zenon
  <2>3. sends' \in [SendNo -> {NotSent} \cup SendState]
    BY <1>2, <2>2, Zenon DEF NodeCrash
  <2> QED BY <2>1, <2>2, <2>3, Zenon DEF SimInv, SimTypes
<1>3. ASSUME NEW link, SetLinkBlocked(link) PROVE SimInv'
  BY <1>3, Zenon DEF SimInv, SimTypes, SetLinkBlocked
<1> QED BY <1>1, <1>2, <1>3, Zenon DEF Control

LEMMA SimNextInv == SimInv /\ [SimNext]_simVars => SimInv'
<1> SUFFICES ASSUME SimInv, [SimNext]_simVars PROVE SimInv'
  OBVIOUS
<1>1. CASE UNCHANGED simVars
  BY <1>1, Zenon DEF simVars, SimInv, SimTypes
<1> QED BY <1>1, ExchangeInv, ControlInv DEF SimNext

\* A message reaches a node only in the life it was sent to, and none that was
\* sent over a blocked link arrives, not even its copy (send, SendPlan).
THEOREM ArrivesAsPlannedHolds == SimSpec => []ArrivesAsPlanned
<1>1. SimInv => ArrivesAsPlanned
  <2> SUFFICES ASSUME SimInv, NEW s \in SendNo, NEW i \in DOMAIN inboxes[s]
               PROVE  inboxes[s][i] = sends[s].target /\ ~sends[s].req_blocked
    BY Zenon DEF ArrivesAsPlanned
  <2>1. inboxes[s] \in Seq(Nat) /\ Planned(sends[s], inboxes[s])
    BY Zenon DEF SimInv, SimTypes
  <2>2. i \in 1 .. Len(inboxes[s]) /\ inboxes[s] # << >>
    BY <2>1
  <2> QED BY <2>1, <2>2, Zenon DEF Planned
<1> QED BY <1>1, SimInitInv, SimNextInv, PTL DEF SimSpec

-----------------------------------------------------------------------------
(* Refinement.  One step of a send is at most one step of the contract.    *)

\* A step that concerns s and leaves the others alone.
LEMMA OneStep ==
    ASSUME SimInv, NEW s \in SendNo,
           \A t \in SendNo \ {s} : sends'[t] = sends[t] /\ inboxes'[t] = inboxes[t],
           \/ SendOutcome(s)' = SendOutcome(s) /\ Len(inboxes'[s]) = Len(inboxes[s])
           \/ /\ SendOutcome(s) = "none" /\ SendOutcome(s)' \in {"pending", "error"}
              /\ Len(inboxes'[s]) = Len(inboxes[s])
           \/ /\ SendOutcome(s)' = SendOutcome(s) /\ SendOutcome(s) # "none"
              /\ Len(inboxes[s]) < 2 /\ Len(inboxes'[s]) = Len(inboxes[s]) + 1
           \/ /\ SendOutcome(s) = "pending" /\ Len(inboxes'[s]) = Len(inboxes[s])
              /\ SendOutcome(s)' = "error" \/ (Len(inboxes[s]) > 0 /\ SendOutcome(s)' = "ok")
    PROVE  [SimContract!Next]_(SimContract!vars)
<1> DEFINE o == [t \in SendNo |-> SendOutcome(t)]
           h == [t \in SendNo |-> Len(inboxes[t])]
<1>1. \A t \in SendNo \ {s} : o'[t] = o[t] /\ h'[t] = h[t]
  BY Zenon DEF SendOutcome
<1>2. /\ o[s] = SendOutcome(s) /\ o'[s] = SendOutcome(s)'
      /\ h[s] = Len(inboxes[s]) /\ h'[s] = Len(inboxes'[s])
  BY Zenon
<1>3. /\ o' = [o EXCEPT ![s] = SendOutcome(s)']
      /\ h' = [h EXCEPT ![s] = Len(inboxes'[s])]
  BY <1>1, <1>2, Zenon
<1>4. CASE SendOutcome(s)' = SendOutcome(s) /\ Len(inboxes'[s]) = Len(inboxes[s])
  <2>1. o' = o /\ h' = h
    BY <1>2, <1>3, <1>4, Zenon
  <2> QED BY <2>1, Zenon DEF SimContract!vars
<1>5. CASE /\ SendOutcome(s) = "none" /\ SendOutcome(s)' \in {"pending", "error"}
           /\ Len(inboxes'[s]) = Len(inboxes[s])
  <2>1. h' = h
    BY <1>2, <1>3, <1>5, Zenon
  <2>2. SimContract!Send(s)
    BY <1>2, <1>3, <1>5, <2>1, Zenon DEF SimContract!Send
  <2> QED BY <2>2, Zenon DEF SimContract!Next
<1>6. CASE /\ SendOutcome(s)' = SendOutcome(s) /\ SendOutcome(s) # "none"
           /\ Len(inboxes[s]) < 2 /\ Len(inboxes'[s]) = Len(inboxes[s]) + 1
  <2>1. o' = o
    BY <1>2, <1>3, <1>6, Zenon
  <2>2. h' = [h EXCEPT ![s] = h[s] + 1]
    BY <1>2, <1>3, <1>6, Zenon
  <2>3. SimContract!Hand(s)
    BY <1>2, <1>6, <2>1, <2>2, Zenon DEF SimContract!Hand
  <2> QED BY <2>3, Zenon DEF SimContract!Next
<1>7. CASE /\ SendOutcome(s) = "pending" /\ Len(inboxes'[s]) = Len(inboxes[s])
           /\ SendOutcome(s)' = "error" \/ (Len(inboxes[s]) > 0 /\ SendOutcome(s)' = "ok")
  <2>1. h' = h
    BY <1>2, <1>3, <1>7, Zenon
  <2>2. SimContract!Return(s)
    BY <1>2, <1>3, <1>7, <2>1, Zenon DEF SimContract!Return
  <2> QED BY <2>2, Zenon DEF SimContract!Next
<1> QED BY <1>4, <1>5, <1>6, <1>7, Zenon

LEMMA ExchangeRefines ==
    ASSUME SimInv, NEW s \in SendNo, Exchange(s)
    PROVE  [SimContract!Next]_(SimContract!vars)
<1> DEFINE c == sends[s]
           b == inboxes[s]
<1>1. c \in {NotSent} \cup SendState /\ b \in Seq(Nat) /\ Planned(c, b) /\ Len(b) \in Nat
  BY DEF SimInv, SimTypes
<1>2. \A t \in SendNo \ {s} : sends'[t] = sends[t] /\ inboxes'[t] = inboxes[t]
  BY Zenon DEF SimInv, SimTypes, Exchange, Send, RequestArrives, CopyArrives, NodeAnswers, ReplyArrives,
     SendTimeout, Handed
<1>3. \A l \in Nat : Len(Append(b, l)) = Len(b) + 1
  BY <1>1
<1>4. ASSUME NEW from \in Sender, NEW to \in Node, NEW m \in Message, Send(s, from, to, m)
      PROVE  [SimContract!Next]_(SimContract!vars)
  <2>1. c = NotSent /\ inboxes' = inboxes /\ sends'[s].phase \in {"error", "sent"}
    BY <1>4 DEF Send, SimInv, SimTypes
  <2>2. SendOutcome(s) = "none" /\ SendOutcome(s)' \in {"pending", "error"}
    BY <2>1, Shapes, Zenon DEF SendOutcome
  <2> QED BY <1>2, <2>1, <2>2, OneStep, Zenon
<1>5. CASE RequestArrives(s)
  <2>1. c \in SendState /\ c # NotSent /\ c.phase = "sent"
    BY <1>1, <1>5, Shapes, Zenon DEF RequestArrives
  <2>2. sends'[s].phase \in {"lost", "handling"}
    BY <1>5, <2>1 DEF RequestArrives, SimInv, SimTypes, SendState
  <2>3. SendOutcome(s) = "pending" /\ SendOutcome(s)' = "pending"
    BY <2>1, <2>2, Zenon DEF SendOutcome
  <2>4. Len(b) < 2 /\ c.target \in Nat
    BY <1>1, <2>1 DEF Planned, SendState
  <2>5. inboxes' = inboxes \/ inboxes'[s] = Append(b, c.target)
    BY <1>5, Zenon DEF RequestArrives, Handed, Inbox, SimInv, SimTypes
  <2> QED BY <1>2, <1>3, <2>3, <2>4, <2>5, OneStep, Zenon
<1>6. CASE CopyArrives(s)
  <2>1. c \in SendState /\ c.copy /\ c # NotSent
    BY <1>1, <1>6, Zenon DEF CopyArrives
  <2>2. sends'[s].phase = c.phase
    BY <1>6, <2>1, Zenon DEF CopyArrives, SimInv, SimTypes, SendState
  <2>3. SendOutcome(s)' = SendOutcome(s) /\ SendOutcome(s) # "none"
    BY <2>1, <2>2, Shapes, Zenon DEF SendOutcome
  <2>4. Len(b) < 2 /\ c.target \in Nat
    BY <1>1, <2>1 DEF Planned, SendState
  <2>5. inboxes' = inboxes \/ inboxes'[s] = Append(b, c.target)
    BY <1>6, Zenon DEF CopyArrives, Handed, Inbox, SimInv, SimTypes
  <2> QED BY <1>2, <1>3, <2>3, <2>4, <2>5, OneStep, Zenon
<1>7. CASE NodeAnswers(s)
  <2>1. c \in SendState /\ c.phase = "handling" /\ inboxes' = inboxes
    BY <1>1, <1>7, Shapes, Zenon DEF NodeAnswers
  <2>2. sends'[s].phase = "answered"
    BY <1>7, <2>1, Zenon DEF NodeAnswers, SimInv, SimTypes, SendState
  <2>3. SendOutcome(s)' = SendOutcome(s)
    BY <2>1, <2>2, Zenon DEF SendOutcome
  <2> QED BY <1>2, <2>1, <2>3, OneStep, Zenon
<1>8. CASE ReplyArrives(s)
  <2>1. c \in SendState /\ c # NotSent /\ c.phase = "answered" /\ inboxes' = inboxes
    BY <1>1, <1>8, Shapes, Zenon DEF ReplyArrives
  <2>2. sends'[s].phase \in {"lost", "ok"}
    BY <1>8, <2>1 DEF ReplyArrives, SimInv, SimTypes, SendState
  <2>3. SendOutcome(s) = "pending" /\ SendOutcome(s)' \in {"pending", "ok"}
    BY <2>1, <2>2, Zenon DEF SendOutcome
  <2>4. Len(b) > 0
    BY <1>1, <2>1, Zenon DEF Planned
  <2> QED BY <1>2, <2>1, <2>3, <2>4, OneStep, Zenon
<1>9. CASE SendTimeout(s)
  <2>1. c \in SendState /\ c.phase \in {"sent", "handling", "answered", "lost"}
        /\ inboxes' = inboxes
    BY <1>1, <1>9, Shapes, Zenon DEF SendTimeout
  <2>2. sends'[s].phase = "error"
    BY <1>9, <2>1, Zenon DEF SendTimeout, SimInv, SimTypes, SendState
  <2>3. SendOutcome(s) = "pending" /\ SendOutcome(s)' = "error"
    BY <2>1, <2>2, Zenon DEF SendOutcome
  <2> QED BY <1>2, <2>1, <2>3, OneStep, Zenon
<1> QED BY <1>4, <1>5, <1>6, <1>7, <1>8, <1>9, Zenon DEF Exchange

\* The controls of a test are no step of the contract.
LEMMA ControlRefines ==
    ASSUME SimInv, Control
    PROVE  UNCHANGED SimContract!vars
<1>1. inboxes' = inboxes
  BY Zenon DEF Control, Register, NodeCrash, SetLinkBlocked
<1>2. ASSUME NEW s \in SendNo PROVE SendOutcome(s)' = SendOutcome(s)
  <2>1. CASE sends' = sends
    BY <2>1 DEF SendOutcome
  <2>2. ASSUME NEW n \in Node, NodeCrash(n) PROVE SendOutcome(s)' = SendOutcome(s)
    <3>1. CASE sends[s].phase = "handling" /\ sends[s].to = n
      <4>1. sends[s] \in SendState
        BY <3>1, Shapes, Zenon DEF SimInv, SimTypes
      <4>2. sends'[s].phase = "lost"
        BY <2>2, <3>1, <4>1, Zenon DEF NodeCrash, SendState
      <4> QED BY <3>1, <4>2, Zenon DEF SendOutcome
    <3>2. CASE ~(sends[s].phase = "handling" /\ sends[s].to = n)
      <4>1. sends'[s] = sends[s]
        BY <2>2, <3>2, Zenon DEF NodeCrash
      <4> QED BY <4>1, Zenon DEF SendOutcome
    <3> QED BY <3>1, <3>2, Zenon
  <2> QED BY <2>1, <2>2, Zenon DEF Control, Register, SetLinkBlocked
<1> QED BY <1>1, <1>2 DEF SimContract!vars

\* Whatever a test does to the simulated network, the core is offered what the
\* trait Transport promises, and nothing else (send).
THEOREM SimImplementsTransport == SimSpec => SimKeepsContract
<1>1. SimInit => SimContract!Init
  <2> SUFFICES ASSUME SimInit PROVE SimContract!Init
    OBVIOUS
  <2>1. ASSUME NEW s \in SendNo PROVE SendOutcome(s) = "none" /\ Len(inboxes[s]) = 0
    BY Shapes, Zenon DEF SimInit, SendOutcome
  <2> QED BY <2>1 DEF SimContract!Init
<1>2. SimInv /\ [SimNext]_simVars => [SimContract!Next]_(SimContract!vars)
  <2> SUFFICES ASSUME SimInv, [SimNext]_simVars PROVE [SimContract!Next]_(SimContract!vars)
    OBVIOUS
  <2>1. CASE UNCHANGED simVars
    BY <2>1, Zenon DEF simVars, SimContract!vars, SendOutcome
  <2> QED BY <2>1, ExchangeRefines, ControlRefines DEF SimNext
<1> QED BY <1>1, <1>2, SimInitInv, SimNextInv, PTL DEF SimSpec, SimContract!Spec, SimKeepsContract
-----------------------------------------------------------------------------
(***************************************************************************)
(* The observer.  Its maps hold the first claim of every term and the      *)
(* first entry of every (term, index) among the messages it inspected, so  *)
(* a message that differs from another one differs from what is in a map.  *)
(***************************************************************************)
Appends == {m \in Message : m.kind = "AppendEntries"}

Claim(m) == [term |-> m.term, leader |-> m.leader_id]

SameKey(e, k) == e.term = k.term /\ e.index = k.index

LeadersKnown ==
    /\ \A l \in leaders_per_term : \E m \in inspected : l = Claim(m)
    /\ \A m \in inspected : \E l \in leaders_per_term : l.term = m.term
    /\ \A l, k \in leaders_per_term : l.term = k.term => l = k

EntriesKnown ==
    /\ \A e \in entries_seen : \E m \in inspected : \E i \in DOMAIN m.entries : e = m.entries[i]
    /\ \A m \in inspected : \A i \in DOMAIN m.entries :
          \E e \in entries_seen : SameKey(e, m.entries[i])
    /\ \A e, k \in entries_seen : SameKey(e, k) => e = k

Usurped == \E m \in inspected : Claim(m) \notin leaders_per_term

Rewritten == \E m \in inspected : \E i \in DOMAIN m.entries : m.entries[i] \notin entries_seen

Malformed == \E m \in inspected : ~WellShaped(m)

ObserverInv ==
    /\ inspected \subseteq Appends
    /\ LeadersKnown /\ EntriesKnown
    /\ violations \subseteq {"election safety", "malformed", "log matching"}
    /\ "election safety" \in violations <=> Usurped
    /\ "malformed" \in violations <=> Malformed
    /\ "log matching" \in violations <=> Rewritten

LEMMA NatMin ==
    ASSUME NEW T \in SUBSET Nat, T # {}
    PROVE  \E x \in T : \A y \in T : x <= y
<1>1. PICK x \in T : \A y \in T : ~(<<y, x>> \in OpToRel(<, Nat))
  BY NatLessThanWellFounded, WFMin, Zenon
<1>2. ASSUME NEW y \in T PROVE x <= y
  <2>1. ~(<<y, x>> \in OpToRel(<, Nat))
    BY <1>1, Zenon
  <2>2. ~(y < x)
    BY <2>1 DEF OpToRel
  <2> QED BY <2>2
<1> QED BY <1>2, Zenon

LEMMA AppendShape ==
    ASSUME NEW m \in Appends
    PROVE  /\ m.term \in Nat /\ m.prev_log_index \in Nat /\ m.prev_log_term \in Nat
           /\ DOMAIN m.entries = 1 .. Len(m.entries) /\ Len(m.entries) \in Nat
           /\ \A i \in DOMAIN m.entries : m.entries[i].term \in Nat /\ m.entries[i].index \in Nat
BY MessageShape, Zenon DEF Appends

\* A message adds its claim only if its term had none.
LEMMA LeaderInspected ==
    ASSUME ObserverInv, NEW m \in Appends, Inspect(m)
    PROVE  /\ LeadersKnown'
           /\ Usurped' <=> \/ Usurped
                           \/ LET rivals == {l \in leaders_per_term : l.term = m.term}
                              IN  rivals # {} /\ [term |-> m.term, leader |-> m.leader_id] \notin rivals
<1> DEFINE rivals == {l \in leaders_per_term : l.term = m.term}
<1>1. PICK claim : claim = Claim(m)
  BY Zenon
<1>2. claim.term = m.term /\ claim = [term |-> m.term, leader |-> m.leader_id]
  BY <1>1, Zenon DEF Claim
<1>3. /\ leaders_per_term' = IF rivals = {} THEN leaders_per_term \cup {claim} ELSE leaders_per_term
      /\ inspected' = inspected \cup {m}
  BY <1>2, Zenon DEF Inspect, Appends
<1>5. CASE rivals = {}
  <2>1. leaders_per_term' = leaders_per_term \cup {claim}
    BY <1>3, <1>5, Zenon
  <2>2. \A l \in leaders_per_term : l.term # claim.term
    BY <1>2, <1>5, Zenon
  <2>3. LeadersKnown'
    BY <1>1, <1>2, <1>3, <2>1, <2>2, Zenon DEF ObserverInv, LeadersKnown, Claim
  <2>4. \A k \in inspected : Claim(k) # claim
    <3>1. SUFFICES ASSUME NEW k \in inspected, Claim(k) = claim PROVE FALSE
      BY Zenon
    <3>2. k.term = claim.term
      BY <3>1, Zenon DEF Claim
    <3> QED BY <2>2, <3>2, Zenon DEF ObserverInv, LeadersKnown
  <2>5. Usurped' <=> Usurped
    BY <1>1, <1>3, <2>1, <2>4, Zenon DEF Usurped, Claim
  <2> QED BY <1>5, <2>3, <2>5, Zenon
<1>6. CASE rivals # {}
  <2>1. leaders_per_term' = leaders_per_term
    BY <1>3, <1>6, Zenon
  <2>2. LeadersKnown'
    BY <1>3, <1>6, <2>1, Zenon DEF ObserverInv, LeadersKnown, Claim
  <2>3. claim \in rivals <=> claim \in leaders_per_term
    BY <1>2, Zenon
  <2>4. Usurped' <=> Usurped \/ claim \notin leaders_per_term
    BY <1>1, <1>3, <2>1, Zenon DEF Usurped, Claim
  <2> QED BY <1>2, <1>6, <2>2, <2>3, <2>4, Zenon
<1> QED BY <1>5, <1>6, Zenon

\* A message adds the entries whose key is new, the first of each key.
LEMMA EntriesInspected ==
    ASSUME ObserverInv, NEW m \in Appends, Inspect(m)
    PROVE  /\ EntriesKnown'
           /\ Rewritten' <=> \/ Rewritten
                             \/ \E i \in DOMAIN m.entries : m.entries[i] \notin entries_seen'
<1>1. entries_seen' = entries_seen \cup FirstSeen(m) /\ inspected' = inspected \cup {m}
  BY Zenon DEF Inspect, Appends
<1>2. DOMAIN m.entries = 1 .. Len(m.entries) /\ Len(m.entries) \in Nat
  BY AppendShape, Zenon
<1>3. ASSUME NEW e \in FirstSeen(m)
      PROVE  \E i \in DOMAIN m.entries :
                /\ e = m.entries[i]
                /\ \A k \in entries_seen : ~SameKey(e, k)
                /\ \A k \in 1 .. i - 1 : ~SameKey(e, m.entries[k])
  <2>1. PICK i \in DOMAIN m.entries :
           /\ e = m.entries[i]
           /\ Keyed(m.entries[i], entries_seen) = {}
           /\ \A k \in 1 .. i - 1 : Keyed(m.entries[i], {m.entries[k]}) = {}
    BY Zenon DEF FirstSeen
  <2>2. \A k \in entries_seen : ~SameKey(e, k)
    BY <2>1, Zenon DEF Keyed, SameKey
  <2>3. \A k \in 1 .. i - 1 : ~SameKey(e, m.entries[k])
    BY <2>1, Zenon DEF Keyed, SameKey
  <2> QED BY <2>1, <2>2, <2>3, Zenon
<1>4. ASSUME NEW i \in DOMAIN m.entries, \A k \in entries_seen : ~SameKey(k, m.entries[i])
      PROVE  \E e \in FirstSeen(m) : SameKey(e, m.entries[i])
  <2> DEFINE T == {k \in DOMAIN m.entries : SameKey(m.entries[k], m.entries[i])}
  <2>1. T \subseteq Nat /\ i \in T
    BY <1>2 DEF SameKey
  <2>2. PICK j \in T : \A k \in T : j <= k
    BY <2>1, NatMin, Zenon
  <2>3. j \in DOMAIN m.entries /\ SameKey(m.entries[j], m.entries[i])
    BY <2>2, Zenon
  <2>4. Keyed(m.entries[j], entries_seen) = {}
    BY <1>4, <2>3, Zenon DEF Keyed, SameKey
  <2>5. ASSUME NEW k \in 1 .. j - 1 PROVE Keyed(m.entries[j], {m.entries[k]}) = {}
    <3>1. k \in DOMAIN m.entries /\ ~(j <= k)
      BY <1>2, <2>3
    <3>2. ~SameKey(m.entries[k], m.entries[i])
      BY <2>2, <3>1, Zenon
    <3> QED BY <2>3, <3>2, Zenon DEF Keyed, SameKey
  <2>6. m.entries[j] \in FirstSeen(m)
    BY <2>3, <2>4, <2>5, Zenon DEF FirstSeen
  <2> QED BY <2>3, <2>6, Zenon
<1>5. ASSUME NEW e \in entries_seen'
      PROVE  \E k \in inspected' : \E i \in DOMAIN k.entries : e = k.entries[i]
  <2>1. CASE e \in entries_seen
    <3>1. \E k \in inspected : \E i \in DOMAIN k.entries : e = k.entries[i]
      BY <2>1, Zenon DEF ObserverInv, EntriesKnown
    <3> QED BY <1>1, <3>1, Zenon
  <2>2. CASE e \in FirstSeen(m)
    <3>1. \E i \in DOMAIN m.entries : e = m.entries[i]
      BY <1>3, <2>2, Zenon
    <3> QED BY <1>1, <3>1, Zenon
  <2> QED BY <1>1, <2>1, <2>2, Zenon
<1>6. ASSUME NEW k \in inspected', NEW i \in DOMAIN k.entries
      PROVE  \E e \in entries_seen' : SameKey(e, k.entries[i])
  BY <1>1, <1>4, Zenon DEF ObserverInv, EntriesKnown
<1>7. ASSUME NEW e \in FirstSeen(m), NEW k \in FirstSeen(m), SameKey(e, k) PROVE e = k
  <2>1. PICK i \in DOMAIN m.entries : e = m.entries[i] /\ \A n \in 1 .. i - 1 : ~SameKey(e, m.entries[n])
    BY <1>3, Zenon
  <2>2. PICK j \in DOMAIN m.entries : k = m.entries[j] /\ \A n \in 1 .. j - 1 : ~SameKey(k, m.entries[n])
    BY <1>3, Zenon
  <2>3. i \in Nat /\ j \in Nat /\ i >= 1 /\ j >= 1
    BY <1>2
  <2>4. ~(j \in 1 .. i - 1) /\ ~(i \in 1 .. j - 1)
    BY <1>7, <2>1, <2>2, Zenon DEF SameKey
  <2>5. i = j
    BY <2>3, <2>4
  <2> QED BY <2>1, <2>2, <2>5, Zenon
<1>8. ASSUME NEW e \in entries_seen', NEW k \in entries_seen', SameKey(e, k) PROVE e = k
  <2>1. e \in entries_seen /\ k \in entries_seen => e = k
    BY <1>8, Zenon DEF ObserverInv, EntriesKnown
  <2>2. ~(e \in FirstSeen(m) /\ k \in entries_seen) /\ ~(k \in FirstSeen(m) /\ e \in entries_seen)
    BY <1>3, <1>8, Zenon DEF SameKey
  <2> QED BY <1>1, <1>7, <1>8, <2>1, <2>2, Zenon
<1>9. EntriesKnown'
  BY <1>5, <1>6, <1>8, Zenon DEF EntriesKnown, SameKey
<1>10. ASSUME NEW k \in inspected, NEW i \in DOMAIN k.entries
       PROVE  k.entries[i] \in entries_seen' <=> k.entries[i] \in entries_seen
  <2>1. PICK e \in entries_seen : SameKey(e, k.entries[i])
    BY Zenon DEF ObserverInv, EntriesKnown
  <2>2. k.entries[i] \notin FirstSeen(m)
    BY <1>3, <2>1, Zenon DEF SameKey
  <2> QED BY <1>1, <2>2, Zenon
<1>11. Rewritten' <=> \/ Rewritten
                      \/ \E i \in DOMAIN m.entries : m.entries[i] \notin entries_seen'
  BY <1>1, <1>10, Zenon DEF Rewritten
<1> QED BY <1>9, <1>11, Zenon

LEMMA ObserverUnchanged ==
    ASSUME ObserverInv, UNCHANGED <<leaders_per_term, entries_seen, violations, inspected>>
    PROVE  ObserverInv'
<1>1. LeadersKnown'
  BY Zenon DEF ObserverInv, LeadersKnown, Claim
<1>2. EntriesKnown'
  BY Zenon DEF ObserverInv, EntriesKnown, SameKey
<1>3. (Usurped' <=> Usurped) /\ (Rewritten' <=> Rewritten) /\ (Malformed' <=> Malformed)
  BY Zenon DEF Usurped, Rewritten, Malformed, Claim, WellShaped
<1>4. inspected' \subseteq Appends'
  BY Zenon DEF ObserverInv, Appends
<1> QED BY <1>1, <1>2, <1>3, <1>4, Zenon DEF ObserverInv

LEMMA Inspected ==
    ASSUME ObserverInv, NEW m \in Message, Inspect(m)
    PROVE  ObserverInv'
<1>1. CASE m.kind # "AppendEntries"
  <2>1. UNCHANGED <<leaders_per_term, entries_seen, violations, inspected>>
    BY <1>1, Zenon DEF Inspect, observer
  <2> QED BY <2>1, ObserverUnchanged, Zenon
<1>2. CASE m.kind = "AppendEntries"
  <2>1. m \in Appends
    BY <1>2, Zenon DEF Appends
  <2>2. PICK usurps : usurps = LET rivals == {l \in leaders_per_term : l.term = m.term}
                     IN  rivals # {} /\ [term |-> m.term, leader |-> m.leader_id] \notin rivals
    BY Zenon
  <2>3. PICK rewrites : rewrites = \E i \in DOMAIN m.entries : m.entries[i] \notin entries_seen'
    BY Zenon
  <2>4. inspected' = inspected \cup {m}
    BY <1>2, Zenon DEF Inspect
  <2>5. \A i \in DOMAIN m.entries : m.entries[i] \notin Keyed(m.entries[i], entries_seen')
                                    <=> m.entries[i] \notin entries_seen'
    BY Zenon DEF Keyed
  <2>6. violations' = violations \cup (IF usurps THEN {"election safety"} ELSE {})
                                 \cup (IF ~WellShaped(m) THEN {"malformed"} ELSE {})
                                 \cup (IF rewrites THEN {"log matching"} ELSE {})
    <3>1. entries_seen' = entries_seen \cup FirstSeen(m)
      BY <1>2, Zenon DEF Inspect
    <3>2. rewrites = \E i \in DOMAIN m.entries : m.entries[i] \notin Keyed(m.entries[i], entries_seen')
      BY <2>3, <2>5, Zenon
    <3>3. rewrites = \E i \in DOMAIN m.entries :
                        m.entries[i] \notin Keyed(m.entries[i], entries_seen \cup FirstSeen(m))
      BY <3>1, <3>2, Zenon
    <3> QED BY <1>2, <2>2, <3>3, Zenon DEF Inspect
  <2>7. LeadersKnown' /\ (Usurped' <=> Usurped \/ usurps)
    BY <2>1, <2>2, LeaderInspected, Zenon
  <2>8. EntriesKnown' /\ (Rewritten' <=> Rewritten \/ rewrites)
    BY <2>1, <2>3, EntriesInspected, Zenon
  <2>9. Malformed' <=> Malformed \/ ~WellShaped(m)
    BY <2>4, Zenon DEF Malformed, WellShaped
  <2>10. /\ violations' \subseteq {"election safety", "malformed", "log matching"}
         /\ "election safety" \in violations' <=> Usurped'
         /\ "malformed" \in violations' <=> Malformed'
         /\ "log matching" \in violations' <=> Rewritten'
    <3> HIDE DEF Usurped, Malformed, Rewritten
    <3>1. /\ violations \subseteq {"election safety", "malformed", "log matching"}
          /\ "election safety" \in violations <=> Usurped
          /\ "malformed" \in violations <=> Malformed
          /\ "log matching" \in violations <=> Rewritten
      BY Zenon DEF ObserverInv
    <3>2. PICK shaped : shaped = WellShaped(m)
      BY Zenon
    <3>3. /\ "election safety" # "malformed" /\ "election safety" # "log matching"
          /\ "malformed" # "log matching"
      OBVIOUS
    <3>4. \A x : x \in violations' <=>
             \/ x \in violations
             \/ usurps /\ x = "election safety"
             \/ ~shaped /\ x = "malformed"
             \/ rewrites /\ x = "log matching"
      BY ONLY <2>6, <3>2, Zenon
    <3> QED BY <2>7, <2>8, <2>9, <3>1, <3>2, <3>3, <3>4, Zenon
  <2>11. inspected' \subseteq Appends
    BY <2>1, <2>4, Zenon DEF ObserverInv
  <2> QED BY <2>7, <2>8, <2>10, <2>11, Zenon DEF ObserverInv, Appends
<1> QED BY <1>1, <1>2, Zenon

LEMMA ObserverInvHolds == SimSpec => []ObserverInv
<1>1. SimInit => ObserverInv
  BY Zenon DEF SimInit, ObserverInv, LeadersKnown, EntriesKnown, Usurped, Rewritten, Malformed
<1>2. ObserverInv /\ [SimNext]_simVars => ObserverInv'
  <2> SUFFICES ASSUME ObserverInv, [SimNext]_simVars PROVE ObserverInv'
    OBVIOUS
  <2>1. ASSUME NEW s \in SendNo, NEW from \in Sender, NEW to \in Node, NEW m \in Message,
               Send(s, from, to, m)
        PROVE  ObserverInv'
    BY <2>1, Inspected, Zenon DEF Send
  <2>2. CASE UNCHANGED observer
    BY <2>2, ObserverUnchanged, Zenon DEF observer
  <2> QED BY <2>1, <2>2, Zenon DEF SimNext, Control, Exchange, Register, NodeCrash, SetLinkBlocked,
      RequestArrives, CopyArrives, NodeAnswers, ReplyArrives, SendTimeout, simVars, observer
<1> QED BY <1>1, <1>2, PTL DEF SimSpec

\* Terms in order from one entry to the next are in order throughout.
LEMMA ShapeExact ==
    ASSUME NEW m \in Appends
    PROVE  ~WellShaped(m) <=>
              \E i \in DOMAIN m.entries :
                 \/ m.entries[i].index - i # m.prev_log_index
                 \/ m.entries[i].term \notin m.prev_log_term .. m.term
                 \/ \E j \in 1 .. i : m.entries[j].term > m.entries[i].term
<1>0. \A q \in Nat : \A a, b : a \in 1 .. q /\ a # 1 /\ b = a - 1 =>
                 b \in 1 .. q /\ b \in 1 .. a /\ ~(a <= b) /\ a - 1 = b
  OBVIOUS
<1>1. /\ m.term \in Nat /\ m.prev_log_index \in Nat /\ m.prev_log_term \in Nat
      /\ DOMAIN m.entries = 1 .. Len(m.entries) /\ Len(m.entries) \in Nat
      /\ \A i \in DOMAIN m.entries : m.entries[i].term \in Nat /\ m.entries[i].index \in Nat
  BY AppendShape, Zenon
<1>2. ASSUME WellShaped(m), NEW i \in DOMAIN m.entries
      PROVE  /\ m.entries[i].index - i = m.prev_log_index
             /\ m.entries[i].term \in m.prev_log_term .. m.term
             /\ \A j \in 1 .. i : ~(m.entries[j].term > m.entries[i].term)
  <2>1. \A k \in 1 .. Len(m.entries) :
           /\ m.entries[k].index = m.prev_log_index + k
           /\ m.entries[k].term >= IF k = 1 THEN m.prev_log_term ELSE m.entries[k - 1].term
           /\ m.entries[k].term <= m.term
    BY <1>1, <1>2, Zenon DEF WellShaped
  <2>2. m.entries[i].index - i = m.prev_log_index
    <3>1. i \in 1 .. Len(m.entries) /\ m.entries[i].index \in Nat
      BY <1>1, Zenon
    <3>2. m.prev_log_index \in Nat /\ m.entries[i].index = m.prev_log_index + i
      BY <1>1, <2>1, <3>1, Zenon
    <3> QED BY <3>1, <3>2
  <2>3. m.entries[i].term >= m.prev_log_term
    <3>1. SUFFICES ASSUME ~(m.entries[i].term >= m.prev_log_term) PROVE FALSE
      BY Zenon
    <3> DEFINE T == {k \in DOMAIN m.entries : ~(m.entries[k].term >= m.prev_log_term)}
    <3>2. T \subseteq Nat /\ i \in T
      BY <1>1, <3>1
    <3>3. PICK k \in T : \A n \in T : k <= n
      BY <3>2, NatMin, Zenon
    <3>4. k \in 1 .. Len(m.entries) /\ ~(m.entries[k].term >= m.prev_log_term)
      BY <1>1, <3>3, Zenon
    <3>5. k # 1
      BY <2>1, <3>4
    <3>6. PICK n : n = k - 1
      BY Zenon
    <3>7. n \in DOMAIN m.entries /\ ~(k <= n) /\ k - 1 = n
      BY <1>0, <1>1, <3>4, <3>5, <3>6, Zenon
    <3>8. m.entries[n].term >= m.prev_log_term
      BY <3>3, <3>7, Zenon
    <3>9. m.entries[k].term >= m.entries[n].term
      BY <2>1, <3>4, <3>5, <3>7
    <3>10. m.entries[k].term \in Nat /\ m.entries[n].term \in Nat
      BY <1>1, <3>4, <3>7, Zenon
    <3>11. \A a, b, c \in Nat : b >= c /\ a >= b => a >= c
      OBVIOUS
    <3> QED BY <1>1, <3>4, <3>8, <3>9, <3>10, <3>11, Zenon
  <2>4. ASSUME NEW j \in 1 .. i PROVE ~(m.entries[j].term > m.entries[i].term)
    <3>1. SUFFICES ASSUME m.entries[j].term > m.entries[i].term PROVE FALSE
      BY Zenon
    <3> DEFINE T == {k \in DOMAIN m.entries : j <= k /\ m.entries[j].term > m.entries[k].term}
    <3>2. T \subseteq Nat /\ i \in T /\ j \in 1 .. Len(m.entries)
      BY <1>1, <3>1
    <3>3. PICK k \in T : \A n \in T : k <= n
      BY <3>2, NatMin, Zenon
    <3>4. k \in 1 .. Len(m.entries) /\ j <= k /\ m.entries[j].term > m.entries[k].term
      BY <1>1, <3>3, Zenon
    <3>5. k # j
      <4>1. \A a \in Nat : ~(a > a)
        OBVIOUS
      <4> QED BY <1>1, <3>2, <3>4, <4>1, Zenon
    <3>6. PICK n : n = k - 1
      BY Zenon
    <3>7. n \in 1 .. Len(m.entries) /\ ~(k <= n) /\ k - 1 = n /\ j <= n /\ k # 1
      <4>1. Len(m.entries) \in Nat /\ j \in 1 .. Len(m.entries) /\ k \in 1 .. Len(m.entries) /\ j <= k
        BY <1>1, <3>2, <3>4, Zenon
      <4> QED BY ONLY <3>5, <3>6, <4>1
    <3>8. ~(m.entries[j].term > m.entries[n].term)
      BY <1>1, <3>3, <3>7, Zenon
    <3>9. m.entries[k].term >= m.entries[n].term
      <4>1. m.entries[k].term >= IF k = 1 THEN m.prev_log_term ELSE m.entries[k - 1].term
        BY <1>1, <2>1, <3>4, Zenon
      <4> QED BY <3>7, <4>1, Zenon
    <3>10. /\ m.entries[j].term \in Nat /\ m.entries[k].term \in Nat
           /\ m.entries[n].term \in Nat
      BY <1>1, <3>2, <3>4, <3>7, Zenon
    <3>11. \A a, b, c \in Nat : ~(a > c) /\ b >= c => ~(a > b)
      OBVIOUS
    <3> QED BY <3>4, <3>8, <3>9, <3>10, <3>11, Zenon
  <2>5. m.entries[i].term \in m.prev_log_term .. m.term
    BY <1>1, <2>1, <2>3
  <2> QED BY <2>2, <2>4, <2>5, Zenon
<1>3. ASSUME ~WellShaped(m)
      PROVE  \E i \in DOMAIN m.entries :
                 \/ m.entries[i].index - i # m.prev_log_index
                 \/ m.entries[i].term \notin m.prev_log_term .. m.term
                 \/ \E j \in 1 .. i : m.entries[j].term > m.entries[i].term
  <2>1. PICK i \in DOMAIN m.entries :
           ~ /\ m.entries[i].index = m.prev_log_index + i
             /\ m.entries[i].term >= IF i = 1 THEN m.prev_log_term ELSE m.entries[i - 1].term
             /\ m.entries[i].term <= m.term
    BY <1>3, Zenon DEF WellShaped
  <2>2. i \in 1 .. Len(m.entries) /\ m.entries[i].term \in Nat /\ m.entries[i].index \in Nat
    BY <1>1, Zenon
  <2>3. CASE m.entries[i].index # m.prev_log_index + i
    <3>1. m.prev_log_index \in Nat
      BY <1>1, Zenon
    <3>2. m.entries[i].index - i # m.prev_log_index
      BY <2>2, <2>3, <3>1
    <3> QED BY <3>2, Zenon
  <2>4. CASE ~(m.entries[i].term <= m.term)
    <3>1. m.entries[i].term \notin m.prev_log_term .. m.term
      BY <1>1, <2>2, <2>4
    <3> QED BY <3>1, Zenon
  <2>5. CASE i = 1 /\ ~(m.entries[i].term >= m.prev_log_term)
    <3>1. m.entries[i].term \notin m.prev_log_term .. m.term
      BY <1>1, <2>2, <2>5
    <3> QED BY <3>1, Zenon
  <2>6. CASE i # 1 /\ ~(m.entries[i].term >= m.entries[i - 1].term)
    <3>1. PICK j : j = i - 1
      BY Zenon
    <3>2. j \in 1 .. i /\ j \in DOMAIN m.entries
      BY <1>0, <1>1, <2>2, <2>6, <3>1, Zenon
    <3>3. m.entries[j].term \in Nat /\ ~(m.entries[i].term >= m.entries[j].term)
      BY <1>1, <2>6, <3>1, <3>2, Zenon
    <3>4. m.entries[j].term > m.entries[i].term
      BY <2>2, <3>3
    <3> QED BY <3>2, <3>4, Zenon
  <2> QED BY <2>1, <2>3, <2>4, <2>5, <2>6, Zenon
<1> QED BY <1>2, <1>3, Zenon

\* Property ObserverExact: the observer of the test suite reports a violation if
\* and only if there is one among the messages sent, delivered or not
\* (inspect_append_entries, check_shape), whatever is sent and in any order.
THEOREM ObserverExactHolds == SimSpec => []ObserverExact
<1>1. ObserverInv => ObserverExact
  <2> SUFFICES ASSUME ObserverInv PROVE ObserverExact
    OBVIOUS
  <2> USE DEF ObserverInv
  <2>1. violations # {} <=> Usurped \/ Rewritten \/ Malformed
    BY Zenon
  <2>2. Usurped <=> \E m, k \in inspected : m.term = k.term /\ m.leader_id # k.leader_id
    <3>1. ASSUME NEW m \in inspected, Claim(m) \notin leaders_per_term
          PROVE  \E k \in inspected : m.term = k.term /\ m.leader_id # k.leader_id
      <4>1. PICK l \in leaders_per_term : l.term = m.term
        BY Zenon DEF LeadersKnown
      <4>2. PICK k \in inspected : l = Claim(k)
        BY Zenon DEF LeadersKnown
      <4>3. k.term = m.term
        BY <4>1, <4>2, Zenon DEF Claim
      <4>4. k.leader_id # m.leader_id
        BY <3>1, <4>2, <4>3, Zenon DEF Claim
      <4> QED BY <4>3, <4>4, Zenon
    <3>2. ASSUME NEW m \in inspected, NEW k \in inspected, Claim(m) \in leaders_per_term,
                 Claim(k) \in leaders_per_term, m.term = k.term
          PROVE  m.leader_id = k.leader_id
      <4>1. Claim(m) = Claim(k)
        BY <3>2, Zenon DEF LeadersKnown, Claim
      <4>2. Claim(m).leader = m.leader_id /\ Claim(k).leader = k.leader_id
        BY Zenon DEF Claim
      <4> QED BY <4>1, <4>2, Zenon
    <3>3. Usurped => \E m, k \in inspected : m.term = k.term /\ m.leader_id # k.leader_id
      BY <3>1, Zenon DEF Usurped
    <3>4. ASSUME NEW m \in inspected, NEW k \in inspected, m.term = k.term, m.leader_id # k.leader_id
          PROVE  Usurped
      BY <3>2, <3>4, Zenon DEF Usurped
    <3> QED BY <3>3, <3>4, Zenon
  <2>3. Rewritten <=>
           \E m, k \in inspected : \E i \in DOMAIN m.entries, j \in DOMAIN k.entries :
              /\ m.entries[i].term = k.entries[j].term
              /\ m.entries[i].index = k.entries[j].index
              /\ m.entries[i] # k.entries[j]
    <3>1. ASSUME NEW m \in inspected, NEW i \in DOMAIN m.entries, m.entries[i] \notin entries_seen
          PROVE  \E k \in inspected : \E j \in DOMAIN k.entries :
                    /\ m.entries[i].term = k.entries[j].term
                    /\ m.entries[i].index = k.entries[j].index
                    /\ m.entries[i] # k.entries[j]
      <4>1. PICK e \in entries_seen : SameKey(e, m.entries[i])
        BY Zenon DEF EntriesKnown
      <4>2. PICK k \in inspected : \E j \in DOMAIN k.entries : e = k.entries[j]
        BY Zenon DEF EntriesKnown
      <4> QED BY <3>1, <4>1, <4>2, Zenon DEF SameKey
    <3>2. ASSUME NEW m \in inspected, NEW i \in DOMAIN m.entries, m.entries[i] \in entries_seen,
                 NEW k \in inspected, NEW j \in DOMAIN k.entries, k.entries[j] \in entries_seen,
                 m.entries[i].term = k.entries[j].term, m.entries[i].index = k.entries[j].index
          PROVE  m.entries[i] = k.entries[j]
      BY <3>2, Zenon DEF EntriesKnown, SameKey
    <3>3. ASSUME Rewritten
          PROVE  \E m, k \in inspected : \E i \in DOMAIN m.entries, j \in DOMAIN k.entries :
                    /\ m.entries[i].term = k.entries[j].term
                    /\ m.entries[i].index = k.entries[j].index
                    /\ m.entries[i] # k.entries[j]
      <4>1. PICK m \in inspected : \E i \in DOMAIN m.entries : m.entries[i] \notin entries_seen
        BY <3>3, Zenon DEF Rewritten
      <4>2. PICK i \in DOMAIN m.entries : m.entries[i] \notin entries_seen
        BY <4>1, Zenon
      <4>3. PICK k \in inspected : \E j \in DOMAIN k.entries :
                    /\ m.entries[i].term = k.entries[j].term
                    /\ m.entries[i].index = k.entries[j].index
                    /\ m.entries[i] # k.entries[j]
        BY <3>1, <4>2, Zenon
      <4> QED BY <4>3, Zenon
    <3>4. ASSUME NEW m \in inspected, NEW i \in DOMAIN m.entries,
                 NEW k \in inspected, NEW j \in DOMAIN k.entries,
                 m.entries[i].term = k.entries[j].term, m.entries[i].index = k.entries[j].index,
                 m.entries[i] # k.entries[j]
          PROVE  Rewritten
      <4>1. m.entries[i] \notin entries_seen \/ k.entries[j] \notin entries_seen
        BY <3>2, <3>4, Zenon
      <4> QED BY <4>1, Zenon DEF Rewritten
    <3> QED BY <3>3, <3>4, Zenon
  <2>4. Malformed <=>
           \E m \in inspected : \E i \in DOMAIN m.entries :
              \/ m.entries[i].index - i # m.prev_log_index
              \/ m.entries[i].term \notin m.prev_log_term .. m.term
              \/ \E j \in 1 .. i : m.entries[j].term > m.entries[i].term
    <3>1. \A m \in inspected : m \in Appends
      BY Zenon
    <3> QED BY <3>1, ShapeExact, Zenon DEF Malformed
  <2> QED BY <2>1, <2>2, <2>3, <2>4, Zenon DEF ObserverExact
<1> QED BY <1>1, ObserverInvHolds, PTL
=============================================================================

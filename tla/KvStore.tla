------------------------------ MODULE KvStore ------------------------------
(***************************************************************************)
(* The replicated state machine (src/store.rs): a map and the table of     *)
(* client sessions that makes retried writes apply once.  The committed    *)
(* log is any sequence of the operations that clients have issued, retries *)
(* included; replicas apply it in order or jump ahead by a snapshot.       *)
(***************************************************************************)
EXTENDS Integers, Sequences, FiniteSets

CONSTANTS
    Client,         \* clients that send session tokens
    Replica,
    Window,         \* SESSION_WINDOW
    MaxSeq,         \* bound: operations per client
    MaxLog,         \* bound: committed entries
    Nil

ASSUME WindowAssumption == Window \in Nat \ {0}
ASSUME KvBounds == MaxSeq \in Nat /\ MaxLog \in Nat
ASSUME NilIsNoClient == Nil \notin Client

VARIABLES
    issued,         \* issued[c]: the highest sequence number client c has used
    acked,          \* operations whose client got its answer
    log,            \* the committed operations, in order
    replica         \* replica[r]: [applied, map, sessions, hits]

vars == <<issued, acked, log, replica>>

Op == [client : Client, seq : 1 .. MaxSeq]

\* A token-less write: never a duplicate.
Plain == [client |-> Nil, seq |-> 0]
-----------------------------------------------------------------------------
(***************************************************************************)
(* SessionState: the highest sequence number and the offsets below it,     *)
(* within the window, that have been applied (the bits of recent).         *)
(***************************************************************************)
\* The client has no entry in the table: no sequence number is contained.
NoSession == [max |-> -1, recent |-> {}]

NewSession(seq) == [max |-> seq, recent |-> {0}]

\* Mutant: off by one at the lower end of the window.
Contains_WindowOffByOne(st, seq) ==
    seq <= st.max /\ (st.max - seq > Window \/ st.max - seq \in st.recent)

\* Mutant: off by one the other way.
Contains_WindowShort(st, seq) ==
    seq <= st.max /\ (st.max - seq >= Window - 1 \/ st.max - seq \in st.recent)

\* Below the window everything counts as applied.
Contains(st, seq) ==
    seq <= st.max /\ (st.max - seq >= Window \/ st.max - seq \in st.recent)

\* Mutant: the window is not shifted when the maximum moves.
Record_NoShift(st, seq) ==
    IF seq > st.max THEN [max |-> seq, recent |-> st.recent \cup {0}]
    ELSE [st EXCEPT !.recent = @ \cup {st.max - seq}]

\* checked_shl: bits shifted out of the window are gone.
Record(st, seq) ==
    IF seq > st.max
    THEN [max    |-> seq,
          recent |-> {0} \cup {o \in 0 .. Window - 1 : o - (seq - st.max) \in st.recent}]
    ELSE IF st.max - seq < Window THEN [st EXCEPT !.recent = @ \cup {st.max - seq}]
    ELSE st
-----------------------------------------------------------------------------
AlreadyApplied(rep, op) ==
    /\ op.client # Nil
    /\ Contains(rep.sessions[op.client], op.seq)

RecordApplied(rep, op) ==
    IF op.client = Nil THEN rep
    ELSE [rep EXCEPT !.sessions[op.client] =
             IF @ = NoSession THEN NewSession(op.seq) ELSE Record(@, op.seq)]

\* put or delete: the map is now what op made of it; hits counts the mutations.
Mutate(rep, op) ==
    [rep EXCEPT !.map = op,
                !.hits = IF op.client = Nil THEN @
                         ELSE [rep.hits EXCEPT ![op] = rep.hits[op] + 1]]

ApplyEntry(rep, op) ==
    IF AlreadyApplied(rep, op) THEN rep ELSE RecordApplied(Mutate(rep, op), op)

EmptyReplica ==
    [applied |-> 0, map |-> Nil, sessions |-> [c \in Client |-> NoSession],
     hits |-> [op \in Op |-> 0]]

Init ==
    /\ issued = [c \in Client |-> 0]
    /\ acked = {}
    /\ log = << >>
    /\ replica = [r \in Replica |-> EmptyReplica]

Outstanding(c) == {s \in 1 .. issued[c] : [client |-> c, seq |-> s] \notin acked}

\* A client that keeps its outstanding operations within one window.  (At most
\* Window outstanding operations, as the documentation asks, would not do: one
\* old operation and many completed newer ones are within that limit.)
IssueWithinWindow(c) ==
    /\ issued[c] < MaxSeq
    /\ \A s \in Outstanding(c) : issued[c] + 1 - s < Window
    /\ issued' = [issued EXCEPT ![c] = @ + 1]
    /\ UNCHANGED <<acked, log, replica>>

\* An issued operation, a retry of one or a token-less write is committed.
Commit ==
    /\ Len(log) < MaxLog
    /\ \E op \in Op \cup {Plain} :
          /\ op.client # Nil => op.seq <= issued[op.client]
          /\ log' = Append(log, op)
    /\ UNCHANGED <<issued, acked, replica>>

Apply(r) ==
    LET rep == replica[r] IN
    /\ rep.applied < Len(log)
    /\ replica' = [replica EXCEPT ![r] =
          [ApplyEntry(rep, log[rep.applied + 1]) EXCEPT !.applied = @ + 1]]
    /\ UNCHANGED <<issued, acked, log>>

\* The client learns that its write committed.
Ack ==
    /\ \E k \in 1 .. Len(log) :
          /\ log[k].client # Nil
          /\ acked' = acked \cup {log[k]}
    /\ UNCHANGED <<issued, log, replica>>

\* Mutant: the sessions are forgotten by the snapshot.
Import_MapOnly(rep, snap) == [snap EXCEPT !.sessions = rep.sessions]

\* export on one replica, import on another: map and sessions.
Import(rep, snap) == snap

Install(r, from) ==
    /\ replica[from].applied > replica[r].applied
    /\ replica' = [replica EXCEPT ![r] = Import(@, replica[from])]
    /\ UNCHANGED <<issued, acked, log>>

\* The state machine is memory: a process starts with an empty one (and imports
\* its snapshot, which is to be where replaying the log will bring it).
Restart(r) ==
    /\ replica' = [replica EXCEPT ![r] = EmptyReplica]
    /\ UNCHANGED <<issued, acked, log>>

Replicate ==
    \/ Commit
    \/ Ack
    \/ \E r \in Replica : Apply(r) \/ Restart(r) \/ \E q \in Replica : Install(r, q)

Next == (\E c \in Client : IssueWithinWindow(c)) \/ Replicate

Spec == Init /\ [][Next]_vars
-----------------------------------------------------------------------------
(* Properties.                                                             *)

\* A tokened write mutates the map at most once, however often it is retried and
\* in whatever order the retries commit (KvStore::apply).
AtMostOnce ==
    \A r \in Replica, op \in Op : replica[r].hits[op] <= 1

\* A tokened write that a replica has been through has mutated the map: nothing
\* is acknowledged that was silently skipped ("what must never happen" of the
\* module documentation).
NothingSkipped ==
    \A r \in Replica : \A k \in 1 .. replica[r].applied :
        log[k].client # Nil => replica[r].hits[log[k]] >= 1

\* Replicas that have applied the same prefix hold the same map and sessions,
\* by replay (apply) or by snapshot (export and import).
ReplicasAgree ==
    \A r, q \in Replica :
        replica[r].applied = replica[q].applied => replica[r] = replica[q]
=============================================================================

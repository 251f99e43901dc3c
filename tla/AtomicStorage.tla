--------------------------- MODULE AtomicStorage ---------------------------
(***************************************************************************)
(* What the consensus core assumes of its storage: a durable store that    *)
(* changes by whole operations only, so that a crash at any moment leaves  *)
(* the result of some of them.  Module RaftNode is written against this    *)
(* store (Restart, CrashInAppend, CrashInInstall); module Storage, the     *)
(* files, implements it.                                                   *)
(***************************************************************************)
EXTENDS RaftLog, FiniteSets

CONSTANTS Term, MaxIndex

VARIABLE store      \* [hard, snap, log]

Fresh == [hard |-> 0, snap |-> EmptySnapshot, log |-> << >>]

\* Snapshots that a leader may send.
ForeignSnapshots == {[EmptySnapshot EXCEPT !.index = i, !.term = t] :
                        i \in 1 .. MaxIndex, t \in Term}

Capture(i) == [index |-> i, members |-> Nil, state |-> << >>]

SaveHardState == \E t \in Term : store' = [store EXCEPT !.hard = t]

\* A batch, of which a crash may leave a prefix.
AppendBatch ==
    \E n \in 1 .. MaxIndex : \E batch \in [1 .. n -> [term : Term]] :
        store' = AppendEntries(store, batch)

Truncate ==
    \E i \in store.snap.index + 1 .. LastIndex(store) : store' = TruncateFrom(store, i)

Compact ==
    \E i \in store.snap.index + 1 .. LastIndex(store) : store' = CompactTo(store, Capture(i))

\* The snapshot alone; a suffix that does not continue it is then truncated.
Install ==
    \E snap \in ForeignSnapshots :
        /\ snap.index > store.snap.index
        /\ store' = ReopenAfterSnapshotOnly(store, snap)

Next == SaveHardState \/ AppendBatch \/ Truncate \/ Compact \/ Install

Spec == store = Fresh /\ [][Next]_store
=============================================================================

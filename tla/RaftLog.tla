------------------------------ MODULE RaftLog ------------------------------
(***************************************************************************)
(* The in-memory view of one node's durable log, as the consensus core     *)
(* uses it (struct Storage in src/raft/storage.rs).  Every operator takes  *)
(* a record s with at least the fields                                     *)
(*                                                                         *)
(*   s.snap  the snapshot: [index, term, members, state].  No snapshot is  *)
(*           the snapshot with index 0, as in the code, where the boundary *)
(*           0 generalises "never compacted";                              *)
(*   s.log   the retained entries, s.log[1] being the entry with index     *)
(*           s.snap.index + 1.                                             *)
(*                                                                         *)
(* Indexes are global and 1-based; Pos is the only place where they are    *)
(* turned into positions.  What reaches the disk, and in which order, is   *)
(* the subject of module Storage.                                          *)
(***************************************************************************)
EXTENDS Integers, Sequences

CONSTANT Nil        \* "None" of an Option that does not hold a number

\* term() of an index the storage cannot answer for (Option::None).
NoTerm == -1

\* No snapshot yet: boundary 0, no state, membership still the bootstrap one.
EmptySnapshot == [index |-> 0, term |-> 0, members |-> Nil, state |-> << >>]

\* Position of a global index in the retained log; < 1 at or below the boundary.
Pos(s, i) == i - s.snap.index

LastIndex(s) == s.snap.index + Len(s.log)

LastTerm(s) ==
    IF s.log = << >> THEN s.snap.term ELSE s.log[Len(s.log)].term

\* Is the entry with index i in the retained log?
HasEntry(s, i) == Pos(s, i) \in DOMAIN s.log

\* The snapshot's term at the boundary, NoTerm below it and past the end.
TermAt(s, i) ==
    IF i = s.snap.index THEN s.snap.term
    ELSE IF HasEntry(s, i) THEN s.log[Pos(s, i)].term
    ELSE NoTerm

\* Retained entries with index >= from; the whole retained log when from is
\* at or below the boundary.
EntriesFrom(s, from) ==
    IF Pos(s, from) < 1 THEN s.log ELSE SubSeq(s.log, Pos(s, from), Len(s.log))

AppendEntries(s, entries) == [s EXCEPT !.log = @ \o entries]

\* The caller never truncates at or below the boundary (the code's Corrupt error).
TruncateFrom(s, from) == [s EXCEPT !.log = SubSeq(@, 1, Pos(s, from) - 1)]

\* Mutant: off by one, the entry at the boundary is retained too.
CompactTo_KeepsBoundary(s, capture) ==
    [s EXCEPT !.snap = [index   |-> capture.index,
                        term    |-> TermAt(s, capture.index),
                        members |-> capture.members,
                        state   |-> capture.state],
              !.log = EntriesFrom(s, capture.index)]

\* A capture [index, members, state] replaces the prefix that it covers.
CompactTo(s, capture) ==
    [s EXCEPT !.snap = [index   |-> capture.index,
                        term    |-> TermAt(s, capture.index),
                        members |-> capture.members,
                        state   |-> capture.state],
              !.log = EntriesFrom(s, capture.index + 1)]

\* The suffix beyond the boundary survives only if the entry at the boundary
\* is the one the snapshot was taken at.
InstallSnapshot(s, snap) ==
    [s EXCEPT !.snap = snap,
              !.log  = IF TermAt(s, snap.index) = snap.term
                       THEN EntriesFrom(s, snap.index + 1)
                       ELSE << >>]

\* What a reopen finds if the process dies after the snapshot file was replaced
\* and before the log file was: replay skips the entries at or below the new
\* boundary and keeps every later one, whatever the entry at the boundary was.
ReopenAfterSnapshotOnly(s, snap) ==
    [s EXCEPT !.snap = snap, !.log = EntriesFrom(s, snap.index + 1)]

\* Mutant: the lengths of the logs are not compared.
UpToDate_TermOnly(s, lastTerm, lastIndex) == lastTerm >= LastTerm(s)

\* The relation of the election restriction (section 5.4.1 of the Raft paper):
\* last terms first, last indexes second.
UpToDate(s, lastTerm, lastIndex) ==
    \/ lastTerm > LastTerm(s)
    \/ lastTerm = LastTerm(s) /\ lastIndex >= LastIndex(s)
=============================================================================

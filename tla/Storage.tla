------------------------------ MODULE Storage ------------------------------
(***************************************************************************)
(* One node's data directory (src/raft/storage.rs): hard_state.json,       *)
(* snapshot.json and log.jsonl, the in-memory mirror, and the process      *)
(* dying between any two writes.  write_atomic (temporary file, fsync,     *)
(* rename, fsync of the directory) leaves the old or the new file and is   *)
(* one step.  An append is one write of several lines: a crash may leave   *)
(* any prefix of them followed by a torn line.                             *)
(***************************************************************************)
EXTENDS RaftLog, SequencesExt

CONSTANTS
    Term,           \* terms of hard state and entries
    MaxIndex,       \* bound: highest log index
    MaxCrashes      \* bound: crashes

ASSUME StorageBounds == Term \subseteq Nat /\ MaxIndex \in Nat /\ MaxCrashes \in Nat

VARIABLES
    status,         \* "up", "down", or "refused": open() returned Corrupt
    mem,            \* the mirror [hard, snap, log] of an open storage
    hardFile, snapFile,
    logFile,        \* lines: [index, entry], or Garbage for a torn line
    busy,           \* Nil, or the rewrite_log still to come [op, retained]
    interrupted,    \* history: a crash has cut an install_snapshot in two
    crashes

vars == <<status, mem, hardFile, snapFile, logFile, busy, interrupted, crashes>>
files == <<hardFile, snapFile, logFile>>

Garbage == [index |-> -1]

\* The lines of the entries that follow index i.
Lines(i, entries) == [k \in DOMAIN entries |-> [index |-> i + k, entry |-> entries[k]]]

Fresh == [hard |-> 0, snap |-> EmptySnapshot, log |-> << >>]

Init ==
    /\ status = "up" /\ mem = Fresh /\ busy = Nil
    /\ hardFile = 0 /\ snapFile = EmptySnapshot /\ logFile = << >>
    /\ interrupted = FALSE /\ crashes = 0

Idle == status = "up" /\ busy = Nil

SaveHardState(t) ==
    /\ Idle
    /\ hardFile' = t
    /\ mem' = [mem EXCEPT !.hard = t]
    /\ UNCHANGED <<status, snapFile, logFile, busy, interrupted, crashes>>

\* Bytes written behind a torn line continue that line.
Written(file, lines) ==
    IF file # << >> /\ Last(file) = Garbage /\ lines # << >>
    THEN file \o Tail(lines) ELSE file \o lines

Batches == {batch \in UNION {[1 .. n -> [term : Term]] : n \in 1 .. 2} :
               LastIndex(mem) + Len(batch) <= MaxIndex}

AppendBatch(batch) ==
    /\ Idle
    /\ logFile' = Written(logFile, Lines(LastIndex(mem), batch))
    /\ mem' = AppendEntries(mem, batch)
    /\ UNCHANGED <<status, hardFile, snapFile, busy, interrupted, crashes>>

\* truncate_from: the log file is replaced by what precedes from.
TruncateLog(from) ==
    /\ Idle
    /\ mem' = TruncateFrom(mem, from)
    /\ logFile' = Lines(mem.snap.index, mem'.log)
    /\ UNCHANGED <<status, hardFile, snapFile, busy, interrupted, crashes>>

\* Mutant: the log is cut before the snapshot that replaces its prefix is there.
WriteSnapshot_LogFirst(op, snap, retained) ==
    /\ Idle
    /\ logFile' = Lines(snap.index, retained)
    /\ mem' = [mem EXCEPT !.log = retained]
    /\ busy' = [op |-> op, retained |-> retained]
    /\ UNCHANGED <<status, hardFile, snapFile, interrupted, crashes>>

\* First half of compact_to and of install_snapshot.
WriteSnapshot(op, snap, retained) ==
    /\ Idle
    /\ snapFile' = snap
    /\ mem' = [mem EXCEPT !.snap = snap]
    /\ busy' = [op |-> op, retained |-> retained]
    /\ UNCHANGED <<status, hardFile, logFile, interrupted, crashes>>

Compacted(i) == CompactTo(mem, [index |-> i, members |-> Nil, state |-> << >>])

BeginCompact(i) == WriteSnapshot("compact", Compacted(i).snap, Compacted(i).log)

BeginInstall(snap) ==
    /\ snap.index > mem.snap.index
    /\ WriteSnapshot("install", snap, InstallSnapshot(mem, snap).log)

\* Second half.
RewriteLog ==
    /\ status = "up" /\ busy # Nil
    /\ logFile' = Lines(mem.snap.index, busy.retained)
    /\ mem' = [mem EXCEPT !.log = busy.retained]
    /\ busy' = Nil
    /\ UNCHANGED <<status, hardFile, snapFile, interrupted, crashes>>
-----------------------------------------------------------------------------
(* Crash and open.                                                         *)

Die ==
    /\ crashes < MaxCrashes
    /\ crashes' = crashes + 1
    /\ status' = "down"
    /\ mem' = Nil
    /\ interrupted' = (interrupted \/ (busy # Nil /\ busy.op = "install"))

Crash == status = "up" /\ Die /\ UNCHANGED <<files, busy>>

CrashInAppend(batch) ==
    /\ Idle
    /\ Die
    /\ \E k \in 0 .. Len(batch) - 1, tail \in {<< >>, <<Garbage>>} :
          logFile' = logFile \o SubSeq(Lines(LastIndex(mem), batch), 1, k) \o tail
    /\ UNCHANGED <<hardFile, snapFile, busy>>

\* Mutant: a torn final line is not told apart from a corrupt one.
Repaired_Not(file) == file

\* A torn final line is cut off the file.
Repaired(file) ==
    IF file # << >> /\ Last(file) = Garbage THEN Front(file) ELSE file

\* Lines at or below the boundary are skipped (but were validated).
Replayed(file, boundary) == SelectSeq(file, LAMBDA line : line.index > boundary)

\* Every line parses and the indexes are contiguous.
WellFormed(file) ==
    /\ \A k \in DOMAIN file : file[k] # Garbage
    /\ \A k \in DOMAIN file \ {1} : file[k].index = file[k - 1].index + 1

Entries(lines) == [k \in DOMAIN lines |-> lines[k].entry]

Openable(file, boundary) ==
    /\ WellFormed(file)
    /\ LET kept == Replayed(file, boundary)
       IN  kept # << >> => kept[1].index = boundary + 1

\* Mutant: the torn line is skipped in memory but stays in the file.
Open_KeepsTornLine ==
    /\ status = "down"
    /\ busy' = Nil
    /\ IF Openable(Repaired(logFile), snapFile.index)
       THEN /\ status' = "up"
            /\ mem' = [hard |-> hardFile, snap |-> snapFile,
                       log |-> Entries(Replayed(Repaired(logFile), snapFile.index))]
       ELSE status' = "refused" /\ UNCHANGED mem
    /\ UNCHANGED <<files, interrupted, crashes>>

Open ==
    /\ status = "down"
    /\ busy' = Nil
    /\ IF Openable(Repaired(logFile), snapFile.index)
       THEN /\ status' = "up"
            /\ logFile' = Repaired(logFile)
            /\ mem' = [hard |-> hardFile, snap |-> snapFile,
                       log |-> Entries(Replayed(Repaired(logFile), snapFile.index))]
       ELSE status' = "refused" /\ UNCHANGED <<logFile, mem>>
    /\ UNCHANGED <<hardFile, snapFile, interrupted, crashes>>

\* open() keeps failing; the operator is on their own.
Refused == status = "refused" /\ UNCHANGED vars
-----------------------------------------------------------------------------
ForeignSnapshots == {[EmptySnapshot EXCEPT !.index = i, !.term = t] :
                        i \in 1 .. MaxIndex, t \in Term}

Next ==
    \/ \E t \in Term : SaveHardState(t)
    \/ Idle /\ \E batch \in Batches : AppendBatch(batch) \/ CrashInAppend(batch)
    \/ Idle /\ \E i \in mem.snap.index + 1 .. LastIndex(mem) : TruncateLog(i) \/ BeginCompact(i)
    \/ Idle /\ \E snap \in ForeignSnapshots : BeginInstall(snap)
    \/ RewriteLog
    \/ Crash
    \/ Open
    \/ Refused

Spec == Init /\ [][Next]_vars
-----------------------------------------------------------------------------
(* Properties.                                                             *)

\* What open() would reconstruct from the files at this moment.
Durable ==
    LET kept == SelectSeq(logFile, LAMBDA line : line # Garbage /\ line.index > snapFile.index)
    IN  [hard |-> hardFile, snap |-> snapFile, log |-> Entries(kept)]

Atomic == INSTANCE AtomicStorage WITH store <- Durable

\* The files implement the atomic store: at every moment, and so after a crash
\* at any moment, they hold the result of whole operations.
ImplementsAtomicStorage == Atomic!Spec

\* Every operation that has returned is on disk, and an open storage serves
\* exactly what a crash right now would leave.
MirrorIsDurable == Idle => mem = Durable

\* open() succeeds after any crash, unless the crash cut an install_snapshot in
\* two: torn appends and interrupted compactions never make a directory
\* unreadable.
RefusesOnlyAfterCutInstall == status = "refused" => interrupted

\* "A crash between the two leaves a log overlapping the boundary; replay skips
\* entries at or below it, so reopening completes the compaction's effect
\* idempotently" (the module documentation): true of compact_to.
ReopenCompletesCompaction ==
    [][status = "down" /\ status' = "up" /\ busy # Nil /\ busy.op = "compact"
          => mem'.log = busy.retained]_vars

\* A crash never makes the data directory unreadable: the same sentence of the
\* documentation, for install_snapshot, which goes through the same two writes.
AlwaysOpens == status # "refused"
=============================================================================

# A verification of rustKV in TLA+

rustKV is a replicated key-value store: a hand-written Raft core, crash-safe
files, a state machine with client sessions, and an HTTP service around them.
This directory holds TLA+ modules that model its parts, TLC configurations that
check them on small instances, and TLAPS proofs, for instances of every size, of
the safety of elections, of client sessions, of the service above them and of both
transports.

    tlc -config joining.cfg MCRaft         # one run (PROJECT.json lists them all)
    tlapm RaftElectionProofs.tla           # the proofs of one module

Paths such as `node.rs:905` are relative to `src/src/raft/`, or to `src/src/`
for `store.rs`, `kv.rs`, `api.rs` and `main.rs`.

## 1. The system

| part | source | state | operations |
|---|---|---|---|
| consensus core | `raft/node.rs`, `raft/rpc.rs`, `raft/types.rs` | term, vote, role with a leader's bookkeeping, commit and apply indexes, membership, waiting clients, staged snapshot | one event loop per node: timers, client requests, four RPC handlers and the replies to them |
| storage | `raft/storage.rs` | `hard_state.json`, `snapshot.json`, `log.jsonl` and their mirror in memory | save, append, truncate, compact, install, open |
| state machine | `store.rs` | the map, one dedup window per client | apply, export, import, get |
| service and API | `kv.rs`, `api.rs` | waiting requests | write, read, redirect, membership endpoints |
| HTTP transport | `raft/transport/http.rs` | connection pool, address book | send with one retry, prune |
| simulator | `raft/transport/sim.rs` | faults, safety observer | test harness |
| wiring | `main.rs`, `config.rs`, `rng.rs` | | start-up, membership watch, settings, random numbers |

They meet as follows. The API calls the service, which proposes a command to the
core and waits for its outcome. The core writes to storage before it answers any
RPC, exchanges messages through the transport, and applies committed entries to
the state machine. It asks the state machine for snapshots and hands it those it
receives. `main.rs` copies membership changes from the core to the transport.

What is hard about it: messages are lost, repeated and overtaken; a handler makes
several durable writes and the process may die between any two of them; replies
are matched to a leadership that may be over; the log is compacted under
replication in progress; the membership is read from entries that may be truncated
again; and a client retries what may already have happened. `PROJECT.json` lists
these hazards at the lines where they bite.

## 2. The modules

| module | models |
|---|---|
| `RaftLog` | the arithmetic of the log and snapshot boundary, as the core uses it |
| `RaftNode` | the core: nodes, network, crashes |
| `RaftSafety` | what the core promises |
| `RaftTimed` | the core with its clocks and links, for liveness |
| `Storage` | the three files, step by step, with crashes |
| `AtomicStorage` | the abstract store that `Storage` implements |
| `KvStore` | the state machine and its sessions, several replicas |
| `KvService` | the service and the key endpoints on top of `KvStore` |
| `ClusterAdmin` | the membership endpoints |
| `Transport` | the contract of the trait `Transport` |
| `HttpTransport` | pool, address book, calls, server side, and the watch task of `main.rs` |
| `SimNetwork` | the simulated network and its safety observer |
| `MCRaft`, `MCRaftTimed`, `MCKvService`, `MCHttpTransport`, `MCSimNetwork` | instances for TLC |
| `StoreAndSimProofs` | the sessions, the service above them, the simulated network and its observer |
| `RaftNodeProofs` | what the helpers of the core preserve |
| `RaftTurnProofs`, `RaftActionProofs`, `RaftElectionProofs` | the election invariant, its preservation by each action, and the theorems |
| `HttpCallProofs`, `HttpTransportProofs` | the calls and their connections; the theorems |

### RaftNode

`node[n]` is a record with the fields of struct `RaftNode`; its fields `term`,
`votedFor`, `snap` and `log` are on disk. One action is one turn of the event loop
with everything that the handler calls. Helpers that mutate the node in Rust are
functions from records to records (`BecomeFollower`, `AdoptMembership`,
`MaybeAdvanceCommit`, `ApplyCommitted`, `MaybeCompact`, ...), composed in the order
of the calls.

| actions | code |
|---|---|
| `ElectionTimeout`, `TimeoutIgnored`, `HeartbeatTick`, `CheckQuorumFails` | the timers: PreVote round, fan-out, step-down for want of a quorum |
| `ProposeWrite`, `ProposeConfig`, `Read` | client writes, membership changes with their two gates, ReadIndex reads |
| `HandleRequestVote`, `HandlePreVote`, `HandleAppendEntries`, `HandleInstallSnapshot` | RPC handlers |
| `HandleVoteReply`, `HandlePreVoteReply`, `HandleAppendReply`, `HandleInstallReply` | replies, with the tags the sending task keeps |
| `Restart`, `CrashAfterTerm`, `CrashInAppend`, `CrashInInstall` | a crash between turns and between two durable writes of one handler, followed by recovery (`Boot`) |

*Network.* `msgs` holds the messages in flight, at most `MaxInFlight`. A message
may be lost when sent, overtaken, and delivered again. This allows more than the
code does: a reply may be repeated or may reach a restarted process, whereas in the
code a reply belongs to one task of one process. Properties that hold are not
weakened by this, and no disagreement of section 5 depends on it.

*Time.* There are no clocks here. A deadline may pass at any moment, and a test such
as "heard from a leader within the minimum timeout" is nondeterministic where both
answers are possible. `RaftTimed` adds them.

*State machine.* It is the free one: the sequence of the applied entries. A
snapshot's state is therefore the prefix it replaces, which lets properties compare
histories across compaction.

*Histories.* `ballots`, `elected` and `applied` are never read by an action's guard
and record votes made durable, leaderships, and entries any state machine held.
`told` and `granted`, in the node records, record the answers given to clients.

*Constants.* `SnapshotThreshold = 0` stands for `None`. The code takes
`threshold.max(1)`, so its `Some(0)` is 1 here.

### RaftTimed

`clock[n].fresh` says whether `last_leader_contact` is within
`election_timeout_min`, and `clock[n].contact[p]` whether the leader `n` heard `p`
within `election_timeout_max`. Every action of `RaftNode` is taken over with the
clock test that the code makes: stickiness in `handle_pre_vote`, CheckQuorum in
`on_heartbeat_tick`, the availability guard of `validate_config_change`. A link is
open or closed in each direction; a closed one swallows what is sent.

### Storage

`write_atomic` (temporary file, fsync, rename, fsync of the directory) is one step.
`compact_to` and `install_snapshot` are two: the snapshot file, then `RewriteLog`.
An append may be cut after any number of lines, with or without a torn one. `Open`
drops a torn tail, skips lines at or below the boundary and refuses gaps, as
`replay_log` does.

The refinement mapping gives the abstract `store` the value that `open()` would
reconstruct from the files at that moment. `RaftNode` relies on this abstraction:
its crash actions leave the states `AtomicStorage` allows.

### KvStore

A session is the record `[max, recent]` of the code's `max_seq` and bit set, with
`Window` for `SESSION_WINDOW`. The committed log is any sequence of issued
operations, retries included, and of token-less writes. Replicas apply it in order,
install another's snapshot, or restart empty. The map is abstracted to the last write that took
effect; `hits` counts how often each operation did.

### KvService and ClusterAdmin

`calls[k]` is one HTTP request and where its handler is: a write is `waiting`, then
`applied` (its channel yielded true, the answer is due); a read is `registered`,
then `granted`. The core is seen through `RaftHandle` only: accepted entries float
until they are committed or lost. `Superseded`, `Timeout`, `SnapshotInstalled` and
`Crash` are the ways a write ends without success. `frontier` and `disclosed` are
histories for the freshness of reads. That a granted read is at or past everything
applied when it was registered is `ReadsFresh` of `RaftSafety`.

`ClusterAdmin` has the two membership endpoints on a stable leader: reading the
membership and proposing the configuration made from it are two steps.

### HttpTransport, SimNetwork and Transport

`rpc[r]` is one call of `send` and where it is in `post_json`; `conn[c]` is a TCP
connection with its two ends and what is under way on it; `pool[a]` are the idle
connections. The watch task borrows a view and folds it in two steps, because
publications race with it. The server handles the requests of a connection in turn;
it may die between handing a request to the core and answering.

In `SimNetwork`, `sends[s]` is one send with its plan, and `lives[n]` names the
inboxes of a node's incarnations. The observer's maps are sets of first claims.

`Transport` is what the core may rely on: one outcome per call, no answer without a
core that was handed the request, and at most one delivery more than was sent. Both
transports implement it (`ImplementsTransport`, and `SimKeepsContract` in `SimNetwork`).

## 3. What the runs check

The run marked *led* starts just after `n1` won term 1, those marked *settled* a
little later, when `n2` has acknowledged the leader's no-op and everything else that
was sent is lost: the states are spent on what follows an election. Distinct states
are rounded.

| run | instance | states | shows |
|---|---|---|---|
| `replication` | 3 nodes, settled, successor `n2` in term 2, index 2, 2 in flight | 310k | `MatchIsTruthful`, `AckedWritesSurvive`, `NeverTruncatesCommitted` |
| `membership` | 3 nodes, settled, removals one at a time, the leader's included, 2 campaigners, 3 terms, index 3 | 530k | `ElectionSafety`, `LogMatching`, `LeaderCompleteness`, `StateMachineSafety`, `MembershipDerived` |
| `joining` | boot of a pair and a joiner, added and removed, compaction after every entry, 2 terms, index 3, 1 crash | 320k | `TypeOK`, `SnapshotExact`, `MembershipDerived`, `StateMachineSafety`, `LeaderCompleteness`, `VoteOnce`, `HintsAreLeaders` |
| `reads` | 3 nodes, settled, successor `n2` in term 2, 1 read per leadership, snapshots, 2 in flight | 510k | `ReadsFresh`, `AppliedIsDurable` |
| `storage` | 2 terms, 3 entries, 2 crashes | 7k | `ImplementsAtomicStorage`, `MirrorIsDurable`, `ReopenCompletesCompaction`, `RefusesOnlyAfterCutInstall` |
| `service` | 1 client, 2 nodes, 2 requests at once, one of them a read at most, window 2, 3 operations, log of 3, 1 crash | 490k | `AtMostOnce`, `NothingSkipped`, `ReplicasAgree`, `ReadsLinearizable`, `ImplementsKvStore`, `AckedTookEffect` |
| `liveness` | 3 nodes, led, 1 fault, 1 write, 1 removal, 4 terms, index 2 | 200k | `LeaderUndisturbed`, `EventuallyOneLeader`, `EveryoneCatchesUp`, `RemovedLearns` |
| `http` | 1 peer, 2 addresses, 3 calls, 2 connections, pool limit 1, 2 views | 370k | `AnswersMatch`, `IdleIsClean`, `ReceivedWhereResolved`, `ImplementsTransport`, `BookFollowsView` |
| `sim` | 2 nodes, 2 sends, 2 lives, 1 change of a link | 1.1M | `ObserverExact`, `ArrivesAsPlanned`, `SimKeepsContract` |

*Fairness.* Two runs use it. In `liveness` the event loops never stop, clocks run
on, and a timer that stays armed goes off again and again unless messages are
exchanged for ever. Timers fire only when nothing is in flight. The code justifies
this by its constants: `heartbeat_interval` is far below `election_timeout_min`,
messages are faster than both, and timeouts are randomised, so that split votes do
not repeat for ever. Faults are bounded, and nothing forces a repair: the properties
start from a majority, or all links, being connected from some time on. In `http`
the runtime polls the watch task again and again.

*Why the bounds are enough to be interesting.* Three nodes are the smallest cluster
with a minority, and two campaigners the fewest that compete. Three terms allow a
deposed leader's suffix to be overwritten and the overwriting leader to be replaced.
Two messages in flight give overtaking and stale answers. Threshold 1 makes every
applied entry compact, so snapshots and appends race at each index. In `joining`
the new node learns its configuration from an installed snapshot in some
behaviours, which was confirmed by asking TLC for one. Window 2 with three
operations lets a window slide past an outstanding one. In `http` three calls over
two connections let a connection be pooled, reused and found stale. Deadlock is
checked except in `service`, `http` and `sim`, where bounded calls, sends and log
entries really are used up.

*What the bounds leave out.* Terms beyond 4, more than two messages at once, and
combinations of features (reads during a membership change, for example) are not
covered. In `reads` the entries are the leaders' no-ops, because index 2 is too
large for two messages in flight: a read that misses a no-op stands for one that
misses a write. That run has no crashes, and `membership` has neither crashes nor two
messages in flight: late votes and votes before a crash are covered by
`ElectionSafetyHolds`, and by `VoteOnce` in `joining`. Token-less writes are in `KvStore` and its proofs; the requests of
`service` all carry tokens.

Each property of a passing run has a mutant in `PROJECT.json`: a plausible mistake
in one mapped definition, with which TLC finds the property violated.

## 4. What is proved

| theorem | states, for all values of the constants |
|---|---|
| `StoreAndSimProofs!AtMostOnceHolds` | a tokened write mutates a replica's map at most once |
| `StoreAndSimProofs!NothingSkippedHolds` | every tokened write a replica has been through took effect there |
| `StoreAndSimProofs!ReplicasAgreeHolds` | replicas that applied the same prefix are equal |
| `StoreAndSimProofs!ServiceImplementsKvStore` | the handlers implement the state machine's view of its clients |
| `StoreAndSimProofs!ReadsLinearizableHolds` | a read sees everything disclosed before it was registered |
| `StoreAndSimProofs!AckedTookEffectHolds` | a write answered with success has taken effect, once, on the answering node |
| `RaftElectionProofs!ShapeHolds` | the types of nodes and messages that the other proofs need |
| `RaftElectionProofs!VoteOnceHolds` | no node votes for two candidates in one term, crashes included |
| `RaftElectionProofs!HintsAreLeadersHold` | a leader hint names the node elected in the current term |
| `RaftElectionProofs!ElectionSafetyHolds` | no term has two leaders, when one given node may join and leave |
| `HttpTransportProofs!AnswersMatchHolds` | an RPC returns the reply to its own request |
| `HttpTransportProofs!IdleIsCleanHolds` | pooled connections are clean, exclusive and within the limit |
| `HttpTransportProofs!ReceivedWhereResolvedHolds` | requests reach only the address their call resolved |
| `HttpTransportProofs!HttpImplementsTransport` | HTTP implements the contract of `Transport` |
| `StoreAndSimProofs!ArrivesAsPlannedHolds` | simulated requests reach the incarnation they were sent to, never over a blocked link |
| `StoreAndSimProofs!SimImplementsTransport` | the simulated network implements the contract of `Transport` |
| `StoreAndSimProofs!ObserverExactHolds` | the observer reports a violation exactly when the messages it inspected show one |

*Assumptions.* `KvStore`: the window is a positive number, and `Nil` is no client.
`RaftNode`: nodes are finite in number, the bootstrap members and the proposed
configurations are sets of nodes, `Nil` is neither a node nor a set of nodes, and
the bounds are natural numbers. `HttpTransport`: `NoAddr` is no address, the
configured addresses are a map from peers to addresses, and the bounds, the pool
limit among them, are natural numbers. `SimNetwork`: senders are nodes, the bounds
are natural numbers, and so are the terms and indexes of an AppendEntries, whose
entries are a sequence. The bounds are parameters, so the theorems hold for
every one of them.

*Sessions.* All three theorems are about `Spec`, whose clients keep their
outstanding sequence numbers within one window. `AtMostOnce` alone is not inductive:
the window could forget a write. `Remembered` adds that every write that took effect
is still recognised as a duplicate. For `NothingSkipped`, `Accounted` says that a
set bit and the highest number stand for writes that took effect, and `Contract`
that a number one window below another in the log was logged before it; this is
where the clients' restriction is used. For `ReplicasAgree`, there is a sequence of
states (`Fold`) that starts fresh, steps by `ApplyEntry` along the log, and holds
every replica's state at its position.

*Service.* The service is a different specification with the store's variables and its
own. `ServiceInv` follows a request: a write that waits has its entry among the
floating ones or at one place of the log (`Waiters`), proposals are told apart by
their numbers until they are committed and by their places from then on
(`Numbered`), everything disclosed lies at or below the furthest application
(`Disclosure`), and a granted read's node has applied its index (`Readers`). The
refinement maps every step of a handler to a step of the store or to none, so the
three theorems on sessions hold of the service as well; `AckedTookEffect` uses them.
What the core promises of a read is taken from `ReadsFresh`: its index is at or past
all that was applied when it was registered. `ReadsLinearizableHolds` says that the
handlers then do their part, for any `MaxReads` reads and any writes at once.

*Elections.* `ElectionInv` ties the histories to the state:

- a ballot lies in its voter's past, or is the voter's durable vote in its current
  term (`Binding`; this is what a crash must not break);
- votes counted by a candidate, and granted votes in flight, were cast;
- leaders, senders of AppendEntries and InstallSnapshot, and leader hints are in
  `elected`;
- every elected leader has the votes of a majority of some membership (`Backed`).

`RaftNodeProofs` shows that the helpers keep the shape of a node and leave its term,
vote, role and hint alone or change them as stated. `RaftTurnProofs` reduces a turn
to `Fine`, what its final state must satisfy. `RaftActionProofs` has one lemma per
action. `RaftElectionProofs` concludes: two leaders of one term would need two
majorities with no common voter, and majorities of a membership and of that
membership with one node more or less do meet.

`ElectionSafetyHolds` therefore does not cover arbitrary sequences of changes. Their
safety rests on the gates of `propose_config` and on leaders being complete, which
the runs `membership` and `joining` check on small instances only.

*HTTP.* `AnswersMatch` rests on who holds what. The inductive invariant `IInv` says
that a connection has one holder at most, a waiting call or one place in one pool
(`Holding`, `Idling`); that the client's end of a held connection is open; that at
most one request or reply is on it, and that it is the holder's (`Requests`,
`Replies`); and that calls and the watch task are in one of their phases (`Types`,
`WatchTypes`, `Calls`). A timed-out call drops its stream, so a late reply finds no
holder. For the refinement, a call that may still be retried has handed over its
request at most once, and one on a fresh connection after a retry at most twice.

*Simulated network.* The invariant bounds the copies of a request still to arrive:
those handed over, the one in the exchange and the duplicate together are at most
two, and each goes to the inbox of its plan.

*Observer.* `ObserverInv` says that the observer's maps hold the first claim of each
term and the first entry at each term and index among the messages inspected. A
message that disagrees with another one then disagrees with a map. The observer
compares the terms of neighbouring entries only; that this finds every disorder in a
message of any length is `ShapeExact`, by the least entry out of order.

*Only model-checked.* The full `TypeOK`, everything about logs, commitment,
snapshots, ReadIndex and derived memberships, and all of `Storage`, the refinement
included. Out of reach of the prover are liveness and `ENABLED`, what a recursive
definition computes for every input (induction over data), and modules that declare
`RECURSIVE` operators; this project declares none.

## 5. Where code and documentation disagree

Three disagreements are runs that end in a violation, with the quotations in
`PROJECT.json`.

- `storage_gap`: `install_snapshot` replaces the snapshot file, then the log. After
  a crash between the two, with an old log that ends below the new boundary, the
  stale lines stay in the file. The next append leaves a gap behind them, and the
  next `open()` refuses the directory as corrupt. The documentation says that
  reopening completes the operation.
- `superseded`: a client told that its write was replaced "and can never commit" may
  see it committed: another node may hold a copy, win a later election and commit
  it. The run starts from a described state of five nodes (`Contested`).
- `stale_admin`: the membership endpoints propose a complete configuration made from
  the membership they read. A handler that is preempted before it proposes, while two
  other changes commit, may pass the check for a single difference with a
  configuration that undoes one of them. A late repeated DELETE of `n1` is answered
  204 and re-adds `n2`.

Smaller ones were met on the way and have no run of their own.

- After the crash of `storage_gap`, entries beyond the boundary survive even if they
  diverge from the snapshot, which the installation is documented to clear
  (`storage.rs:277`). The run `joining` crashes nodes there too, and its safety properties
  hold.
- A rejection overtaken by a success moves `next_index` below `match_index`, although
  a comment says that stale rejections never undo progress (`node.rs:1451`). Entries
  are sent again.
- `types.rs:21` says that only sequence numbers above the highest applied one are
  applied. Within the window lower ones are too, as `store.rs` intends.
- "At most `SESSION_WINDOW` outstanding" (`store.rs:16`) does not suffice. One old
  write may stay outstanding while newer ones complete, fall below the window, and be
  acknowledged without effect. What suffices is that outstanding numbers span less
  than one window (`NothingSkippedHolds`).
- A connection checked in after `set_peers` pruned its address stays in the pool,
  although the comment says that such sockets do not (`http.rs:103`).
- The simulator samples a blocked reply link when the reply's delay has passed, not
  when the reply is sent (`sim.rs:25` and `270`).

## 6. What is not modelled

- *Crash points.* A one-member cluster dying between its term bump and its no-op, or
  between its own append and the compaction after it. The gap of `storage_gap` is
  modelled in `Storage` only: `RaftNode` reopens with the right log after a cut
  installation and does not follow the directory to its refusal.
- *I/O errors.* The core stops at the first one, which is a crash.
- *Harness.* Registering a simulated node that is still running,
  `test_disable_reconfig_gates`, graceful `Shutdown`, the status watch.
- *Bytes.* Header and body parsing, JSON, HTTP framing: a request, a reply or a
  status is one value. So a 200 with a body that does not decode, which is an error
  after the connection was checked in (`http.rs:212`), has no action of its own, and
  neither have members without an address, which the watch task leaves out of the
  books (`main.rs:119` and `126`). `get_status` and `list_members` change nothing.
- *Start-up, configuration, random numbers.* Sequential code without behaviour to
  check; every timeout and fault may happen.

## 7. Plan

Proofs of log matching and leader completeness, of `MembershipDerived`, and of the
storage refinement.

--------------------------- MODULE HttpTransport ---------------------------
(***************************************************************************)
(* One node's HTTP transport (src/raft/transport/http.rs): the address     *)
(* book, the pool of idle connections and the RPCs that use them, against  *)
(* the peers' raft listeners; and the task of src/main.rs that folds the   *)
(* core's membership watch into the book and the redirect map.             *)
(*                                                                         *)
(* RPCs run on a multi-threaded runtime: they interleave with one another  *)
(* and with the watch task at every await and around every lock.  Bytes    *)
(* are abstracted: a request is its RPC, a reply is the RPC it answers     *)
(* with its status and whether the server keeps the connection.  The       *)
(* server always declares a Content-Length.                                *)
(***************************************************************************)
EXTENDS Naturals, Sequences, FiniteSets

CONSTANTS
    Peer,           \* the other nodes
    Addr,           \* raft addresses
    NoAddr,         \* an id that is not in a map
    Bootstrap,      \* the addresses the node is configured with
    MaxRpc,         \* bound: RPCs sent
    MaxConn,        \* bound: connections in existence
    MaxIdle,        \* MAX_IDLE_PER_PEER
    MaxVersion      \* bound: membership views published

ASSUME TransportBounds ==
    /\ NoAddr \notin Addr
    /\ {MaxRpc, MaxConn, MaxIdle, MaxVersion} \subseteq Nat

Rpc == 1 .. MaxRpc
Conn == 1 .. MaxConn
None == 0           \* no RPC, no connection

\* A membership map without this node: raft and client address move together.
Book == [Peer -> Addr \cup {NoAddr}]

ASSUME Configured == Bootstrap \in Book

\* MembershipView: nobody is a member and departing at once.
View == {v \in [members : Book, departing : Book] :
            \A p \in Peer : NoAddr \in {v.members[p], v.departing[p]}}

VARIABLES
    peers,          \* the address book
    pool,           \* pool[a]: idle connections to a, the last one on top
    rpc,            \* rpc[r]: the call and where it is
    conn,           \* conn[c]: both ends of a connection
    received,       \* history: received[r]: where the request of r reached a core
    view,           \* the membership watch: last published value
    version,        \* and its version
    task,           \* the watch task: the view it borrowed, the version it saw
    peer_urls       \* the API's redirect map

rpcVars == <<rpc, conn, pool, received>>
watchVars == <<view, version, task, peer_urls>>
vars == <<peers, pool, rpc, conn, received, view, version, task, peer_urls>>

NewCall == [phase |-> "new", to |-> NoAddr, addr |-> NoAddr, conn |-> None,
            pooled |-> FALSE, answer |-> None]

\* Whether the client and the server have their end open, and what is on the
\* way between them.
NoConn == [addr |-> NoAddr, client |-> FALSE, server |-> FALSE, requests |-> << >>,
           replies |-> << >>]

Idle(a) == {pool[a][i] : i \in 1 .. Len(pool[a])}

Held(c) == \E r \in Rpc : rpc[r].conn = c

\* A connection whose client end is gone lives on while the server works on it.
Lingering(k) == IF ~k.client /\ k.requests = << >> THEN NoConn ELSE k

\* The client drops the stream: what the peer answers goes nowhere.
Dropped(k) == Lingering([k EXCEPT !.client = FALSE, !.replies = << >>])

\* The connections after those in gone are dropped.
Without(gone) == [c \in Conn |-> IF c \in gone THEN Dropped(conn[c]) ELSE conn[c]]
-----------------------------------------------------------------------------
(* The watch task of main.rs.                                              *)

\* publish_membership: only a different view is sent.
Publish ==
    /\ version < MaxVersion
    /\ \E v \in View \ {view} : view' = v
    /\ version' = version + 1
    /\ UNCHANGED <<peers, task, peer_urls>> /\ UNCHANGED rpcVars

\* At the start, and then whenever changed().await sees a version not seen.
BorrowAndUpdate ==
    /\ ~task.folding
    /\ task.seen # version
    /\ task' = [folding |-> TRUE, view |-> view, seen |-> version]
    /\ UNCHANGED <<peers, view, version, peer_urls>> /\ UNCHANGED rpcVars

\* Mutant: the departing peers lose their address with their membership.
AddressesOf_MembersOnly(v) == v.members

\* members chained with departing.
AddressesOf(v) ==
    [p \in Peer |-> IF v.departing[p] # NoAddr THEN v.departing[p] ELSE v.members[p]]

\* set_peers: the book is replaced and the pool pruned under both locks.
SetPeers(book) ==
    LET pruned == {a \in Addr : \A p \in Peer : book[p] # a}
    IN  /\ peers' = book
        /\ pool' = [a \in Addr |-> IF a \in pruned THEN << >> ELSE pool[a]]
        /\ conn' = Without(UNION {Idle(a) : a \in pruned})

\* Mutant: the view is marked as seen after the fold, not when it is borrowed.
SeenAfterFold_Latest == version

SeenAfterFold == task.seen

Fold ==
    /\ task.folding
    /\ SetPeers(AddressesOf(task.view))
    /\ peer_urls' = task.view.members
    /\ task' = [task EXCEPT !.folding = FALSE, !.seen = SeenAfterFold]
    /\ UNCHANGED <<rpc, received, view, version>>

WatchTask == BorrowAndUpdate \/ Fold
-----------------------------------------------------------------------------
(* send and post_json.                                                     *)

\* The address is resolved up front; an id without one is Unreachable.
Resolve(r) ==
    /\ rpc[r].phase = "new"
    /\ \A q \in Rpc : q < r => rpc[q].phase # "new"
    /\ \E p \in Peer :
          rpc' = [rpc EXCEPT ![r].to = p, ![r].addr = peers[p],
                             ![r].phase = IF peers[p] = NoAddr THEN "failed" ELSE "resolved"]
    /\ UNCHANGED <<peers, pool, conn, received>> /\ UNCHANGED watchVars

Write(r, c) == [conn[c] EXCEPT !.requests = IF conn[c].server THEN Append(@, r) ELSE @]

\* An idle connection is popped and the request written, into the void if the
\* peer has closed it meanwhile.
Checkout(r) ==
    LET idle == pool[rpc[r].addr]
        c == idle[Len(idle)]
    IN  /\ rpc[r].phase = "resolved"
        /\ idle # << >>
        /\ pool' = [pool EXCEPT ![rpc[r].addr] = SubSeq(idle, 1, Len(idle) - 1)]
        /\ rpc' = [rpc EXCEPT ![r].phase = "waiting", ![r].conn = c, ![r].pooled = TRUE]
        /\ conn' = [conn EXCEPT ![c] = Write(r, c)]
        /\ UNCHANGED <<peers, received>> /\ UNCHANGED watchVars

NothingIdle(r) ==
    /\ rpc[r].phase = "resolved"
    /\ pool[rpc[r].addr] = << >>
    /\ rpc' = [rpc EXCEPT ![r].phase = "connecting"]
    /\ UNCHANGED <<peers, pool, conn, received>> /\ UNCHANGED watchVars

\* Mutant: the address is looked up again for the fresh connection.
DialAddr_Again(r) == peers[rpc[r].to]

DialAddr(r) == rpc[r].addr

\* TcpStream::connect, and the request written on the new connection.
Connect(r) ==
    /\ rpc[r].phase = "connecting"
    /\ \E c \in Conn :
          /\ conn[c] = NoConn
          /\ \A b \in Conn : b < c => conn[b] # NoConn
          /\ rpc' = [rpc EXCEPT ![r].phase = "waiting", ![r].conn = c, ![r].pooled = FALSE]
          /\ conn' = [conn EXCEPT ![c] = [NoConn EXCEPT !.addr = DialAddr(r), !.client = TRUE,
                                                        !.server = TRUE, !.requests = <<r>>]]
    /\ UNCHANGED <<peers, pool, received>> /\ UNCHANGED watchVars

ConnectFails(r) ==
    /\ rpc[r].phase = "connecting"
    /\ rpc' = [rpc EXCEPT ![r].phase = "failed"]
    /\ UNCHANGED <<peers, pool, conn, received>> /\ UNCHANGED watchVars
-----------------------------------------------------------------------------
(* request_response: the end of an attempt.                                *)

\* Mutant: any failed attempt is retried.
Retried_Always(r) == TRUE

\* Only an attempt on a pooled connection is retried, on a fresh one.
Retried(r) == rpc[r].pooled

\* The call leaves its connection; pooled says nothing any more.
Leaves(r, phase, answer) ==
    rpc' = [rpc EXCEPT ![r].phase = phase, ![r].answer = answer,
                       ![r].conn = None, ![r].pooled = FALSE]

AttemptFails(r) ==
    /\ Leaves(r, IF Retried(r) THEN "connecting" ELSE "failed", None)
    /\ conn' = Without({rpc[r].conn})
    /\ UNCHANGED pool

\* Mutant: one connection more than the limit is kept.
HasRoom_OffByOne(a) == Len(pool[a]) <= MaxIdle

HasRoom(a) == Len(pool[a]) < MaxIdle

Checkin(a, c) ==
    \/ /\ HasRoom(a)
       /\ pool' = [pool EXCEPT ![a] = Append(@, c)]
       /\ conn' = [conn EXCEPT ![c].replies = SubSeq(@, 2, Len(@))]
    \/ /\ ~HasRoom(a)
       /\ conn' = Without({c})
       /\ UNCHANGED pool

\* A whole reply is there.  Anything but a 200 is an error; after a 200 the
\* connection is checked in, unless the server opted out of keep-alive.
ReadReply(r) ==
    LET c == rpc[r].conn
        reply == conn[c].replies[1]
    IN  /\ rpc[r].phase = "waiting"
        /\ conn[c].replies # << >>
        /\ \/ /\ reply.status # 200
              /\ AttemptFails(r)
           \/ /\ reply.status = 200
              /\ Leaves(r, "answered", reply.to)
              /\ IF reply.keep_alive THEN Checkin(rpc[r].addr, c)
                 ELSE conn' = Without({c}) /\ UNCHANGED pool
        /\ UNCHANGED <<peers, received>> /\ UNCHANGED watchVars

\* The peer closed the connection before it answered.
ReadEof(r) ==
    /\ rpc[r].phase = "waiting"
    /\ ~conn[rpc[r].conn].server
    /\ conn[rpc[r].conn].replies = << >>
    /\ AttemptFails(r)
    /\ UNCHANGED <<peers, received>> /\ UNCHANGED watchVars

\* Mutant: the stream of a timed-out call goes back into the pool.
Timeout_ChecksIn(r) ==
    /\ rpc[r].phase \in {"connecting", "waiting"}
    /\ Leaves(r, "failed", None)
    /\ IF rpc[r].conn = None THEN UNCHANGED <<pool, conn>> ELSE Checkin(rpc[r].addr, rpc[r].conn)
    /\ UNCHANGED <<peers, received>> /\ UNCHANGED watchVars

\* rpc_timeout drops the future, and the stream it owns.
Timeout(r) ==
    /\ rpc[r].phase \in {"connecting", "waiting"}
    /\ Leaves(r, "failed", None)
    /\ conn' = Without({rpc[r].conn})
    /\ UNCHANGED <<peers, pool, received>> /\ UNCHANGED watchVars
-----------------------------------------------------------------------------
(* The peer: handle_raft_rpc behind its server, one request at a time.     *)

Replied(c, status, keep_alive) ==
    LET k == [conn[c] EXCEPT !.requests = Tail(@)]
        reply == [to |-> conn[c].requests[1], status |-> status, keep_alive |-> keep_alive]
    IN  conn' = [conn EXCEPT ![c] =
            IF k.client THEN [k EXCEPT !.replies = Append(@, reply)] ELSE Lingering(k)]

\* What was not answered never will be.
Closed(c) ==
    conn' = [conn EXCEPT ![c] = Lingering([@ EXCEPT !.server = FALSE, !.requests = << >>])]

\* The core gets the request and answers it; or drops the reply channel as it
\* stops; or the process dies between the two.
Handle(c) ==
    /\ conn[c].requests # << >>
    /\ received' = [received EXCEPT ![conn[c].requests[1]] = Append(@, conn[c].addr)]
    /\ \/ \E keep_alive \in BOOLEAN : Replied(c, 200, keep_alive)
       \/ Replied(c, 503, TRUE)
       \/ Closed(c)
    /\ UNCHANGED <<peers, pool, rpc>> /\ UNCHANGED watchVars

\* The core has stopped.
Refuse(c) ==
    /\ conn[c].requests # << >>
    /\ Replied(c, 503, TRUE)
    /\ UNCHANGED <<peers, pool, rpc, received>> /\ UNCHANGED watchVars

\* An idle timeout, a shutdown, a crash or a reset.
ServerCloses(c) ==
    /\ conn[c].server
    /\ Closed(c)
    /\ UNCHANGED <<peers, pool, rpc, received>> /\ UNCHANGED watchVars
-----------------------------------------------------------------------------
Init ==
    /\ view = [members |-> Bootstrap, departing |-> [p \in Peer |-> NoAddr]]
    /\ peers = view.members
    /\ peer_urls = view.members
    /\ version = 1
    /\ task = [folding |-> FALSE, view |-> view, seen |-> 0]
    /\ pool = [a \in Addr |-> << >>]
    /\ rpc = [r \in Rpc |-> NewCall]
    /\ conn = [c \in Conn |-> NoConn]
    /\ received = [r \in Rpc |-> << >>]

Progress(r) ==
    \/ Resolve(r) \/ Checkout(r) \/ NothingIdle(r) \/ Connect(r) \/ ConnectFails(r)
    \/ ReadReply(r) \/ ReadEof(r) \/ Timeout(r)

Server(c) == Handle(c) \/ Refuse(c) \/ ServerCloses(c)

Next ==
    \/ Publish \/ WatchTask
    \/ \E r \in Rpc : Progress(r)
    \/ \E c \in Conn : Server(c)

\* The runtime polls a task that can run again and again.
Spec == Init /\ [][Next]_vars /\ WF_vars(WatchTask)
-----------------------------------------------------------------------------
(* Properties.                                                             *)

\* An RPC returns the reply to its own request, whatever else timed out,
\* failed or was retried on the connection before (checkin's single call
\* site, checkout's exclusiveness).
AnswersMatch == \A r \in Rpc : rpc[r].phase = "answered" => rpc[r].answer = r

\* A connection in the pool is there once, in no call's hands, filed under the
\* address it leads to, with no request or reply left on it; and a pool never
\* holds more than its limit (checkout, checkin).
IdleIsClean ==
    /\ \A a \in Addr :
          /\ Len(pool[a]) <= MaxIdle
          /\ \A i \in 1 .. Len(pool[a]) :
                LET c == pool[a][i] IN
                /\ conn[c].addr = a /\ ~Held(c)
                /\ conn[c].requests = << >> /\ conn[c].replies = << >>
    /\ \A a, b \in Addr : \A i \in 1 .. Len(pool[a]), j \in 1 .. Len(pool[b]) :
          pool[a][i] = pool[b][j] => a = b /\ i = j

\* Every core that sees an RPC is at the address the call resolved, also when it
\* is retried on a fresh connection while set_peers changes the book (send,
\* post_json).
ReceivedWhereResolved ==
    \A r \in Rpc : \A i \in DOMAIN received[r] : received[r][i] = rpc[r].addr

Outcome(r) ==
    CASE rpc[r].phase = "new" -> "none"
      [] rpc[r].phase = "answered" -> "ok"
      [] rpc[r].phase = "failed" -> "error"
      [] OTHER -> "pending"

Contract == INSTANCE Transport WITH
    Call <- Rpc,
    outcome <- [r \in Rpc |-> Outcome(r)],
    handed <- [r \in Rpc |-> Len(received[r])]

\* HTTP with its pool, its timeout and its retry keeps the contract of the trait
\* Transport that the core is written against: no answer without a core that
\* was handed the request, and no request handed over more than twice (send).
ImplementsTransport == Contract!Spec

\* The address book ends up with the members and the departing peers of the
\* last view published, and the redirect map with its members only, however
\* publications race with the fold (main.rs, the loop over membership_rx).
BookFollowsView ==
    <>[](\A p \in Peer :
            /\ view.members[p] # NoAddr => peers[p] = view.members[p]
            /\ view.departing[p] # NoAddr => peers[p] = view.departing[p]
            /\ {view.members[p], view.departing[p]} = {NoAddr} => peers[p] = NoAddr
            /\ peer_urls[p] = view.members[p])
=============================================================================

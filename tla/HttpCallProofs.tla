-------------------------- MODULE HttpCallProofs --------------------------
(***************************************************************************)
(* For any peers, addresses and bounds: a call returns the reply to its    *)
(* own request, a connection in the pool is clean, and a request reaches   *)
(* cores at the address its call resolved only, twice at most.             *)
(*                                                                         *)
(* The inductive invariant follows a request: it is on the connection its  *)
(* call waits on, or on one whose client end is gone, and then the call    *)
(* has failed; and it follows the connection: in the hands of one call, or *)
(* idle with nothing on it.                                                *)
(***************************************************************************)
EXTENDS HttpTransport, TLAPS

Phase == {"new", "resolved", "connecting", "waiting", "answered", "failed"}

CallRec ==
    [phase : Phase, to : Peer \cup {NoAddr}, addr : Addr \cup {NoAddr},
     conn : Conn \cup {None}, pooled : BOOLEAN, answer : Nat]

ReplyRec == [to : Rpc, status : Nat, keep_alive : BOOLEAN]

ConnRec ==
    [addr : Addr \cup {NoAddr}, client : BOOLEAN, server : BOOLEAN,
     requests : Seq(Rpc), replies : Seq(ReplyRec)]

Types ==
    /\ peers \in Book
    /\ pool \in [Addr -> Seq(Conn)]
    /\ rpc \in [Rpc -> CallRec]
    /\ conn \in [Conn -> ConnRec]
    /\ received \in [Rpc -> Seq(Addr \cup {NoAddr})]

WatchTypes ==
    /\ view \in View /\ version \in Nat
    /\ task \in [folding : BOOLEAN, view : View, seen : Nat]

\* A call, and what cores have received of it.
CallOK(x, w, r) ==
    /\ x.phase = "waiting" => x.conn \in Conn
    /\ x.phase # "waiting" => x.conn = None /\ ~x.pooled
    /\ x.phase \in {"resolved", "connecting", "waiting"} => x.addr \in Addr
    /\ x.phase \in {"new", "resolved"} => Len(w) = 0
    /\ x.phase = "connecting" \/ x.pooled => Len(w) <= 1
    /\ Len(w) <= 2
    /\ x.phase = "answered" => x.answer = r /\ Len(w) > 0
    /\ \A i \in 1 .. Len(w) : w[i] = x.addr

Calls == \A r \in Rpc : CallOK(rpc[r], received[r], r)

\* A call holds its connection alone.
Holding ==
    /\ \A r \in Rpc : rpc[r].phase = "waiting" =>
          conn[rpc[r].conn].client /\ conn[rpc[r].conn].addr = rpc[r].addr
    /\ \A r, q \in Rpc : rpc[r].conn = rpc[q].conn => r = q \/ rpc[r].conn = None

IdleOK(c, a) ==
    /\ conn[c].client /\ conn[c].addr = a
    /\ conn[c].requests = << >> /\ conn[c].replies = << >>
    /\ \A r \in Rpc : rpc[r].conn # c

Idling ==
    /\ \A a \in Addr : \A i \in 1 .. Len(pool[a]) : IdleOK(pool[a][i], a)
    /\ \A a \in Addr : \A i, j \in 1 .. Len(pool[a]) : pool[a][i] = pool[a][j] => i = j
    /\ \A a \in Addr : Len(pool[a]) <= MaxIdle

\* The request of r on connection c, with k its state.
RequestOK(k, c, r) ==
    /\ Len(k.requests) = 1 /\ k.server
    /\ k.addr = rpc[r].addr
    /\ Len(received[r]) <= 1
    /\ rpc[r].pooled => Len(received[r]) = 0
    /\ k.client => rpc[r].conn = c /\ k.replies = << >>
    /\ ~k.client => rpc[r].phase = "failed"

Requests ==
    /\ \A c \in Conn : conn[c].requests # << >> => RequestOK(conn[c], c, conn[c].requests[1])
    /\ \A c, d \in Conn :
          /\ conn[c].requests # << >> /\ conn[d].requests # << >>
          /\ ~conn[c].client /\ ~conn[d].client
          /\ conn[c].requests[1] = conn[d].requests[1]
          => c = d

Replies ==
    \A c \in Conn : conn[c].replies # << >> =>
        /\ Len(conn[c].replies) = 1
        /\ conn[c].requests = << >> /\ conn[c].client
        /\ rpc[conn[c].replies[1].to].conn = c
        /\ conn[c].replies[1].status = 200 => Len(received[conn[c].replies[1].to]) > 0

IInv == Types /\ WatchTypes /\ Calls /\ Holding /\ Idling /\ Requests /\ Replies

LEMMA Constants == MaxRpc \in Nat /\ MaxConn \in Nat /\ MaxIdle \in Nat /\ NoAddr \notin Addr
                   /\ Rpc \subseteq Nat /\ Conn \subseteq Nat /\ None \notin Rpc /\ None \notin Conn
BY TransportBounds DEF Rpc, Conn, None

LEMMA InitInv == Init => IInv
<1> SUFFICES ASSUME Init PROVE IInv
  OBVIOUS
<1> USE Constants
<1>1. Types
  BY Configured DEF Init, Types, NewCall, NoConn, CallRec, ConnRec, Phase, None
<1>2. WatchTypes
  BY Configured, Zenon DEF Init, WatchTypes, View, Book
<1>3. Calls
  BY DEF Init, Calls, CallOK, NewCall
<1>4. Holding /\ Idling /\ Requests /\ Replies
  BY DEF Init, Holding, Idling, Requests, Replies, NewCall, NoConn
<1> QED BY <1>1, <1>2, <1>3, <1>4 DEF IInv

\* The steps that leave calls and connections alone.
LEMMA WatchInv ==
    ASSUME IInv, Publish \/ BorrowAndUpdate
    PROVE  IInv'
<1>1. UNCHANGED <<peers, rpc, conn, pool, received>>
  BY Zenon DEF Publish, BorrowAndUpdate, rpcVars
<1>2. WatchTypes'
  <2>1. WatchTypes
    BY DEF IInv
  <2>2. CASE Publish
    BY <2>1, <2>2 DEF WatchTypes, Publish
  <2>3. CASE BorrowAndUpdate
    BY <2>1, <2>3, Zenon DEF WatchTypes, BorrowAndUpdate
  <2> QED BY <2>2, <2>3
<1>3. Types' /\ Calls'
  BY <1>1, Zenon DEF IInv, Types, Calls
<1>4. Holding'
  BY <1>1, Zenon DEF IInv, Holding
<1>5. Idling'
  BY <1>1 DEF IInv, Idling, IdleOK
<1>6. Requests'
  BY <1>1, Zenon DEF IInv, Requests, RequestOK
<1>7. Replies'
  BY <1>1, Zenon DEF IInv, Replies
<1> QED BY <1>2, <1>3, <1>4, <1>5, <1>6, <1>7, Zenon DEF IInv

\* No trace of r on a connection other than c.
Elsewhere(r, c) ==
    \A d \in Conn : d # c =>
        /\ conn[d].requests # << >> => conn[d].requests[1] # r
        /\ conn[d].replies # << >> => conn[d].replies[1].to # r

\* What one step may make of call r and connection c: x, k, and w received.
StepOK(x, w, k, r, c) ==
    /\ x \in CallRec /\ k \in ConnRec /\ w \in Seq(Addr \cup {NoAddr})
    /\ CallOK(x, w, r)
    /\ x.conn \in {None, c}
    /\ x.phase = "waiting" => k.client /\ k.addr = x.addr
    /\ k.requests # << >> =>
          /\ Len(k.requests) = 1 /\ k.server /\ k.requests[1] = r /\ k.addr = x.addr
          /\ Len(w) <= 1 /\ (x.pooled => Len(w) = 0)
          /\ k.client => x.conn = c /\ k.replies = << >>
          /\ ~k.client => x.phase = "failed"
    /\ k.replies # << >> =>
          /\ Len(k.replies) = 1 /\ k.replies[1].to = r /\ k.requests = << >>
          /\ k.client /\ x.conn = c
          /\ k.replies[1].status = 200 => Len(w) > 0

\* A pool holds what it held before, and c if that is idle after the step.
PoolTo(x, k, c) ==
    /\ pool' \in [Addr -> Seq(Conn)]
    /\ \A a \in Addr : Len(pool'[a]) <= MaxIdle
    /\ \A a \in Addr : \A i, j \in 1 .. Len(pool'[a]) : pool'[a][i] = pool'[a][j] => i = j
    /\ \A a \in Addr : \A i \in 1 .. Len(pool'[a]) :
          IF pool'[a][i] = c
          THEN k.client /\ k.addr = a /\ k.requests = << >> /\ k.replies = << >> /\ x.conn = None
          ELSE \E j \in 1 .. Len(pool[a]) : pool[a][j] = pool'[a][i]

LEMMA SamePool ==
    ASSUME IInv, NEW x, NEW k, NEW c, UNCHANGED pool,
           \A a \in Addr : \A i \in 1 .. Len(pool[a]) : pool[a][i] # c
    PROVE  PoolTo(x, k, c)
<1>1. pool \in [Addr -> Seq(Conn)] /\ Idling /\ pool' = pool
  BY Zenon DEF IInv, Types
<1> QED BY <1>1, Zenon DEF PoolTo, Idling

\* The step; no call but r holds c.
StepTo(x, w, k, r, c) ==
    /\ rpc' = [rpc EXCEPT ![r] = x]
    /\ conn' = [conn EXCEPT ![c] = k]
    /\ received' = [received EXCEPT ![r] = w]
    /\ UNCHANGED peers /\ UNCHANGED watchVars
    /\ PoolTo(x, k, c)
    /\ Elsewhere(r, c)
    /\ \A q \in Rpc : q # r => rpc[q].conn # c

LEMMA Step ==
    ASSUME IInv, NEW r \in Rpc, NEW c \in Conn, NEW x, NEW k, NEW w,
           StepOK(x, w, k, r, c), StepTo(x, w, k, r, c)
    PROVE  IInv'
<1> USE Constants
<1>0. /\ rpc' = [rpc EXCEPT ![r] = x] /\ conn' = [conn EXCEPT ![c] = k]
      /\ received' = [received EXCEPT ![r] = w]
      /\ UNCHANGED peers /\ UNCHANGED watchVars
      /\ PoolTo(x, k, c)
      /\ Elsewhere(r, c)
      /\ \A q \in Rpc : q # r => rpc[q].conn # c
  BY Zenon DEF StepTo
<1> USE <1>0
<1>1. Types
  BY Zenon DEF IInv
<1>2. Types'
  BY <1>1, Zenon DEF Types, StepOK, PoolTo
<1>3. WatchTypes'
  BY Zenon DEF IInv, WatchTypes, watchVars
<1>4. /\ rpc'[r] = x /\ \A q \in Rpc : q # r => rpc'[q] = rpc[q]
      /\ received'[r] = w /\ \A q \in Rpc : q # r => received'[q] = received[q]
      /\ conn'[c] = k /\ \A d \in Conn : d # c => conn'[d] = conn[d]
  BY <1>1, Zenon DEF Types
<1>5. Calls'
  BY <1>4 DEF IInv, Calls, StepOK
<1>6. Holding'
  <2>1. ASSUME NEW q \in Rpc, rpc'[q].phase = "waiting"
        PROVE  conn'[rpc'[q].conn].client /\ conn'[rpc'[q].conn].addr = rpc'[q].addr
    <3>1. CASE q = r
      <4>1. rpc'[q] = x /\ x.conn = c
        BY <1>4, <2>1, <3>1, Zenon DEF StepOK, CallOK
      <4>2. k.client /\ k.addr = x.addr
        BY <2>1, <4>1, Zenon DEF StepOK
      <4>3. conn'[c] = k
        BY <1>4, Zenon
      <4> QED BY ONLY <4>1, <4>2, <4>3, Zenon
    <3>2. CASE q # r
      <4>1. rpc'[q] = rpc[q] /\ rpc[q].conn \in Conn /\ rpc[q].conn # c
        BY <1>4, <2>1, <3>2, Zenon DEF IInv, Calls, CallOK
      <4>2. conn'[rpc[q].conn] = conn[rpc[q].conn]
        BY <1>4, <4>1, Zenon
      <4>3. conn[rpc[q].conn].client /\ conn[rpc[q].conn].addr = rpc[q].addr
        BY <2>1, <4>1, Zenon DEF IInv, Holding
      <4> QED BY <4>1, <4>2, <4>3, Zenon
    <3> QED BY <3>1, <3>2, Zenon
  <2>2. ASSUME NEW p \in Rpc, NEW q \in Rpc, rpc'[p].conn = rpc'[q].conn
        PROVE  p = q \/ rpc'[p].conn = None
    <3>1. x.conn = None \/ x.conn = c
      BY Zenon DEF StepOK
    <3>2. CASE p # r /\ q # r
      <4>1. rpc'[p] = rpc[p] /\ rpc'[q] = rpc[q]
        BY <1>4, <3>2, Zenon
      <4> QED BY <2>2, <4>1, Zenon DEF IInv, Holding
    <3>3. CASE p = r /\ q # r
      <4>1. rpc'[p] = x /\ rpc'[q] = rpc[q] /\ rpc[q].conn # c
        BY <1>4, <3>3, Zenon
      <4> QED BY ONLY <2>2, <3>1, <4>1, Zenon
    <3>4. CASE p # r /\ q = r
      <4>1. rpc'[q] = x /\ rpc'[p] = rpc[p] /\ rpc[p].conn # c
        BY <1>4, <3>4, Zenon
      <4> QED BY ONLY <2>2, <3>1, <4>1, Zenon
    <3> QED BY ONLY <3>2, <3>3, <3>4, Zenon
  <2> QED BY <2>1, <2>2, Zenon DEF Holding
<1>7. Idling'
  <2>1. ASSUME NEW a \in Addr, NEW i \in 1 .. Len(pool'[a])
        PROVE  IdleOK(pool[a][i], a)'
    <3> DEFINE d == pool'[a][i]
    <3>1. CASE d = c
      BY <1>4, <3>1 DEF PoolTo, IdleOK
    <3>2. CASE d # c
      <4>1. PICK j \in 1 .. Len(pool[a]) : pool[a][j] = d
        BY <3>2, Zenon DEF PoolTo
      <4>2. d \in Conn /\ IdleOK(d, a)
        BY <1>1, <4>1 DEF IInv, Idling, Types
      <4>3. conn'[d] = conn[d]
        BY <1>4, <3>2, <4>2, Zenon
      <4>4. ASSUME NEW q \in Rpc PROVE rpc'[q].conn # d
        BY <1>4, <3>2, <4>2 DEF IdleOK, StepOK
      <4> HIDE DEF d
      <4> QED BY <4>2, <4>3, <4>4, Zenon DEF IdleOK, d
    <3> QED BY <3>1, <3>2, Zenon
  <2> QED BY <2>1, Zenon DEF Idling, PoolTo
<1>8. Requests'
  <2>1. ASSUME NEW d \in Conn, conn'[d].requests # << >>
        PROVE  RequestOK(conn[d], d, conn[d].requests[1])'
    <3>1. CASE d = c
      BY <1>4, <2>1, <3>1 DEF RequestOK, StepOK
    <3>2. CASE d # c
      <4> DEFINE q == conn[d].requests[1]
      <4>1. conn'[d] = conn[d] /\ q \in Rpc /\ q # r /\ RequestOK(conn[d], d, q)
        <5>1. conn'[d] = conn[d]
          BY <1>4, <3>2, Zenon
        <5>2. RequestOK(conn[d], d, q)
          BY <2>1, <5>1, Zenon DEF IInv, Requests
        <5>3. q \in Rpc
          BY <1>1, <5>2 DEF Types, ConnRec, RequestOK
        <5>4. q # r
          BY <2>1, <3>2, <5>1, Zenon DEF Elsewhere
        <5> QED BY <5>1, <5>2, <5>3, <5>4, Zenon
      <4>2. rpc'[q] = rpc[q] /\ received'[q] = received[q]
        BY <1>4, <4>1, Zenon
      <4> QED BY <4>1, <4>2, Zenon DEF RequestOK
    <3> QED BY <3>1, <3>2, Zenon
  <2>2. ASSUME NEW d \in Conn, NEW e \in Conn,
               conn'[d].requests # << >>, conn'[e].requests # << >>,
               ~conn'[d].client, ~conn'[e].client,
               conn'[d].requests[1] = conn'[e].requests[1]
        PROVE  d = e
    <3>1. CASE d # c /\ e # c
      <4>1. conn'[d] = conn[d] /\ conn'[e] = conn[e]
        BY <1>4, <3>1, Zenon
      <4> QED BY <2>2, <4>1, Zenon DEF IInv, Requests
    <3>2. ASSUME NEW f \in Conn, f # c, conn'[f].requests # << >>, k.requests # << >>,
                 conn'[f].requests[1] = k.requests[1]
          PROVE  FALSE
      <4>1. conn'[f] = conn[f] /\ k.requests[1] = r
        BY <1>4, <3>2, Zenon DEF StepOK
      <4> QED BY <3>2, <4>1, Zenon DEF Elsewhere
    <3> QED BY <1>4, <2>2, <3>1, <3>2
  <2> QED BY <2>1, <2>2, Zenon DEF Requests
<1>9. Replies'
  <2> SUFFICES ASSUME NEW d \in Conn, conn'[d].replies # << >>
               PROVE  /\ Len(conn'[d].replies) = 1
                      /\ conn'[d].requests = << >> /\ conn'[d].client
                      /\ rpc'[conn'[d].replies[1].to].conn = d
                      /\ conn'[d].replies[1].status = 200
                            => Len(received'[conn'[d].replies[1].to]) > 0
    BY Zenon DEF Replies
  <2>1. CASE d = c
    <3>1. conn'[d] = k /\ k.replies # << >> /\ rpc'[r] = x /\ received'[r] = w
      BY <1>4, <2>1, Zenon
    <3>2. /\ Len(k.replies) = 1 /\ k.replies[1].to = r /\ k.requests = << >>
          /\ k.client /\ x.conn = c
          /\ k.replies[1].status = 200 => Len(w) > 0
      BY <3>1, Zenon DEF StepOK
    <3> QED BY ONLY <2>1, <3>1, <3>2, Zenon
  <2>2. CASE d # c
    <3> DEFINE q == conn[d].replies[1].to
    <3>1. conn'[d] = conn[d] /\ conn[d].replies # << >> /\ q # r
      BY <1>4, <2>2 DEF Elsewhere
    <3>2. q \in Rpc
      <4>1. Len(conn[d].replies) = 1 /\ conn[d].replies \in Seq(ReplyRec)
        BY <1>1, <3>1, Zenon DEF IInv, Replies, Types, ConnRec
      <4>2. conn[d].replies[1] \in ReplyRec
        BY <4>1
      <4> QED BY <4>2, Zenon DEF ReplyRec
    <3>3. rpc'[q] = rpc[q] /\ received'[q] = received[q]
      BY <1>4, <3>1, <3>2, Zenon
    <3>4. /\ Len(conn[d].replies) = 1 /\ conn[d].requests = << >> /\ conn[d].client
          /\ rpc[q].conn = d
          /\ conn[d].replies[1].status = 200 => Len(received[q]) > 0
      BY <3>1, Zenon DEF IInv, Replies
    <3> HIDE DEF q
    <3> QED BY <3>1, <3>3, <3>4 DEF q
  <2> QED BY <2>1, <2>2, Zenon
<1> QED BY <1>2, <1>3, <1>5, <1>6, <1>7, <1>8, <1>9, Zenon DEF IInv

\* Where a call may have left a trace.
LEMMA Traces ==
    ASSUME IInv, NEW r \in Rpc
    PROVE  /\ rpc[r].phase = "waiting" => Elsewhere(r, rpc[r].conn)
           /\ rpc[r].phase \notin {"waiting", "failed"} => Elsewhere(r, None)
           /\ \A c \in Conn : conn[c].requests # << >> /\ conn[c].requests[1] = r
                                => Elsewhere(r, c)
<1> USE Constants
<1>1. ASSUME NEW d \in Conn, conn[d].requests # << >>, conn[d].requests[1] = r
      PROVE  IF conn[d].client THEN rpc[r].conn = d ELSE rpc[r].phase = "failed"
  BY <1>1, Zenon DEF IInv, Requests, RequestOK
<1>2. ASSUME NEW d \in Conn, conn[d].replies # << >>, conn[d].replies[1].to = r
      PROVE  rpc[r].conn = d
  BY <1>2, Zenon DEF IInv, Replies
<1>3. rpc[r].phase # "waiting" => rpc[r].conn = None
  BY Zenon DEF IInv, Calls, CallOK
<1>4. rpc[r].phase = "waiting" => Elsewhere(r, rpc[r].conn)
  BY <1>1, <1>2, Zenon DEF Elsewhere
<1>5. rpc[r].phase \notin {"waiting", "failed"} => Elsewhere(r, None)
  BY <1>1, <1>2, <1>3, Zenon DEF Elsewhere
<1>6. ASSUME NEW c \in Conn, conn[c].requests # << >>, conn[c].requests[1] = r
      PROVE  Elsewhere(r, c)
  <2>1. CASE conn[c].client
    BY <1>1, <1>3, <1>4, <1>6, <2>1, Zenon
  <2>2. CASE ~conn[c].client
    <3>1. rpc[r].phase = "failed" /\ rpc[r].conn = None
      BY <1>1, <1>3, <1>6, <2>2, Zenon
    <3>2. ASSUME NEW d \in Conn, conn[d].requests # << >>, conn[d].requests[1] = r
          PROVE  d = c
      <4>1. ~conn[d].client
        BY <1>1, <3>1, <3>2, Zenon
      <4> QED BY <1>6, <2>2, <3>2, <4>1, Zenon DEF IInv, Requests
    <3> QED BY <1>2, <3>1, <3>2, Zenon DEF Elsewhere
  <2> QED BY <2>1, <2>2, Zenon
<1> QED BY <1>4, <1>5, <1>6, Zenon

\* A step of a call that has no connection, and gets none.
LEMMA CallStep ==
    ASSUME IInv, NEW r \in Rpc, NEW x \in CallRec,
           rpc' = [rpc EXCEPT ![r] = x], CallOK(x, received[r], r), x.conn = None,
           rpc[r].phase \notin {"waiting", "failed"}, x.phase # "waiting",
           UNCHANGED <<peers, pool, conn, received>>, UNCHANGED watchVars
    PROVE  IInv'
<1> USE Constants
<1>1. Types
  BY Zenon DEF IInv
<1>2. Types' /\ WatchTypes'
  BY <1>1, Zenon DEF IInv, Types, WatchTypes, watchVars
<1>3. /\ rpc'[r] = x /\ \A q \in Rpc : q # r => rpc'[q] = rpc[q]
      /\ pool' = pool /\ conn' = conn /\ received' = received
  BY <1>1, Zenon DEF Types
<1>4. Calls'
  BY <1>3, Zenon DEF IInv, Calls
<1>5. Holding'
  BY <1>3 DEF IInv, Holding
<1>6. Idling'
  <2>1. ASSUME NEW a \in Addr, NEW i \in 1 .. Len(pool[a])
        PROVE  IdleOK(pool[a][i], a)'
    <3>1. pool[a][i] \in Conn /\ IdleOK(pool[a][i], a)
      BY <1>1 DEF IInv, Idling, Types
    <3> QED BY <1>3, <3>1 DEF IdleOK
  <2> QED BY <1>3, <2>1, Zenon DEF IInv, Idling
<1>7. Elsewhere(r, None)
  BY Traces, Zenon
<1>8. Requests'
  <2>1. ASSUME NEW d \in Conn, conn[d].requests # << >>
        PROVE  RequestOK(conn[d], d, conn[d].requests[1])'
    <3> DEFINE q == conn[d].requests[1]
    <3>1. q \in Rpc /\ q # r /\ RequestOK(conn[d], d, q)
      <4>1. RequestOK(conn[d], d, q)
        BY <2>1, Zenon DEF IInv, Requests
      <4>2. q \in Rpc
        <5>1. conn[d] \in ConnRec /\ Len(conn[d].requests) = 1
          BY <1>1, <4>1, Zenon DEF Types, RequestOK
        <5>2. conn[d].requests \in Seq(Rpc)
          BY <5>1, Zenon DEF ConnRec
        <5> QED BY ONLY <5>1, <5>2
      <4>3. q # r
        BY <1>7, <2>1, Zenon DEF Elsewhere
      <4> QED BY <4>1, <4>2, <4>3, Zenon
    <3>2. rpc'[q] = rpc[q]
      BY <1>3, <3>1, Zenon
    <3> QED BY <1>3, <3>1, <3>2 DEF RequestOK
  <2> QED BY <1>3, <2>1, Zenon DEF IInv, Requests
<1>9. Replies'
  <2> SUFFICES ASSUME NEW d \in Conn, conn'[d].replies # << >>
               PROVE  /\ Len(conn'[d].replies) = 1
                      /\ conn'[d].requests = << >> /\ conn'[d].client
                      /\ rpc'[conn'[d].replies[1].to].conn = d
                      /\ conn'[d].replies[1].status = 200
                            => Len(received'[conn'[d].replies[1].to]) > 0
    BY Zenon DEF Replies
  <2>1. conn'[d] = conn[d] /\ received' = received /\ conn[d].replies # << >>
    BY <1>3, Zenon
  <2>2. Len(conn[d].replies) = 1 /\ conn[d].replies \in Seq(ReplyRec)
    BY <1>1, <2>1, Zenon DEF IInv, Replies, Types, ConnRec
  <2>3. conn[d].replies[1] \in ReplyRec
    BY ONLY <2>2
  <2>4. PICK q : q = conn[d].replies[1].to
    BY Zenon
  <2>5. q \in Rpc /\ q # r
    BY <1>7, <2>1, <2>3, <2>4, Zenon DEF ReplyRec, Elsewhere
  <2>6. rpc'[q] = rpc[q]
    BY <1>3, <2>5, Zenon
  <2>7. /\ conn[d].requests = << >> /\ conn[d].client /\ rpc[q].conn = d
        /\ conn[d].replies[1].status = 200 => Len(received[q]) > 0
    BY <2>1, <2>4, Zenon DEF IInv, Replies
  <2> QED BY ONLY <2>1, <2>2, <2>4, <2>6, <2>7, Zenon
<1> QED BY <1>2, <1>4, <1>5, <1>6, <1>8, <1>9, Zenon DEF IInv

\* Resolve, NothingIdle, ConnectFails: the call alone.
LEMMA CallActions ==
    ASSUME IInv, NEW r \in Rpc, Resolve(r) \/ NothingIdle(r) \/ ConnectFails(r)
    PROVE  IInv'
<1> USE Constants
<1>1. /\ rpc \in [Rpc -> CallRec] /\ peers \in Book
      /\ rpc[r] \in CallRec /\ CallOK(rpc[r], received[r], r)
      /\ received[r] \in Seq(Addr \cup {NoAddr})
  BY Zenon DEF IInv, Types, Calls
<1>2. ASSUME NEW x, rpc' = [rpc EXCEPT ![r] = x], x \in CallRec,
             CallOK(x, received[r], r), x.phase # "waiting",
             rpc[r].phase \notin {"waiting", "failed"},
             UNCHANGED <<peers, pool, conn, received>>, UNCHANGED watchVars
      PROVE  IInv'
  BY <1>2, CallStep, Zenon DEF CallOK
<1>3. CASE Resolve(r)
  <2> PICK p \in Peer :
          rpc' = [rpc EXCEPT ![r].to = p, ![r].addr = peers[p],
                             ![r].phase = IF peers[p] = NoAddr THEN "failed" ELSE "resolved"]
    BY <1>3, Zenon DEF Resolve
  <2> DEFINE x == [rpc[r] EXCEPT !.to = p, !.addr = peers[p],
                                 !.phase = IF peers[p] = NoAddr THEN "failed" ELSE "resolved"]
  <2>1. x \in CallRec /\ rpc' = [rpc EXCEPT ![r] = x]
    BY <1>1, Zenon DEF CallRec, Book, Phase
  <2>2. CallOK(x, received[r], r)
    <3>1. /\ x.phase \in {"failed", "resolved"} /\ x.conn = rpc[r].conn
          /\ x.pooled = rpc[r].pooled /\ x.addr = peers[p]
          /\ x.phase = "resolved" => peers[p] \in Addr
      BY <1>1, Zenon DEF CallRec, Book
    <3>2. rpc[r].phase = "new"
      BY <1>3, Zenon DEF Resolve
    <3> HIDE DEF x
    <3> QED BY <1>1, <3>1, <3>2 DEF CallOK
  <2>3. x.phase # "waiting" /\ rpc[r].phase \notin {"waiting", "failed"}
    BY <1>1, <1>3, Zenon DEF Resolve, CallRec
  <2> HIDE DEF x
  <2> QED BY <1>2, <1>3, <2>1, <2>2, <2>3, Zenon DEF Resolve
<1>4. CASE NothingIdle(r)
  <2> DEFINE x == [rpc[r] EXCEPT !.phase = "connecting"]
  <2>1. x \in CallRec /\ rpc' = [rpc EXCEPT ![r] = x]
    BY <1>1, <1>4, Zenon DEF CallRec, Phase, NothingIdle
  <2>2. CallOK(x, received[r], r)
    BY <1>1, <1>4 DEF CallOK, NothingIdle, CallRec
  <2>3. x.phase # "waiting" /\ rpc[r].phase \notin {"waiting", "failed"}
    BY <1>1, <1>4, Zenon DEF NothingIdle, CallRec
  <2> HIDE DEF x
  <2> QED BY <1>2, <1>4, <2>1, <2>2, <2>3, Zenon DEF NothingIdle
<1>5. CASE ConnectFails(r)
  <2> DEFINE x == [rpc[r] EXCEPT !.phase = "failed"]
  <2>1. x \in CallRec /\ rpc' = [rpc EXCEPT ![r] = x]
    BY <1>1, <1>5, Zenon DEF CallRec, Phase, ConnectFails
  <2>2. CallOK(x, received[r], r)
    BY <1>1, <1>5, Zenon DEF CallOK, ConnectFails, CallRec
  <2>3. x.phase # "waiting" /\ rpc[r].phase \notin {"waiting", "failed"}
    BY <1>1, <1>5, Zenon DEF ConnectFails, CallRec
  <2> HIDE DEF x
  <2> QED BY <1>2, <1>5, <2>1, <2>2, <2>3, Zenon DEF ConnectFails
<1> QED BY <1>3, <1>4, <1>5

LEMMA Drops ==
    ASSUME NEW k \in ConnRec
    PROVE  LET d == Dropped(k) IN
           /\ d \in ConnRec /\ d.replies = << >> /\ d.requests = k.requests /\ ~d.client
           /\ d.requests # << >> => d.addr = k.addr /\ d.server = k.server
<1> DEFINE e == [k EXCEPT !.client = FALSE, !.replies = << >>]
<1>1a. e \in ConnRec
  <2>1. << >> \in Seq(ReplyRec)
    OBVIOUS
  <2>2. ASSUME NEW b \in Seq(ReplyRec) PROVE [k EXCEPT !.client = FALSE, !.replies = b] \in ConnRec
    BY Zenon DEF ConnRec
  <2> QED BY <2>1, <2>2, Zenon
<1>1b. e.requests = k.requests /\ e.addr = k.addr /\ e.server = k.server
  BY DEF ConnRec
<1>1c. e.replies = << >>
  BY DEF ConnRec
<1>1d. ~e.client
  BY DEF ConnRec
<1>1. /\ e \in ConnRec /\ e.replies = << >> /\ e.requests = k.requests /\ ~e.client
      /\ e.addr = k.addr /\ e.server = k.server
  BY <1>1a, <1>1b, <1>1c, <1>1d
<1>2. NoConn \in ConnRec /\ NoConn.replies = << >> /\ NoConn.requests = << >> /\ ~NoConn.client
  BY DEF NoConn, ConnRec
<1>3. Dropped(k) = Lingering(e)
  BY DEF Dropped
<1> HIDE DEF e
<1> QED BY <1>1, <1>2, <1>3, Zenon DEF Lingering

\* A call that leaves its connection, and drops it.
LEMMA DropStep ==
    ASSUME IInv, NEW r \in Rpc, NEW phase \in {"connecting", "answered", "failed"},
           NEW answer \in Nat, rpc[r].phase = "waiting", Leaves(r, phase, answer),
           conn' = Without({rpc[r].conn}),
           UNCHANGED <<peers, pool, received>>, UNCHANGED watchVars,
           phase = "answered" => answer = r /\ Len(received[r]) > 0,
           phase = "connecting" => rpc[r].pooled,
           conn[rpc[r].conn].requests # << >> => phase = "failed"
    PROVE  IInv'
<1> USE Constants
<1> DEFINE c == rpc[r].conn
           x == [rpc[r] EXCEPT !.phase = phase, !.answer = answer,
                               !.conn = None, !.pooled = FALSE]
<1>1. /\ rpc \in [Rpc -> CallRec] /\ conn \in [Conn -> ConnRec]
      /\ rpc[r] \in CallRec /\ CallOK(rpc[r], received[r], r)
      /\ received \in [Rpc -> Seq(Addr \cup {NoAddr})]
  BY Zenon DEF IInv, Types, Calls
<1>2. c \in Conn /\ conn[c] \in ConnRec /\ conn[c].client /\ conn[c].addr = rpc[r].addr
  BY <1>1, Zenon DEF CallOK, IInv, Holding
<1> DEFINE k == Dropped(conn[c])
<1>3. /\ k \in ConnRec /\ k.replies = << >> /\ k.requests = conn[c].requests /\ ~k.client
      /\ k.requests # << >> => k.addr = conn[c].addr /\ k.server = conn[c].server
  BY <1>2, Drops, Zenon
<1>4. rpc' = [rpc EXCEPT ![r] = x] /\ x \in CallRec
  BY <1>1, Zenon DEF Leaves, CallRec, Phase
<1>5. x.phase = phase /\ x.conn = None /\ ~x.pooled /\ x.addr = rpc[r].addr /\ x.answer = answer
  BY <1>1, Zenon DEF CallRec
<1>6. conn' = [conn EXCEPT ![c] = k]
  BY <1>1, <1>2, Zenon DEF Without
<1>7. received' = [received EXCEPT ![r] = received[r]]
  BY <1>1, Zenon
<1>8. CallOK(x, received[r], r)
  BY <1>1, <1>5, Zenon DEF CallOK
<1>9. conn[c].requests # << >> =>
        /\ Len(conn[c].requests) = 1 /\ conn[c].requests[1] = r /\ conn[c].server
        /\ Len(received[r]) <= 1
  <2>1. ASSUME conn[c].requests # << >> PROVE conn[c].requests[1] = r
    <3>1. rpc[conn[c].requests[1]].conn = c /\ Len(conn[c].requests) = 1
      BY <1>2, <2>1, Zenon DEF IInv, Requests, RequestOK
    <3>2. conn[c].requests[1] \in Rpc
      BY <1>2, <3>1 DEF ConnRec
    <3> QED BY <1>2, <3>1, <3>2, Zenon DEF IInv, Holding
  <2> QED BY <1>2, <2>1, Zenon DEF IInv, Requests, RequestOK
<1>10. Elsewhere(r, c)
  BY Traces, Zenon
<1>11. \A q \in Rpc : q # r => rpc[q].conn # c
  BY <1>2, Zenon DEF IInv, Holding
<1>12. \A a \in Addr : \A i \in 1 .. Len(pool[a]) : pool[a][i] # c
  BY DEF IInv, Idling, IdleOK
<1> HIDE DEF c, k, x
<1>13. StepOK(x, received[r], k, r, c)
  BY <1>1, <1>2, <1>3, <1>4, <1>5, <1>8, <1>9, Zenon DEF StepOK, c
<1>14. StepTo(x, received[r], k, r, c)
  <2>1. PoolTo(x, k, c)
    BY <1>12, SamePool, Zenon
  <2> QED BY <1>4, <1>6, <1>7, <1>10, <1>11, <2>1, Zenon DEF StepTo
<1> QED BY <1>2, <1>13, <1>14, Step, Zenon

\* What a waiting call finds on its connection.
WaitsOn(r, c) ==
    /\ c \in Conn /\ conn[c] \in ConnRec /\ conn[c].client
    /\ rpc[r] \in CallRec /\ rpc[r].addr \in Addr /\ conn[c].addr = rpc[r].addr
    /\ \A q \in Rpc : q # r => rpc[q].conn # c
    /\ \A a \in Addr : \A i \in 1 .. Len(pool[a]) : pool[a][i] # c
    /\ ~conn[c].server => conn[c].requests = << >>
    /\ conn[c].replies # << >> =>
          /\ Len(conn[c].replies) = 1 /\ conn[c].requests = << >>
          /\ conn[c].replies[1] \in ReplyRec /\ conn[c].replies[1].to = r
          /\ conn[c].replies[1].status = 200 => Len(received[r]) > 0

LEMMA Waiting ==
    ASSUME IInv, NEW r \in Rpc, rpc[r].phase = "waiting"
    PROVE  WaitsOn(r, rpc[r].conn)
<1> USE Constants
<1> DEFINE c == rpc[r].conn
<1>1. rpc[r] \in CallRec /\ CallOK(rpc[r], received[r], r)
  BY Zenon DEF IInv, Types, Calls
<1>2. c \in Conn /\ conn[c].client /\ conn[c].addr = rpc[r].addr /\ rpc[r].addr \in Addr
  BY <1>1, Zenon DEF CallOK, IInv, Holding
<1>3. conn[c] \in ConnRec
  BY <1>2, Zenon DEF IInv, Types
<1>4. \A q \in Rpc : q # r => rpc[q].conn # c
  BY <1>2, Zenon DEF IInv, Holding
<1>5. \A a \in Addr : \A i \in 1 .. Len(pool[a]) : pool[a][i] # c
  BY DEF IInv, Idling, IdleOK
<1>6. ~conn[c].server => conn[c].requests = << >>
  BY <1>2, Zenon DEF IInv, Requests, RequestOK
<1>7. ASSUME conn[c].replies # << >>
      PROVE  /\ Len(conn[c].replies) = 1 /\ conn[c].requests = << >>
             /\ conn[c].replies[1] \in ReplyRec /\ conn[c].replies[1].to = r
             /\ conn[c].replies[1].status = 200 => Len(received[r]) > 0
  <2>1. /\ Len(conn[c].replies) = 1 /\ conn[c].requests = << >>
        /\ rpc[conn[c].replies[1].to].conn = c
        /\ conn[c].replies[1].status = 200 => Len(received[conn[c].replies[1].to]) > 0
    BY <1>2, <1>7, Zenon DEF IInv, Replies
  <2>2. conn[c].replies[1] \in ReplyRec
    <3>1. conn[c].replies \in Seq(ReplyRec)
      BY <1>3, Zenon DEF ConnRec
    <3>2. \A q \in Seq(ReplyRec) : Len(q) = 1 => q[1] \in ReplyRec
      BY ONLY TRUE
    <3> QED BY ONLY <2>1, <3>1, <3>2, Zenon
  <2>3. conn[c].replies[1].to = r
    BY <1>4, <2>1, <2>2, Zenon DEF ReplyRec
  <2> QED BY <2>1, <2>2, <2>3, Zenon
<1> QED BY ONLY <1>1, <1>2, <1>3, <1>4, <1>5, <1>6, <1>7, Zenon DEF WaitsOn

\* The timeout, whether a connection is there yet or not.
LEMMA TimeoutInv ==
    ASSUME IInv, NEW r \in Rpc, Timeout(r)
    PROVE  IInv'
<1> USE Constants
<1>1. CASE rpc[r].phase = "waiting"
  <2>1. Leaves(r, "failed", None) /\ conn' = Without({rpc[r].conn})
        /\ UNCHANGED <<peers, pool, received>> /\ UNCHANGED watchVars
    BY Zenon DEF Timeout
  <2>2. None \in Nat
    BY DEF None
  <2> QED BY <1>1, <2>1, <2>2, DropStep, Zenon
<1>2. CASE rpc[r].phase = "connecting"
  <2> DEFINE x == [rpc[r] EXCEPT !.phase = "failed", !.answer = None,
                                 !.conn = None, !.pooled = FALSE]
  <2>1. /\ rpc[r] \in CallRec /\ CallOK(rpc[r], received[r], r)
        /\ rpc \in [Rpc -> CallRec] /\ conn \in [Conn -> ConnRec]
    BY Zenon DEF IInv, Types, Calls
  <2>2. /\ x \in CallRec /\ rpc' = [rpc EXCEPT ![r] = x]
        /\ x.phase = "failed" /\ x.conn = None /\ ~x.pooled /\ x.addr = rpc[r].addr
    <3>1. rpc' = [rpc EXCEPT ![r] = x]
      BY <2>1, Zenon DEF Timeout, Leaves
    <3>2. x \in CallRec
      BY <2>1, Zenon DEF CallRec, Phase, None
    <3> QED BY <2>1, <3>1, <3>2, Zenon DEF CallRec
  <2>3. CallOK(x, received[r], r)
    BY <1>2, <2>1, <2>2, Zenon DEF CallOK
  <2>4. conn' = conn
    <3>1. rpc[r].conn = None
      BY <1>2, <2>1, Zenon DEF CallOK
    <3> QED BY <2>1, <3>1, Zenon DEF Timeout, Without
  <2> HIDE DEF x
  <2> QED BY <1>2, <2>2, <2>3, <2>4, CallStep, Zenon DEF Timeout
<1> QED BY <1>1, <1>2, Zenon DEF Timeout

LEMMA AttemptInv ==
    ASSUME IInv, NEW r \in Rpc, rpc[r].phase = "waiting",
           conn[rpc[r].conn].requests = << >>,
           AttemptFails(r), UNCHANGED <<peers, received>>, UNCHANGED watchVars
    PROVE  IInv'
<1> DEFINE p == IF Retried(r) THEN "connecting" ELSE "failed"
<1>1. p \in {"connecting", "answered", "failed"} /\ p # "answered" /\ None \in Nat
      /\ (p = "connecting" => rpc[r].pooled)
  BY Zenon DEF Retried, None
<1>2. Leaves(r, p, None) /\ conn' = Without({rpc[r].conn})
      /\ UNCHANGED <<peers, pool, received>> /\ UNCHANGED watchVars
  BY Zenon DEF AttemptFails
<1> HIDE DEF p
<1> QED BY <1>1, <1>2, DropStep, Zenon

LEMMA ReadEofInv ==
    ASSUME IInv, NEW r \in Rpc, ReadEof(r)
    PROVE  IInv'
<1>1. /\ rpc[r].phase = "waiting" /\ ~conn[rpc[r].conn].server /\ AttemptFails(r)
      /\ UNCHANGED <<peers, received>> /\ UNCHANGED watchVars
  BY Zenon DEF ReadEof
<1>2. conn[rpc[r].conn].requests = << >>
  BY <1>1, Waiting, Zenon DEF WaitsOn
<1> QED BY <1>1, <1>2, AttemptInv, Zenon

LEMMA Pushed ==
    ASSUME NEW s \in Seq(Conn), NEW c \in Conn
    PROVE  LET t == Append(s, c) IN
           /\ t \in Seq(Conn) /\ Len(s) \in Nat /\ Len(t) = Len(s) + 1 /\ t[Len(s) + 1] = c
           /\ \A i \in 1 .. Len(s) : t[i] = s[i]
           /\ \A i \in 1 .. Len(t) : i = Len(s) + 1 \/ i \in 1 .. Len(s)
OBVIOUS

LEMMA PoolPush ==
    ASSUME IInv, NEW b \in Addr, NEW c \in Conn, NEW x, NEW k,
           Len(pool[b]) < MaxIdle,
           pool' = [pool EXCEPT ![b] = Append(pool[b], c)],
           \A a \in Addr : \A i \in 1 .. Len(pool[a]) : pool[a][i] # c,
           k.client, k.addr = b, k.requests = << >>, k.replies = << >>, x.conn = None
    PROVE  PoolTo(x, k, c)
<1> USE Constants
<1> DEFINE s == pool[b]
           t == pool'[b]
<1>1. pool \in [Addr -> Seq(Conn)] /\ Idling /\ s \in Seq(Conn)
  BY Zenon DEF IInv, Types
<1>2. t = Append(s, c) /\ \A a \in Addr : a # b => pool'[a] = pool[a]
  BY <1>1, Zenon
<1>3. /\ t \in Seq(Conn) /\ Len(s) \in Nat /\ Len(t) = Len(s) + 1 /\ t[Len(s) + 1] = c
      /\ \A i \in 1 .. Len(s) : t[i] = s[i]
      /\ \A i \in 1 .. Len(t) : i = Len(s) + 1 \/ i \in 1 .. Len(s)
  BY <1>1, <1>2, Pushed
<1>4. pool' \in [Addr -> Seq(Conn)]
  BY <1>1, <1>2, <1>3, Zenon
<1>5. ASSUME NEW a \in Addr PROVE Len(pool'[a]) <= MaxIdle
  <2>1. CASE a = b
    BY <1>3, <2>1
  <2>2. CASE a # b
    BY <1>1, <1>2, <2>2, Zenon DEF Idling
  <2> QED BY <2>1, <2>2, Zenon
<1>6. ASSUME NEW a \in Addr, NEW i \in 1 .. Len(pool'[a]), NEW j \in 1 .. Len(pool'[a]),
             pool'[a][i] = pool'[a][j]
      PROVE  i = j
  <2>1. CASE a # b
    BY <1>1, <1>2, <1>6, <2>1 DEF Idling
  <2>2. CASE a = b
    <3>1. \A m, n \in 1 .. Len(s) : s[m] = s[n] => m = n
      BY <1>1, Zenon DEF Idling
    <3>2. \A m \in 1 .. Len(s) : s[m] # c
      BY Zenon
    <3>3. i \in 1 .. Len(t) /\ j \in 1 .. Len(t) /\ t[i] = t[j]
      BY <1>6, <2>2, Zenon
    <3> HIDE DEF s, t
    <3>4. CASE i \in 1 .. Len(s) /\ j \in 1 .. Len(s)
      BY <1>3, <3>1, <3>3, <3>4, Zenon
    <3>5. CASE i = Len(s) + 1
      BY <1>3, <3>2, <3>3, <3>5, Zenon
    <3>6. CASE j = Len(s) + 1
      BY <1>3, <3>2, <3>3, <3>6, Zenon
    <3> QED BY <1>3, <3>3, <3>4, <3>5, <3>6, Zenon
  <2> QED BY <2>1, <2>2, Zenon
<1>7. ASSUME NEW a \in Addr, NEW i \in 1 .. Len(pool'[a])
      PROVE  IF pool'[a][i] = c
             THEN k.client /\ k.addr = a /\ k.requests = << >> /\ k.replies = << >> /\ x.conn = None
             ELSE \E j \in 1 .. Len(pool[a]) : pool[a][j] = pool'[a][i]
  <2>1. CASE a # b
    BY <1>2, <2>1
  <2>2. CASE a = b
    BY <1>3, <2>2
  <2> QED BY <2>1, <2>2, Zenon
<1> QED BY ONLY <1>4, <1>5, <1>6, <1>7, Zenon DEF PoolTo

ChecksIn(r) ==
    /\ rpc[r].phase = "waiting"
    /\ conn[rpc[r].conn].replies # << >> /\ conn[rpc[r].conn].replies[1].status = 200
    /\ Leaves(r, "answered", r)
    /\ HasRoom(rpc[r].addr) /\ Checkin(rpc[r].addr, rpc[r].conn)
    /\ UNCHANGED <<peers, received>> /\ UNCHANGED watchVars

LEMMA CheckinStep ==
    ASSUME IInv, NEW r \in Rpc, ChecksIn(r)
    PROVE  IInv'
<1> USE Constants DEF ChecksIn
<1>0. PICK phase \in {"answered"}, answer \in Nat : answer = r /\ Leaves(r, phase, answer)
  <2>1. r \in Nat /\ "answered" \in {"answered"}
    BY Zenon
  <2> QED BY <2>1, Zenon
<1> USE <1>0
<1> DEFINE c == rpc[r].conn
           b == rpc[r].addr
           x == [rpc[r] EXCEPT !.phase = phase, !.answer = answer,
                               !.conn = None, !.pooled = FALSE]
           k == [conn[c] EXCEPT !.replies = << >>]
<1>1. /\ rpc \in [Rpc -> CallRec] /\ conn \in [Conn -> ConnRec]
      /\ rpc[r] \in CallRec /\ CallOK(rpc[r], received[r], r)
      /\ received \in [Rpc -> Seq(Addr \cup {NoAddr})] /\ pool \in [Addr -> Seq(Conn)]
  BY DEF IInv, Types, Calls
<1>2. /\ c \in Conn /\ conn[c] \in ConnRec /\ conn[c].client
      /\ b \in Addr /\ conn[c].addr = b
      /\ \A q \in Rpc : q # r => rpc[q].conn # c
      /\ \A a \in Addr : \A i \in 1 .. Len(pool[a]) : pool[a][i] # c
      /\ Len(conn[c].replies) = 1 /\ conn[c].requests = << >> /\ Len(received[r]) > 0
  <2>1. WaitsOn(r, c)
    BY Waiting
  <2>2. conn[c].replies # << >> /\ conn[c].replies[1].status = 200
    BY Zenon
  <2> HIDE DEF c
  <2> QED BY ONLY <2>1, <2>2, Zenon DEF WaitsOn
<1>3. rpc' = [rpc EXCEPT ![r] = x]
  <2>1. rpc \in [Rpc -> CallRec] /\ r \in Rpc /\ Leaves(r, phase, answer)
    BY <1>1, Zenon
  <2> QED BY ONLY <2>1, Zenon DEF Leaves, CallRec
<1>4. x \in CallRec
  <2>1. phase \in Phase /\ None \in Conn \cup {None} /\ FALSE \in BOOLEAN
    BY Zenon DEF Phase
  <2>2. ASSUME NEW p \in Phase PROVE [rpc[r] EXCEPT !.phase = p, !.answer = answer,
                                                    !.conn = None, !.pooled = FALSE] \in CallRec
    BY <1>1, <2>1, Zenon DEF CallRec
  <2> QED BY <2>1, <2>2, Zenon
<1>5. x.phase = "answered" /\ x.conn = None /\ ~x.pooled /\ x.addr = b /\ x.answer = r
  BY <1>1, Zenon DEF CallRec
<1>6. k \in ConnRec
  <2>1. << >> \in Seq(ReplyRec)
    OBVIOUS
  <2>2. ASSUME NEW e \in Seq(ReplyRec) PROVE [conn[c] EXCEPT !.replies = e] \in ConnRec
    BY <1>2, Zenon DEF ConnRec
  <2> QED BY <2>1, <2>2, Zenon
<1>7. k.client /\ k.addr = b /\ k.requests = << >> /\ k.replies = << >>
  BY <1>2, Zenon DEF ConnRec
<1>8. conn' = [conn EXCEPT ![c] = k]
  <2>1. SubSeq(conn[c].replies, 2, Len(conn[c].replies)) = << >>
    BY <1>2 DEF ConnRec
  <2>2. conn' = [conn EXCEPT ![c].replies = SubSeq(@, 2, Len(@))]
    BY Zenon DEF Checkin
  <2> QED BY <1>1, <1>2, <2>1, <2>2, Zenon
<1>9. CallOK(x, received[r], r)
  BY <1>1, <1>2, <1>5 DEF CallOK
<1>10. Elsewhere(r, c)
  BY Traces
<1>11. received' = [received EXCEPT ![r] = received[r]]
  BY <1>1, Zenon
<1> HIDE DEF x, k
<1>12. StepOK(x, received[r], k, r, c)
  BY <1>1, <1>2, <1>4, <1>5, <1>6, <1>7, <1>9 DEF StepOK
<1>13. PoolTo(x, k, c)
  <2>1. Len(pool[b]) < MaxIdle /\ pool' = [pool EXCEPT ![b] = Append(pool[b], c)]
    BY <1>1, <1>2, Zenon DEF HasRoom, Checkin
  <2> HIDE DEF b, c
  <2> QED BY <1>2, <1>5, <1>7, <2>1, PoolPush, Zenon
<1> HIDE DEF c
<1>14. StepTo(x, received[r], k, r, c)
  BY <1>2, <1>3, <1>8, <1>10, <1>11, <1>13, Zenon DEF StepTo
<1>15. c \in Conn
  BY <1>2, Zenon
<1> QED BY ONLY IInv, r \in Rpc, <1>12, <1>14, <1>15, Step, Zenon

LEMMA ReadReplyInv ==
    ASSUME IInv, NEW r \in Rpc, ReadReply(r)
    PROVE  IInv'
<1> USE Constants
<1> DEFINE c == rpc[r].conn
           reply == conn[c].replies[1]
<1>1. /\ rpc[r].phase = "waiting" /\ conn[c].replies # << >>
      /\ UNCHANGED <<peers, received>> /\ UNCHANGED watchVars
  BY Zenon DEF ReadReply
<1>2. conn[c].requests = << >> /\ reply.to = r /\ (reply.status = 200 => Len(received[r]) > 0)
  BY <1>1, Waiting, Zenon DEF WaitsOn
<1>3. \/ reply.status # 200 /\ AttemptFails(r)
      \/ /\ reply.status = 200 /\ Leaves(r, "answered", r)
         /\ Checkin(rpc[r].addr, c) \/ (conn' = Without({c}) /\ UNCHANGED pool)
  BY <1>2, Zenon DEF ReadReply
<1>4. CASE AttemptFails(r)
  BY <1>1, <1>2, <1>4, AttemptInv, Zenon
<1>5. ASSUME reply.status = 200, Leaves(r, "answered", r), conn' = Without({c}), UNCHANGED pool
      PROVE  IInv'
  <2>1. UNCHANGED <<peers, pool, received>> /\ r \in Nat
    BY <1>1, <1>5, Zenon
  <2> QED BY <1>1, <1>2, <1>5, <2>1, DropStep
<1>6. ASSUME reply.status = 200, Leaves(r, "answered", r), Checkin(rpc[r].addr, c)
      PROVE  IInv'
  <2>1. CASE HasRoom(rpc[r].addr)
    <3>1. ChecksIn(r)
      BY <1>1, <1>6, <2>1, Zenon DEF ChecksIn
    <3> QED BY ONLY IInv, r \in Rpc, <3>1, CheckinStep
  <2>2. CASE ~HasRoom(rpc[r].addr)
    <3>1. conn' = Without({c}) /\ UNCHANGED pool
      BY <1>6, <2>2, Zenon DEF Checkin
    <3> QED BY <1>5, <1>6, <3>1, Zenon
  <2> QED BY <2>1, <2>2
<1> QED BY <1>3, <1>4, <1>5, <1>6, Zenon

LEMMA Dialled ==
    ASSUME NEW a \in Addr, NEW r \in Rpc
    PROVE  LET k == [NoConn EXCEPT !.addr = a, !.client = TRUE, !.server = TRUE,
                                   !.requests = <<r>>]
           IN  /\ k \in ConnRec /\ k.client /\ k.server /\ k.addr = a
               /\ k.requests = <<r>> /\ k.replies = << >>
<1>1. NoConn \in ConnRec /\ NoConn.replies = << >>
  BY DEF NoConn, ConnRec
<1>2. <<r>> \in Seq(Rpc)
  OBVIOUS
<1>3. ASSUME NEW e \in ConnRec, NEW q \in Seq(Rpc)
      PROVE  LET k == [e EXCEPT !.addr = a, !.client = TRUE, !.server = TRUE, !.requests = q]
             IN  /\ k \in ConnRec /\ k.client /\ k.server /\ k.addr = a
                 /\ k.requests = q /\ k.replies = e.replies
  BY Zenon DEF ConnRec
<1> QED BY <1>1, <1>2, <1>3, Zenon

LEMMA ConnectInv ==
    ASSUME IInv, NEW r \in Rpc, Connect(r)
    PROVE  IInv'
<1> USE Constants
<1>1. PICK c \in Conn :
        /\ conn[c] = NoConn
        /\ rpc' = [rpc EXCEPT ![r].phase = "waiting", ![r].conn = c, ![r].pooled = FALSE]
        /\ conn' = [conn EXCEPT ![c] = [NoConn EXCEPT !.addr = DialAddr(r), !.client = TRUE,
                                                      !.server = TRUE, !.requests = <<r>>]]
  BY Zenon DEF Connect
<1> DEFINE x == [rpc[r] EXCEPT !.phase = "waiting", !.conn = c, !.pooled = FALSE]
           k == [NoConn EXCEPT !.addr = rpc[r].addr, !.client = TRUE,
                               !.server = TRUE, !.requests = <<r>>]
<1>2. /\ rpc[r] \in CallRec /\ CallOK(rpc[r], received[r], r) /\ rpc[r].phase = "connecting"
      /\ received \in [Rpc -> Seq(Addr \cup {NoAddr})] /\ rpc \in [Rpc -> CallRec]
      /\ rpc[r].addr \in Addr /\ UNCHANGED <<peers, pool, received>> /\ UNCHANGED watchVars
  BY Zenon DEF IInv, Types, Calls, Connect, CallOK
<1>3. rpc' = [rpc EXCEPT ![r] = x]
  BY <1>1, <1>2, Zenon
<1>4. conn' = [conn EXCEPT ![c] = k]
  BY <1>1, Zenon DEF DialAddr
<1>5. x \in CallRec
  BY <1>2, Zenon DEF CallRec, Phase
<1>6. x.phase = "waiting" /\ x.conn = c /\ ~x.pooled /\ x.addr = rpc[r].addr
  BY <1>2, Zenon DEF CallRec
<1>7. /\ k \in ConnRec /\ k.client /\ k.server /\ k.addr = rpc[r].addr
      /\ k.requests = <<r>> /\ k.replies = << >>
  BY <1>2, Dialled, Zenon
<1>8. CallOK(x, received[r], r)
  BY <1>2, <1>6, Zenon DEF CallOK
<1>9. Elsewhere(r, c)
  <2>1. Elsewhere(r, None)
    BY <1>2, Traces, Zenon
  <2> QED BY <2>1, Zenon DEF Elsewhere
<1>10. ~conn[c].client
  BY <1>1 DEF NoConn
<1>11. ASSUME NEW q \in Rpc PROVE rpc[q].conn # c
  <2>1. CASE rpc[q].phase = "waiting"
    BY <1>10, <2>1, Zenon DEF IInv, Holding
  <2>2. CASE rpc[q].phase # "waiting"
    BY <2>2 DEF IInv, Calls, CallOK
  <2> QED BY <2>1, <2>2, Zenon
<1>12. \A a \in Addr : \A i \in 1 .. Len(pool[a]) : pool[a][i] # c
  BY <1>10 DEF IInv, Idling, IdleOK
<1>13. received' = [received EXCEPT ![r] = received[r]]
  BY <1>2, Zenon
<1> HIDE DEF x, k
<1>14. StepOK(x, received[r], k, r, c)
  BY <1>2, <1>5, <1>6, <1>7, <1>8 DEF StepOK, CallOK
<1>15. StepTo(x, received[r], k, r, c)
  <2>1. PoolTo(x, k, c)
    BY <1>2, <1>12, SamePool, Zenon
  <2> QED BY <1>2, <1>3, <1>4, <1>9, <1>11, <1>13, <2>1, Zenon DEF StepTo
<1> QED BY <1>14, <1>15, Step, Zenon

LEMMA Popped ==
    ASSUME NEW s \in Seq(Conn), s # << >>
    PROVE  LET t == SubSeq(s, 1, Len(s) - 1) IN
           /\ t \in Seq(Conn) /\ Len(s) \in Nat /\ Len(s) > 0 /\ Len(t) = Len(s) - 1
           /\ \A i \in 1 .. Len(t) : i \in 1 .. Len(s) /\ i # Len(s) /\ t[i] = s[i]
<1> DEFINE n == Len(s) - 1
<1>1. Len(s) \in Nat /\ Len(s) > 0 /\ n \in Nat /\ n <= Len(s)
  OBVIOUS
<1> HIDE DEF n
<1>2. Len(SubSeq(s, 1, n)) = n
  BY <1>1
<1>3. SubSeq(s, 1, n) \in Seq(Conn)
  BY <1>1
<1>4. ASSUME NEW i \in 1 .. n PROVE SubSeq(s, 1, n)[i] = s[i]
  BY <1>1, <1>2
<1> USE DEF n
<1> QED BY <1>4, <1>1, <1>2, <1>3

LEMMA PoolPop ==
    ASSUME IInv, NEW b \in Addr, NEW x, NEW k, pool[b] # << >>,
           pool' = [pool EXCEPT ![b] = SubSeq(pool[b], 1, Len(pool[b]) - 1)]
    PROVE  LET c == pool[b][Len(pool[b])] IN
           c \in Conn /\ IdleOK(c, b) /\ PoolTo(x, k, c)
<1> USE Constants
<1> DEFINE s == pool[b]
           t == pool'[b]
           c == s[Len(s)]
<1>1. pool \in [Addr -> Seq(Conn)] /\ Idling /\ s \in Seq(Conn)
  BY Zenon DEF IInv, Types
<1>2. t = SubSeq(s, 1, Len(s) - 1) /\ \A a \in Addr : a # b => pool'[a] = pool[a]
  BY <1>1, Zenon
<1>3. /\ t \in Seq(Conn) /\ Len(s) \in Nat /\ Len(s) > 0 /\ Len(t) = Len(s) - 1
      /\ \A i \in 1 .. Len(t) : i \in 1 .. Len(s) /\ i # Len(s) /\ t[i] = s[i]
  BY <1>1, <1>2, Popped
<1>4. Len(s) \in 1 .. Len(s) /\ c \in Conn /\ IdleOK(c, b)
  BY <1>1, <1>3 DEF Idling
<1>5. pool' \in [Addr -> Seq(Conn)]
  BY <1>1, <1>2, <1>3, Zenon
<1>6. ASSUME NEW a \in Addr PROVE Len(pool'[a]) <= MaxIdle
  <2>1. CASE a = b
    <3>1. Len(s) <= MaxIdle
      BY <1>1, Zenon DEF Idling
    <3> QED BY <1>3, <2>1, <3>1
  <2>2. CASE a # b
    BY <1>1, <1>2, <2>2, Zenon DEF Idling
  <2> QED BY <2>1, <2>2, Zenon
<1>7. \A m, n \in 1 .. Len(s) : s[m] = s[n] => m = n
  BY <1>1, Zenon DEF Idling
<1>8. ASSUME NEW a \in Addr, NEW i \in 1 .. Len(pool'[a]), NEW j \in 1 .. Len(pool'[a]),
             pool'[a][i] = pool'[a][j]
      PROVE  i = j
  <2>1. CASE a # b
    BY <1>1, <1>2, <1>8, <2>1, Zenon DEF Idling
  <2>2. CASE a = b
    <3>1. i \in 1 .. Len(t) /\ j \in 1 .. Len(t) /\ t[i] = t[j]
      BY <1>8, <2>2, Zenon
    <3> HIDE DEF s, t
    <3> QED BY <1>3, <1>7, <3>1, Zenon
  <2> QED BY <2>1, <2>2, Zenon
<1>9. ASSUME NEW a \in Addr, NEW i \in 1 .. Len(pool'[a])
      PROVE  /\ pool'[a][i] # c
             /\ \E j \in 1 .. Len(pool[a]) : pool[a][j] = pool'[a][i]
  <2>1. CASE a # b
    <3>1. pool'[a] = pool[a] /\ i \in 1 .. Len(pool[a])
      BY <1>2, <2>1, Zenon
    <3>2. conn[pool[a][i]].addr = a
      BY <1>1, <3>1 DEF Idling, IdleOK
    <3>3. conn[c].addr = b
      BY <1>4, Zenon DEF IdleOK
    <3> QED BY <2>1, <3>1, <3>2, <3>3, Zenon
  <2>2. CASE a = b
    <3>1. i \in 1 .. Len(t) /\ pool'[a] = t /\ pool[a] = s
      BY <2>2, Zenon
    <3>2. i \in 1 .. Len(s) /\ i # Len(s) /\ t[i] = s[i]
      BY <1>3, <3>1, Zenon
    <3>3. s[i] # s[Len(s)]
      BY <1>4, <1>7, <3>2, Zenon
    <3> QED BY <3>1, <3>2, <3>3, Zenon
  <2> QED BY <2>1, <2>2, Zenon
<1> HIDE DEF c
<1>10. PoolTo(x, k, c)
  BY <1>5, <1>6, <1>8, <1>9 DEF PoolTo
<1> QED BY <1>4, <1>10, Zenon DEF c

LEMMA Written ==
    ASSUME NEW k \in ConnRec, NEW r \in Rpc, k.requests = << >>
    PROVE  LET d == [k EXCEPT !.requests = IF k.server THEN Append(@, r) ELSE @]
           IN  /\ d \in ConnRec /\ d.client = k.client /\ d.server = k.server
               /\ d.addr = k.addr /\ d.replies = k.replies
               /\ d.requests = IF k.server THEN <<r>> ELSE << >>
<1> DEFINE q == IF k.server THEN Append(k.requests, r) ELSE k.requests
<1>1. q \in Seq(Rpc) /\ q = IF k.server THEN <<r>> ELSE << >>
  BY DEF ConnRec
<1>2. ASSUME NEW e \in Seq(Rpc)
      PROVE  LET d == [k EXCEPT !.requests = e]
             IN  /\ d \in ConnRec /\ d.client = k.client /\ d.server = k.server
                 /\ d.addr = k.addr /\ d.replies = k.replies /\ d.requests = e
  BY DEF ConnRec
<1> QED BY <1>1, <1>2, Zenon

LEMMA CheckoutInv ==
    ASSUME IInv, NEW r \in Rpc, Checkout(r)
    PROVE  IInv'
<1> USE Constants
<1> DEFINE b == rpc[r].addr
           c == pool[b][Len(pool[b])]
           x == [rpc[r] EXCEPT !.phase = "waiting", !.conn = c, !.pooled = TRUE]
           k == Write(r, c)
<1>1. /\ rpc[r] \in CallRec /\ CallOK(rpc[r], received[r], r) /\ rpc[r].phase = "resolved"
      /\ received \in [Rpc -> Seq(Addr \cup {NoAddr})] /\ rpc \in [Rpc -> CallRec]
      /\ b \in Addr /\ UNCHANGED <<peers, received>> /\ UNCHANGED watchVars
  BY Zenon DEF IInv, Types, Calls, Checkout, CallOK
<1>2. c \in Conn /\ IdleOK(c, b) /\ PoolTo(x, k, c)
  <2>1. pool[b] # << >> /\ pool' = [pool EXCEPT ![b] = SubSeq(pool[b], 1, Len(pool[b]) - 1)]
    BY Zenon DEF Checkout
  <2> HIDE DEF x, k
  <2> QED BY ONLY <1>1, <2>1, IInv, PoolPop, Zenon
<1>3. conn[c] \in ConnRec
  BY <1>2, Zenon DEF IInv, Types
<1>4. rpc' = [rpc EXCEPT ![r] = x]
  <2>1. rpc' = [rpc EXCEPT ![r].phase = "waiting", ![r].conn = c, ![r].pooled = TRUE]
    BY Zenon DEF Checkout
  <2> QED BY ONLY <1>1, <2>1, r \in Rpc, Zenon
<1>5. conn' = [conn EXCEPT ![c] = k]
  BY Zenon DEF Checkout
<1>6. /\ x \in CallRec /\ x.phase = "waiting" /\ x.conn = c /\ x.pooled /\ x.addr = b
  <2> HIDE DEF c
  <2>1. x \in CallRec
    BY <1>1, <1>2, Zenon DEF CallRec, Phase
  <2> QED BY <1>1, <2>1, Zenon DEF CallRec
<1>7. /\ k \in ConnRec /\ k.client /\ k.addr = b /\ k.replies = << >>
      /\ k.requests = IF k.server THEN <<r>> ELSE << >>
  <2>1. conn[c].requests = << >> /\ conn[c].client /\ conn[c].addr = b /\ conn[c].replies = << >>
    BY <1>2, Zenon DEF IdleOK
  <2> HIDE DEF c, b
  <2>2. /\ k \in ConnRec /\ k.client = conn[c].client /\ k.server = conn[c].server
        /\ k.addr = conn[c].addr /\ k.replies = conn[c].replies
        /\ k.requests = IF conn[c].server THEN <<r>> ELSE << >>
    BY <1>3, <2>1, Written, Zenon DEF Write
  <2> HIDE DEF k
  <2> QED BY <2>1, <2>2, Zenon
<1>8. CallOK(x, received[r], r)
  BY <1>1, <1>2, <1>6 DEF CallOK
<1>9. Elsewhere(r, c)
  <2>1. Elsewhere(r, None)
    BY <1>1, Traces, Zenon
  <2> QED BY <2>1, Zenon DEF Elsewhere
<1>10. \A q \in Rpc : rpc[q].conn # c
  BY <1>2, Zenon DEF IdleOK
<1>11. received' = [received EXCEPT ![r] = received[r]]
  BY <1>1, Zenon
<1> HIDE DEF x, k, c
<1>12. StepOK(x, received[r], k, r, c)
  BY <1>1, <1>6, <1>7, <1>8 DEF StepOK, CallOK
<1>13. StepTo(x, received[r], k, r, c)
  BY <1>1, <1>2, <1>4, <1>5, <1>9, <1>10, <1>11, Zenon DEF StepTo
<1> QED BY <1>2, <1>12, <1>13, Step, Zenon

=============================================================================

------------------------ MODULE HttpTransportProofs ------------------------
(***************************************************************************)
(* The peers' end and the watch task keep the invariant of HttpCallProofs, *)
(* and what follows from it.                                               *)
(***************************************************************************)
EXTENDS HttpCallProofs

\* What the server finds with a request on connection c.
LEMMA Busy ==
    ASSUME IInv, NEW c \in Conn, conn[c].requests # << >>
    PROVE  LET r == conn[c].requests[1] IN
           /\ r \in Rpc /\ Len(conn[c].requests) = 1 /\ RequestOK(conn[c], c, r)
           /\ conn[c] \in ConnRec /\ conn[c].replies = << >>
           /\ rpc[r] \in CallRec /\ CallOK(rpc[r], received[r], r)
           /\ received[r] \in Seq(Addr \cup {NoAddr})
           /\ rpc[r].conn \in {None, c}
           /\ rpc[r].phase = IF conn[c].client THEN "waiting" ELSE "failed"
           /\ Elsewhere(r, c)
           /\ \A q \in Rpc : q # r => rpc[q].conn # c
           /\ \A a \in Addr : \A i \in 1 .. Len(pool[a]) : pool[a][i] # c
<1> USE Constants
<1> DEFINE r == conn[c].requests[1]
<1>1. RequestOK(conn[c], c, r) /\ Len(conn[c].requests) = 1
  BY Zenon DEF IInv, Requests, RequestOK
<1>2. conn[c] \in ConnRec
  BY Zenon DEF IInv, Types
<1>3. r \in Rpc
  BY <1>1, <1>2 DEF ConnRec
<1>4. conn[c].replies = << >>
  BY Zenon DEF IInv, Replies
<1>5. /\ rpc[r] \in CallRec /\ CallOK(rpc[r], received[r], r)
      /\ received[r] \in Seq(Addr \cup {NoAddr})
  BY <1>3, Zenon DEF IInv, Types, Calls
<1>6. /\ rpc[r].phase = IF conn[c].client THEN "waiting" ELSE "failed"
      /\ rpc[r].conn = IF conn[c].client THEN c ELSE None
  <2>1. IF conn[c].client THEN rpc[r].conn = c ELSE rpc[r].phase = "failed"
    BY <1>1, Zenon DEF RequestOK
  <2> HIDE DEF r
  <2> QED BY <1>5, <2>1, Zenon DEF CallOK
<1>7. Elsewhere(r, c)
  BY <1>3, Traces, Zenon
<1>8. ASSUME NEW q \in Rpc, q # r, rpc[q].conn = c PROVE FALSE
  <2>1. CASE conn[c].client
    BY <1>3, <1>6, <1>8, <2>1, Zenon DEF IInv, Holding
  <2>2. CASE ~conn[c].client
    <3>1. rpc[q].phase = "waiting"
      BY <1>8, Zenon DEF IInv, Calls, CallOK
    <3> QED BY <1>8, <2>2, <3>1, Zenon DEF IInv, Holding
  <2> QED BY <2>1, <2>2
<1>9. \A a \in Addr : \A i \in 1 .. Len(pool[a]) : pool[a][i] # c
  BY DEF IInv, Idling, IdleOK
<1> HIDE DEF r
<1> QED BY <1>1, <1>2, <1>3, <1>4, <1>5, <1>6, <1>7, <1>8, <1>9, Zenon DEF r

\* The server takes the request off the connection, handed to a core or not.
TakenOff(k, w, r, c) ==
    /\ conn' = [conn EXCEPT ![c] = k]
    /\ k.requests = << >> /\ k.client = conn[c].client
    /\ k.client => k.addr = conn[c].addr
    /\ k.replies # << >> =>
          /\ Len(k.replies) = 1 /\ k.replies[1].to = r /\ k.client
          /\ k.replies[1].status = 200 => Len(w) > 0

Received(w, r, c) ==
    /\ conn[c].requests # << >> /\ conn[c].requests[1] = r
    /\ w \in {received[r], Append(received[r], conn[c].addr)}
    /\ received' = [received EXCEPT ![r] = w]
    /\ UNCHANGED <<peers, pool, rpc>> /\ UNCHANGED watchVars

LEMMA ServerStep ==
    ASSUME IInv, NEW c \in Conn, NEW r \in Rpc, NEW k \in ConnRec, NEW w,
           TakenOff(k, w, r, c), Received(w, r, c)
    PROVE  IInv'
<1> USE Constants DEF TakenOff, Received
<1> DEFINE x == rpc[r]
<1>1. /\ RequestOK(conn[c], c, r) /\ conn[c] \in ConnRec
      /\ x \in CallRec /\ CallOK(x, received[r], r)
      /\ received[r] \in Seq(Addr \cup {NoAddr})
      /\ x.conn \in {None, c} /\ x.phase = IF conn[c].client THEN "waiting" ELSE "failed"
      /\ Elsewhere(r, c)
      /\ \A q \in Rpc : q # r => rpc[q].conn # c
      /\ \A a \in Addr : \A i \in 1 .. Len(pool[a]) : pool[a][i] # c
  BY Busy, Zenon
<1>2. /\ conn[c].addr = x.addr /\ Len(received[r]) <= 1
      /\ (x.pooled => Len(received[r]) = 0)
  BY <1>1, Zenon DEF RequestOK
<1>3. /\ w \in Seq(Addr \cup {NoAddr}) /\ Len(w) <= 2 /\ (x.pooled => Len(w) <= 1)
      /\ \A i \in 1 .. Len(w) : w[i] = x.addr
  <2>1. conn[c].addr \in Addr \cup {NoAddr}
    BY <1>1, Zenon DEF ConnRec
  <2>2. \A i \in 1 .. Len(received[r]) : received[r][i] = x.addr
    BY <1>1, Zenon DEF CallOK
  <2> DEFINE v == received[r]
             a == conn[c].addr
  <2>3. v \in Seq(Addr \cup {NoAddr}) /\ a = x.addr /\ Len(v) <= 1 /\ (x.pooled => Len(v) = 0)
    BY <1>1, <1>2, Zenon
  <2>4. w = v \/ w = Append(v, a)
    BY Zenon
  <2> HIDE DEF v, a, x
  <2>5. CASE w = v
    BY <2>2, <2>3, <2>5 DEF v
  <2>6. CASE w = Append(v, a)
    <3>1. Len(w) = Len(v) + 1 /\ w[Len(v) + 1] = a /\ w \in Seq(Addr \cup {NoAddr})
      BY <2>1, <2>3, <2>6 DEF a
    <3>2. \A i \in 1 .. Len(v) : w[i] = v[i]
      BY <2>1, <2>3, <2>6 DEF a
    <3>3. \A i \in 1 .. Len(w) : i \in 1 .. Len(v) \/ i = Len(v) + 1
      BY <2>3, <3>1
    <3>4. ASSUME NEW i \in 1 .. Len(w) PROVE w[i] = x.addr
      <4>1. CASE i \in 1 .. Len(v)
        BY <2>2, <3>2, <4>1, Zenon DEF v
      <4>2. CASE i = Len(v) + 1
        BY <2>3, <3>1, <4>2, Zenon
      <4> QED BY <3>3, <4>1, <4>2, Zenon
    <3>5. Len(w) <= 2 /\ (x.pooled => Len(w) <= 1)
      BY ONLY <2>3, <3>1, Len(v) \in Nat
    <3> QED BY <3>1, <3>4, <3>5, Zenon
  <2> QED BY <2>4, <2>5, <2>6, Zenon
<1>4. CallOK(x, w, r)
  <2> HIDE DEF x
  <2> QED BY <1>1, <1>3, Zenon DEF CallOK
<1>5. rpc' = [rpc EXCEPT ![r] = x]
  BY Zenon DEF IInv, Types
<1>6. x.phase = "waiting" => k.client /\ k.addr = x.addr
  BY <1>1, <1>2, Zenon
<1>7. k.replies # << >> => x.conn = c
  BY <1>1, Zenon DEF RequestOK
<1> HIDE DEF x
<1>8. StepOK(x, w, k, r, c)
  BY <1>1, <1>3, <1>4, <1>6, <1>7, Zenon DEF StepOK
<1>9. PoolTo(x, k, c)
  BY <1>1, SamePool, Zenon
<1>10. StepTo(x, w, k, r, c)
  BY <1>1, <1>5, <1>9, Zenon DEF StepTo
<1> QED BY <1>8, <1>10, Step, Zenon

\* The state of the connection after a reply, and after the server closed it.
Answering(k, c, status) ==
    /\ conn' = [conn EXCEPT ![c] = k]
    /\ k.requests = << >> /\ k.client = conn[c].client
    /\ k.client => k.addr = conn[c].addr
    /\ k.replies # << >> =>
          /\ Len(k.replies) = 1 /\ k.replies[1].to = conn[c].requests[1]
          /\ k.replies[1].status = status /\ k.client

Closing(k, c) ==
    /\ conn' = [conn EXCEPT ![c] = k]
    /\ k.requests = << >> /\ k.client = conn[c].client /\ k.replies = conn[c].replies
    /\ k.client => k.addr = conn[c].addr

LEMMA AfterReply ==
    ASSUME IInv, NEW c \in Conn, conn[c].requests # << >>,
           NEW status \in Nat, NEW keep_alive \in BOOLEAN, Replied(c, status, keep_alive)
    PROVE  \E k \in ConnRec : Answering(k, c, status)
<1> USE DEF Answering
<1> DEFINE reply == [to |-> conn[c].requests[1], status |-> status, keep_alive |-> keep_alive]
           e == [conn[c] EXCEPT !.requests = Tail(@)]
           k == IF e.client THEN [e EXCEPT !.replies = Append(@, reply)] ELSE Lingering(e)
<1>1. /\ conn[c] \in ConnRec /\ Len(conn[c].requests) = 1 /\ conn[c].replies = << >>
      /\ conn[c].requests[1] \in Rpc
  BY Busy, Zenon
<1>2. reply \in ReplyRec /\ reply.to = conn[c].requests[1] /\ reply.status = status
  BY <1>1, Zenon DEF ReplyRec
<1>3. Tail(conn[c].requests) = << >> /\ << >> \in Seq(Rpc)
  <2>1. ASSUME NEW s \in Seq(Rpc), Len(s) = 1 PROVE Tail(s) = << >>
    <3>1. Tail(s) \in Seq(Rpc) /\ Len(Tail(s)) = 0
      BY ONLY <2>1, s \in Seq(Rpc)
    <3>2. ASSUME NEW t \in Seq(Rpc), Len(t) = 0 PROVE t = << >>
      BY ONLY <3>2, t \in Seq(Rpc)
    <3> QED BY <3>1, <3>2, Zenon
  <2>2. conn[c].requests \in Seq(Rpc)
    BY <1>1, Zenon DEF ConnRec
  <2> QED BY <1>1, <2>1, <2>2
<1>4. /\ e \in ConnRec /\ e.requests = << >> /\ e.client = conn[c].client
      /\ e.addr = conn[c].addr /\ e.replies = << >>
  <2>1. ASSUME NEW q \in Seq(Rpc)
        PROVE  LET d == [conn[c] EXCEPT !.requests = q]
               IN  /\ d \in ConnRec /\ d.requests = q /\ d.client = conn[c].client
                   /\ d.addr = conn[c].addr /\ d.replies = conn[c].replies
    BY <1>1, Zenon DEF ConnRec
  <2> QED BY <1>1, <1>3, <2>1, Zenon
<1>5. conn' = [conn EXCEPT ![c] = k]
  BY Zenon DEF Replied
<1> HIDE DEF e, reply
<1>6. CASE e.client
  <2>1. Append(e.replies, reply) = <<reply>> /\ <<reply>> \in Seq(ReplyRec)
    BY <1>2, <1>4
  <2>2. ASSUME NEW q \in Seq(ReplyRec)
        PROVE  LET d == [e EXCEPT !.replies = q]
               IN  /\ d \in ConnRec /\ d.requests = e.requests /\ d.client = e.client
                   /\ d.addr = e.addr /\ d.replies = q
    BY <1>4, Zenon DEF ConnRec
  <2>3. /\ k \in ConnRec /\ k.requests = e.requests /\ k.client = e.client
        /\ k.addr = e.addr /\ k.replies = <<reply>>
    BY <1>6, <2>1, <2>2, Zenon
  <2> HIDE DEF k
  <2>4. Len(<<reply>>) = 1 /\ <<reply>>[1] = reply
    OBVIOUS
  <2> QED BY <1>2, <1>4, <1>5, <1>6, <2>3, <2>4, Zenon
<1>7. CASE ~e.client
  <2>1. k = NoConn
    BY <1>4, <1>7 DEF Lingering
  <2>2. /\ NoConn \in ConnRec /\ NoConn.requests = << >> /\ NoConn.replies = << >>
        /\ NoConn.client = FALSE
    BY DEF NoConn, ConnRec
  <2>3. conn[c].client = FALSE
    BY <1>1, <1>4, <1>7, Zenon DEF ConnRec
  <2> HIDE DEF k
  <2> QED BY <1>5, <2>1, <2>2, <2>3, Zenon
<1> QED BY <1>6, <1>7, Zenon

LEMMA AfterClose ==
    ASSUME IInv, NEW c \in Conn, Closed(c)
    PROVE  \E k \in ConnRec : Closing(k, c)
<1> USE DEF Closing
<1> DEFINE e == [conn[c] EXCEPT !.server = FALSE, !.requests = << >>]
           k == Lingering(e)
<1>1. conn[c] \in ConnRec /\ << >> \in Seq(Rpc) /\ FALSE \in BOOLEAN
  BY DEF IInv, Types
<1>2. /\ e \in ConnRec /\ e.requests = << >> /\ e.client = conn[c].client
      /\ e.addr = conn[c].addr /\ e.replies = conn[c].replies
  <2>1. ASSUME NEW q \in Seq(Rpc), NEW s \in BOOLEAN
        PROVE  LET d == [conn[c] EXCEPT !.server = s, !.requests = q]
               IN  /\ d \in ConnRec /\ d.requests = q /\ d.client = conn[c].client
                   /\ d.addr = conn[c].addr /\ d.replies = conn[c].replies
    BY <1>1, Zenon DEF ConnRec
  <2> QED BY <1>1, <2>1, Zenon
<1>3. conn' = [conn EXCEPT ![c] = k]
  BY DEF Closed
<1>4. ~conn[c].client => conn[c].replies = << >>
  BY Zenon DEF IInv, Replies
<1> HIDE DEF e
<1>5. CASE e.client
  <2>1. k = e
    BY <1>5 DEF Lingering
  <2> HIDE DEF k
  <2> QED BY <1>2, <1>3, <2>1, Zenon
<1>6. CASE ~e.client
  <2>1. k = NoConn
    BY <1>2, <1>6 DEF Lingering
  <2>2. /\ NoConn \in ConnRec /\ NoConn.requests = << >> /\ NoConn.replies = << >>
        /\ NoConn.client = FALSE
    BY DEF NoConn, ConnRec
  <2>3. conn[c].client = FALSE
    BY <1>1, <1>2, <1>6, Zenon DEF ConnRec
  <2> HIDE DEF k
  <2> QED BY <1>3, <1>4, <2>1, <2>2, <2>3, Zenon
<1> QED BY <1>5, <1>6, Zenon

LEMMA HandleInv ==
    ASSUME IInv, NEW c \in Conn, Handle(c) \/ Refuse(c)
    PROVE  IInv'
<1> USE Constants
<1>1. conn[c].requests # << >> /\ UNCHANGED <<peers, pool, rpc>> /\ UNCHANGED watchVars
  BY Zenon DEF Handle, Refuse
<1>2. /\ conn[c].requests[1] \in Rpc /\ conn[c].replies = << >>
      /\ received[conn[c].requests[1]] \in Seq(Addr \cup {NoAddr})
  BY <1>1, Busy, Zenon
<1>3. PICK r \in Rpc : r = conn[c].requests[1]
  BY <1>2, Zenon
<1>4. /\ received \in [Rpc -> Seq(Addr \cup {NoAddr})]
      /\ conn[c].addr \in Addr \cup {NoAddr}
  BY Zenon DEF IInv, Types, ConnRec
<1>5. CASE Handle(c)
  <2>1. PICK w : w = Append(received[r], conn[c].addr)
    BY Zenon
  <2>2. Received(w, r, c) /\ Len(w) > 0
    <3>1. received' = [received EXCEPT ![r] = w]
      BY <1>3, <1>5, <2>1, Zenon DEF Handle
    <3>2. Len(w) > 0
      BY <1>4, <2>1
    <3> QED BY <1>1, <1>3, <2>1, <3>1, <3>2, Zenon DEF Received
  <2>3. ASSUME NEW s \in Nat, NEW b \in BOOLEAN, Replied(c, s, b) PROVE IInv'
    <3>1. PICK k \in ConnRec : Answering(k, c, s)
      BY ONLY IInv, c \in Conn, s \in Nat, b \in BOOLEAN, <1>1, <2>3, AfterReply, Zenon
    <3>2. TakenOff(k, w, r, c)
      BY ONLY <1>3, <2>2, <3>1, Zenon DEF Answering, TakenOff
    <3> QED BY ONLY IInv, c \in Conn, r \in Rpc, k \in ConnRec, <2>2, <3>2, ServerStep
  <2>4. ASSUME Closed(c) PROVE IInv'
    <3>1. PICK k \in ConnRec : Closing(k, c)
      BY <2>4, AfterClose
    <3>2. TakenOff(k, w, r, c)
      BY ONLY <1>2, <3>1, Zenon DEF Closing, TakenOff
    <3> QED BY ONLY IInv, c \in Conn, r \in Rpc, k \in ConnRec, <2>2, <3>2, ServerStep
  <2>5. 200 \in Nat /\ 503 \in Nat /\ TRUE \in BOOLEAN
    OBVIOUS
  <2>6. (\E s \in Nat : \E b \in BOOLEAN : Replied(c, s, b)) \/ Closed(c)
    BY <1>5, <2>5, Zenon DEF Handle
  <2> QED BY <2>3, <2>4, <2>6
<1>6. CASE Refuse(c)
  <2>1. PICK w : w = received[r]
    OBVIOUS
  <2>2. received' = [received EXCEPT ![r] = w]
    BY <1>4, <1>6, <2>1 DEF Refuse
  <2>3. Received(w, r, c)
    BY <1>1, <1>3, <2>1, <2>2, Zenon DEF Received
  <2>4. PICK s \in Nat, b \in BOOLEAN : Replied(c, s, b) /\ s = 503
    <3>1. 503 \in Nat /\ TRUE \in BOOLEAN
      OBVIOUS
    <3> QED BY <1>6, <3>1, Zenon DEF Refuse
  <2>5. PICK k \in ConnRec : Answering(k, c, s)
    BY ONLY IInv, c \in Conn, s \in Nat, b \in BOOLEAN, <1>1, <2>4, AfterReply
  <2>6. TakenOff(k, w, r, c)
    BY ONLY <1>3, <2>4, <2>5 DEF Answering, TakenOff
  <2> QED BY ONLY IInv, c \in Conn, r \in Rpc, k \in ConnRec, <2>3, <2>6, ServerStep
<1> QED BY <1>5, <1>6

LEMMA ServerClosesInv ==
    ASSUME IInv, NEW c \in Conn, ServerCloses(c)
    PROVE  IInv'
<1> USE Constants
<1>1. UNCHANGED <<peers, pool, rpc, received>> /\ UNCHANGED watchVars /\ Closed(c)
  BY DEF ServerCloses
<1>2. PICK k \in ConnRec : Closing(k, c)
  BY <1>1, AfterClose
<1>3. /\ conn \in [Conn -> ConnRec] /\ conn' \in [Conn -> ConnRec] /\ conn'[c] = k
      /\ \A d \in Conn : d # c => conn'[d] = conn[d]
      /\ \A d \in Conn : conn'[d].client = conn[d].client /\ conn'[d].replies = conn[d].replies
      /\ \A d \in Conn : conn'[d].client => conn'[d].addr = conn[d].addr
      /\ \A d \in Conn : conn'[d].requests # << >> => d # c
  BY <1>2, Zenon DEF IInv, Types, Closing
<1>4. pool' = pool /\ rpc' = rpc /\ received' = received
  BY <1>1
<1>5. Types' /\ WatchTypes' /\ Calls'
  BY <1>1, <1>3, Zenon DEF IInv, Types, WatchTypes, watchVars, Calls
<1>6. Holding'
  <2>1. ASSUME NEW q \in Rpc, rpc[q].phase = "waiting"
        PROVE  conn'[rpc[q].conn].client /\ conn'[rpc[q].conn].addr = rpc[q].addr
    <3>1. rpc[q].conn \in Conn
      BY <2>1, Zenon DEF IInv, Calls, CallOK
    <3>2. conn[rpc[q].conn].client /\ conn[rpc[q].conn].addr = rpc[q].addr
      BY <2>1, Zenon DEF IInv, Holding
    <3> QED BY <1>3, <3>1, <3>2, Zenon
  <2> QED BY <1>4, <2>1, Zenon DEF IInv, Holding
<1>7. Idling'
  <2>1. ASSUME NEW a \in Addr, NEW i \in 1 .. Len(pool[a]) PROVE IdleOK(pool[a][i], a)'
    <3> DEFINE d == pool[a][i]
    <3>1. d \in Conn /\ IdleOK(d, a)
      BY DEF IInv, Idling, Types
    <3>2. conn'[d].requests = << >>
      BY <1>2, <1>3, <3>1, Zenon DEF IdleOK, Closing
    <3>3. pool'[a][i] = d
      BY <1>4
    <3> HIDE DEF d
    <3> QED BY <1>3, <1>4, <3>1, <3>2, <3>3 DEF IdleOK
  <2> QED BY <1>4, <2>1, Zenon DEF IInv, Idling
<1>8. Requests'
  <2>1. \A d \in Conn : conn'[d].requests # << >> => conn'[d] = conn[d]
    BY <1>3, Zenon
  <2>2. ASSUME NEW d \in Conn, conn'[d].requests # << >>
        PROVE  RequestOK(conn[d], d, conn[d].requests[1])'
    <3>1. conn'[d] = conn[d] /\ RequestOK(conn[d], d, conn[d].requests[1])
      BY <2>1, <2>2, Zenon DEF IInv, Requests
    <3> QED BY <1>4, <3>1, Zenon DEF RequestOK
  <2> QED BY <2>1, <2>2, Zenon DEF IInv, Requests
<1>9. Replies'
  <2> SUFFICES ASSUME NEW d \in Conn, conn'[d].replies # << >>
               PROVE  /\ Len(conn'[d].replies) = 1
                      /\ conn'[d].requests = << >> /\ conn'[d].client
                      /\ rpc'[conn'[d].replies[1].to].conn = d
                      /\ conn'[d].replies[1].status = 200
                            => Len(received'[conn'[d].replies[1].to]) > 0
    BY Zenon DEF Replies
  <2>1. conn'[d].replies = conn[d].replies /\ conn'[d].client = conn[d].client
    BY <1>3, Zenon
  <2>2. conn[d].requests = << >>
    BY <2>1, Zenon DEF IInv, Replies
  <2>3. conn'[d].requests = << >>
    BY <1>2, <1>3, <2>2, Zenon
  <2> DEFINE q == conn[d].replies[1].to
  <2>4. /\ Len(conn[d].replies) = 1 /\ conn[d].client /\ rpc[q].conn = d
        /\ conn[d].replies[1].status = 200 => Len(received[q]) > 0
    BY <2>1, Zenon DEF IInv, Replies
  <2> QED BY ONLY <1>4, <2>1, <2>3, <2>4
<1> QED BY <1>5, <1>6, <1>7, <1>8, <1>9, Zenon DEF IInv

\* set_peers closes idle connections only.
LEMMA FoldInv ==
    ASSUME IInv, Fold
    PROVE  IInv'
<1> USE Constants
<1> DEFINE book == AddressesOf(task.view)
           pruned == {a \in Addr : \A p \in Peer : book[p] # a}
           gone == UNION {Idle(a) : a \in pruned}
<1>1. /\ peers' = book /\ conn' = Without(gone)
      /\ pool' = [a \in Addr |-> IF a \in pruned THEN << >> ELSE pool[a]]
      /\ rpc' = rpc /\ received' = received
  BY Zenon DEF Fold, SetPeers
<1>2. book \in Book
  BY Zenon DEF IInv, WatchTypes, View, Book, AddressesOf
<1>3. WatchTypes'
  BY Zenon DEF IInv, WatchTypes, Fold, SeenAfterFold
<1>4. conn \in [Conn -> ConnRec] /\ pool \in [Addr -> Seq(Conn)] /\ Idling
  BY Zenon DEF IInv, Types
<1>5. ASSUME NEW c \in gone
      PROVE  \E a \in pruned : c \in Conn /\ IdleOK(c, a)
  <2>1. PICK a \in pruned : c \in Idle(a)
    BY Zenon
  <2>2. PICK i \in 1 .. Len(pool[a]) : c = pool[a][i]
    BY <2>1, Zenon DEF Idle
  <2> QED BY <1>4, <2>2 DEF Idling
<1>6. ASSUME NEW c \in Conn
      PROVE  conn'[c] = IF c \in gone THEN NoConn ELSE conn[c]
  <2>1. CASE c \in gone
    <3>1. conn[c].requests = << >> /\ conn[c] \in ConnRec
      BY <1>4, <1>5, <2>1, Zenon DEF IdleOK
    <3>2. Dropped(conn[c]) = NoConn
      <4> DEFINE e == [conn[c] EXCEPT !.client = FALSE, !.replies = << >>]
      <4>1. ~e.client /\ e.requests = << >>
        BY <3>1 DEF ConnRec
      <4>2. Dropped(conn[c]) = Lingering(e)
        BY DEF Dropped
      <4> HIDE DEF e
      <4> QED BY <4>1, <4>2 DEF Lingering
    <3> QED BY <1>1, <2>1, <3>2, Zenon DEF Without
  <2>2. CASE c \notin gone
    BY <1>1, <2>2, Zenon DEF Without
  <2> QED BY <2>1, <2>2, Zenon
<1>7. /\ NoConn \in ConnRec /\ NoConn.requests = << >> /\ NoConn.replies = << >>
  BY DEF NoConn, ConnRec
<1>8. \A r \in Rpc : rpc[r].conn \notin gone
  BY <1>5, Zenon DEF IdleOK
<1>9. \A a \in Addr : a \notin pruned => \A i \in 1 .. Len(pool[a]) : pool[a][i] \notin gone
  <2> SUFFICES ASSUME NEW a \in Addr, a \notin pruned, NEW i \in 1 .. Len(pool[a]),
                      pool[a][i] \in gone
               PROVE  FALSE
    BY Zenon
  <2>1. conn[pool[a][i]].addr = a
    BY <1>4, Zenon DEF Idling, IdleOK
  <2>2. PICK b \in pruned : IdleOK(pool[a][i], b)
    BY <1>5, Zenon
  <2> QED BY <2>1, <2>2, Zenon DEF IdleOK
<1> HIDE DEF gone, book, pruned
<1>10. conn' \in [Conn -> ConnRec] /\ pool' \in [Addr -> Seq(Conn)]
  <2>1. conn' = [c \in Conn |-> IF c \in gone THEN NoConn ELSE conn[c]]
    BY <1>1, <1>6, Zenon DEF Without
  <2> QED BY <1>1, <1>4, <1>7, <2>1
<1>11. Types' /\ Calls'
  BY <1>1, <1>2, <1>10, Zenon DEF IInv, Types, Calls
<1>12. Holding'
  <2>1. ASSUME NEW q \in Rpc, rpc[q].phase = "waiting"
        PROVE  conn'[rpc[q].conn] = conn[rpc[q].conn]
    <3>1. rpc[q].conn \in Conn
      BY <2>1, Zenon DEF IInv, Calls, CallOK
    <3> QED BY <1>6, <1>8, <3>1, Zenon
  <2> QED BY <1>1, <2>1, Zenon DEF IInv, Holding
<1>13. Idling'
  <2>1. ASSUME NEW a \in Addr, NEW i \in 1 .. Len(pool'[a])
        PROVE  a \notin pruned /\ pool'[a] = pool[a] /\ IdleOK(pool[a][i], a)'
    <3>1. a \notin pruned /\ pool'[a] = pool[a]
      BY <1>1, <2>1
    <3> DEFINE d == pool[a][i]
    <3>2. d \in Conn /\ IdleOK(d, a) /\ d \notin gone
      BY <1>4, <1>9, <3>1 DEF Idling
    <3>3. conn'[d] = conn[d] /\ pool'[a][i] = d
      BY <1>6, <3>1, <3>2, Zenon
    <3> HIDE DEF d
    <3> QED BY <1>1, <3>1, <3>2, <3>3, Zenon DEF IdleOK
  <2>2. ASSUME NEW a \in Addr PROVE Len(pool'[a]) <= MaxIdle
    BY <1>1, <1>4 DEF Idling
  <2> QED BY <1>4, <2>1, <2>2, Zenon DEF Idling
<1>14. Requests'
  <2>1. ASSUME NEW d \in Conn, conn'[d].requests # << >>
        PROVE  conn'[d] = conn[d] /\ RequestOK(conn[d], d, conn[d].requests[1])'
    <3>1. conn'[d] = conn[d]
      BY <1>6, <1>7, <2>1
    <3>2. RequestOK(conn[d], d, conn[d].requests[1])
      BY <2>1, <3>1, Zenon DEF IInv, Requests
    <3> QED BY <1>1, <3>1, <3>2, Zenon DEF RequestOK
  <2> QED BY <2>1, Zenon DEF IInv, Requests
<1>15. Replies'
  <2>1. ASSUME NEW d \in Conn, conn'[d].replies # << >> PROVE conn'[d] = conn[d]
    BY <1>6, <1>7, <2>1
  <2> QED BY <1>1, <2>1 DEF IInv, Replies
<1> QED BY <1>3, <1>11, <1>12, <1>13, <1>14, <1>15 DEF IInv

LEMMA NextInv == IInv /\ [Next]_vars => IInv'
<1> SUFFICES ASSUME IInv, [Next]_vars PROVE IInv'
  OBVIOUS
<1>1. CASE UNCHANGED vars
  <2>1. /\ UNCHANGED <<peers, pool, rpc, conn, received>>
        /\ UNCHANGED <<view, version, task, peer_urls>>
    BY <1>1 DEF vars
  <2>2. Types' /\ WatchTypes' /\ Calls'
    BY <2>1, Zenon DEF IInv, Types, WatchTypes, Calls
  <2>3. Holding'
    BY <2>1, Zenon DEF IInv, Holding
  <2>4. Idling'
    BY <2>1 DEF IInv, Idling, IdleOK
  <2>5. Requests'
    BY <2>1, Zenon DEF IInv, Requests, RequestOK
  <2>6. Replies'
    BY <2>1 DEF IInv, Replies
  <2> QED BY <2>2, <2>3, <2>4, <2>5, <2>6 DEF IInv
<1>2. CASE Publish \/ WatchTask
  BY <1>2, WatchInv, FoldInv DEF WatchTask
<1>3. ASSUME NEW r \in Rpc, Progress(r) PROVE IInv'
  BY <1>3, CallActions, CheckoutInv, ConnectInv, ReadReplyInv, ReadEofInv, TimeoutInv, Zenon DEF
     Progress
<1>4. ASSUME NEW c \in Conn, Server(c) PROVE IInv'
  BY <1>4, HandleInv, ServerClosesInv DEF Server
<1> QED BY <1>1, <1>2, <1>3, <1>4 DEF Next

LEMMA Invariant == Spec => []IInv
BY InitInv, NextInv, PTL DEF Spec

\* A call that send answers was answered by a core that got this very request,
\* for any pool limit and any number of calls, timeouts and retries.
THEOREM AnswersMatchHolds == Spec => []AnswersMatch
<1>1. IInv => AnswersMatch
  BY Zenon DEF IInv, Calls, CallOK, AnswersMatch
<1> QED BY <1>1, Invariant, PTL

\* checkout never yields a connection with something left on it, that another
\* call holds or that leads elsewhere, and checkin keeps the limit.
THEOREM IdleIsCleanHolds == Spec => []IdleIsClean
<1>1. IInv => IdleIsClean
  <2> SUFFICES ASSUME IInv PROVE IdleIsClean
    OBVIOUS
  <2>1. ASSUME NEW a \in Addr, NEW i \in 1 .. Len(pool[a])
        PROVE  /\ conn[pool[a][i]].addr = a /\ ~Held(pool[a][i])
               /\ conn[pool[a][i]].requests = << >> /\ conn[pool[a][i]].replies = << >>
    BY DEF IInv, Idling, IdleOK, Held
  <2>2. ASSUME NEW a \in Addr, NEW b \in Addr,
               NEW i \in 1 .. Len(pool[a]), NEW j \in 1 .. Len(pool[b]), pool[a][i] = pool[b][j]
        PROVE  a = b /\ i = j
    <3>1. conn[pool[a][i]].addr = a /\ conn[pool[b][j]].addr = b
      BY <2>1, Zenon
    <3>2. a = b
      BY ONLY <2>2, <3>1, Zenon
    <3> QED BY <2>2, <3>2, Zenon DEF IInv, Idling
  <2>3. ASSUME NEW a \in Addr PROVE Len(pool[a]) <= MaxIdle
    BY Zenon DEF IInv, Idling
  <2> QED BY <2>1, <2>2, <2>3, Zenon DEF IdleIsClean
<1> QED BY <1>1, Invariant, PTL

\* Also the retry of post_json goes to the address that send resolved.
THEOREM ReceivedWhereResolvedHolds == Spec => []ReceivedWhereResolved
<1>1. IInv => ReceivedWhereResolved
  <2> SUFFICES ASSUME IInv, NEW r \in Rpc, NEW i \in DOMAIN received[r]
               PROVE  received[r][i] = rpc[r].addr
    BY DEF ReceivedWhereResolved
  <2>1. received[r] \in Seq(Addr \cup {NoAddr}) /\ CallOK(rpc[r], received[r], r)
    BY Zenon DEF IInv, Types, Calls
  <2>2. i \in 1 .. Len(received[r])
    BY <2>1
  <2> QED BY <2>1, <2>2, Zenon DEF CallOK
<1> QED BY <1>1, Invariant, PTL

\* A step of one call that is a step of the contract, or none.
LEMMA Refining ==
    ASSUME IInv, NEW s \in Rpc,
           \A t \in Rpc \ {s} : Outcome(t)' = Outcome(t) /\ received'[t] = received[t],
           \/ Outcome(s)' = Outcome(s) /\ Len(received'[s]) = Len(received[s])
           \/ /\ Outcome(s) = "none" /\ Outcome(s)' \in {"pending", "error"}
              /\ Len(received'[s]) = Len(received[s])
           \/ /\ Outcome(s)' = Outcome(s) /\ Outcome(s) # "none"
              /\ Len(received[s]) < 2 /\ Len(received'[s]) = Len(received[s]) + 1
           \/ /\ Outcome(s) = "pending" /\ Len(received'[s]) = Len(received[s])
              /\ Outcome(s)' = "error" \/ (Len(received[s]) > 0 /\ Outcome(s)' = "ok")
    PROVE  [Contract!Next]_(Contract!vars)
<1> DEFINE o == [t \in Rpc |-> Outcome(t)]
           h == [t \in Rpc |-> Len(received[t])]
<1>1. /\ o[s] = Outcome(s) /\ o'[s] = Outcome(s)'
      /\ h[s] = Len(received[s]) /\ h'[s] = Len(received'[s])
  BY Zenon
<1>2. o' = [o EXCEPT ![s] = Outcome(s)'] /\ h' = [h EXCEPT ![s] = Len(received'[s])]
  BY <1>1, Zenon
<1>3. CASE Outcome(s)' = Outcome(s) /\ Len(received'[s]) = Len(received[s])
  <2>1. o' = o /\ h' = h
    BY <1>1, <1>2, <1>3, Zenon
  <2> QED BY <2>1, Zenon DEF Contract!vars
<1>4. CASE /\ Outcome(s) = "none" /\ Outcome(s)' \in {"pending", "error"}
           /\ Len(received'[s]) = Len(received[s])
  <2>1. h' = h
    BY <1>1, <1>2, <1>4, Zenon
  <2>2. Contract!Send(s)
    BY <1>1, <1>2, <1>4, <2>1, Zenon DEF Contract!Send
  <2> QED BY <2>2, Zenon DEF Contract!Next
<1>5. CASE /\ Outcome(s)' = Outcome(s) /\ Outcome(s) # "none"
           /\ Len(received[s]) < 2 /\ Len(received'[s]) = Len(received[s]) + 1
  <2>1. o' = o /\ h' = [h EXCEPT ![s] = h[s] + 1]
    BY <1>1, <1>2, <1>5, Zenon
  <2>2. Contract!Hand(s)
    BY <1>1, <1>5, <2>1, Zenon DEF Contract!Hand
  <2> QED BY <2>2, Zenon DEF Contract!Next
<1>6. CASE /\ Outcome(s) = "pending" /\ Len(received'[s]) = Len(received[s])
           /\ Outcome(s)' = "error" \/ (Len(received[s]) > 0 /\ Outcome(s)' = "ok")
  <2>1. h' = h
    BY <1>1, <1>2, <1>6, Zenon
  <2>2. Contract!Return(s)
    BY <1>1, <1>2, <1>6, <2>1, Zenon DEF Contract!Return
  <2> QED BY <2>2, Zenon DEF Contract!Next
<1> QED BY <1>3, <1>4, <1>5, <1>6, Zenon

\* The phase a step of send and post_json leads to.
LEMMA ProgressPhase ==
    ASSUME IInv, NEW r \in Rpc, Progress(r)
    PROVE  /\ received' = received
           /\ \A q \in Rpc \ {r} : rpc'[q] = rpc[q]
           /\ \/ rpc[r].phase = "new" /\ rpc'[r].phase \in {"resolved", "failed"}
              \/ /\ rpc[r].phase \in {"resolved", "connecting", "waiting"}
                 /\ \/ rpc'[r].phase \in {"connecting", "waiting", "failed"}
                    \/ rpc'[r].phase = "answered" /\ Len(received[r]) > 0
<1> USE Constants
<1>1. rpc \in [Rpc -> CallRec] /\ rpc[r] \in CallRec
  BY Zenon DEF IInv, Types
<1>2. CASE Resolve(r)
  <2>1. PICK p \in Peer :
           rpc' = [rpc EXCEPT ![r].to = p, ![r].addr = peers[p],
                              ![r].phase = IF peers[p] = NoAddr THEN "failed" ELSE "resolved"]
    BY <1>2, Zenon DEF Resolve
  <2>2. rpc'[r].phase = IF peers[p] = NoAddr THEN "failed" ELSE "resolved"
    BY <1>1, <2>1 DEF CallRec
  <2>3. rpc[r].phase = "new" /\ received' = received
    BY <1>2, Zenon DEF Resolve
  <2>4. \A q \in Rpc \ {r} : rpc'[q] = rpc[q]
    BY <1>1, <2>1, Zenon
  <2> QED BY <2>2, <2>3, <2>4, Zenon
<1>3. CASE Checkout(r) \/ NothingIdle(r) \/ ConnectFails(r)
  BY <1>1, <1>3 DEF Checkout, NothingIdle, ConnectFails, CallRec
<1>4. CASE Connect(r)
  BY <1>1, <1>4 DEF Connect, CallRec
<1>5. ASSUME NEW p, NEW n, Leaves(r, p, n)
      PROVE  rpc'[r].phase = p /\ \A q \in Rpc \ {r} : rpc'[q] = rpc[q]
  BY <1>1, <1>5, Zenon DEF Leaves, CallRec
<1>6. CASE Timeout(r) \/ ReadEof(r)
  <2>1. received' = received /\ rpc[r].phase \in {"connecting", "waiting"}
    BY <1>6, Zenon DEF Timeout, ReadEof
  <2>2. PICK p \in {"connecting", "failed"} : Leaves(r, p, None)
    BY <1>6, Zenon DEF Timeout, ReadEof, AttemptFails
  <2> QED BY <1>5, <2>1, <2>2, Zenon
<1>7. CASE ReadReply(r)
  <2> DEFINE reply == conn[rpc[r].conn].replies[1]
  <2>1. received' = received /\ rpc[r].phase = "waiting" /\ conn[rpc[r].conn].replies # << >>
    BY <1>7, Zenon DEF ReadReply
  <2>2. reply.status = 200 => Len(received[r]) > 0
    BY <2>1, Waiting, Zenon DEF WaitsOn
  <2>3. \/ AttemptFails(r)
        \/ reply.status = 200 /\ Leaves(r, "answered", reply.to)
    BY <1>7, Zenon DEF ReadReply
  <2>4. CASE AttemptFails(r)
    <3>1. PICK p \in {"connecting", "failed"} : Leaves(r, p, None)
      BY <2>4 DEF AttemptFails
    <3> QED BY <1>5, <2>1, <3>1, Zenon
  <2>5. CASE reply.status = 200 /\ Leaves(r, "answered", reply.to)
    <3>1. rpc'[r].phase = "answered" /\ \A q \in Rpc \ {r} : rpc'[q] = rpc[q]
      BY <1>5, <2>5
    <3> QED BY <2>1, <2>2, <2>5, <3>1, Zenon
  <2> QED BY <2>3, <2>4, <2>5, Zenon
<1> QED BY <1>2, <1>3, <1>4, <1>6, <1>7, Zenon DEF Progress

\* The core is offered over HTTP what the trait Transport promises, and nothing
\* else: an answer means a hand-over, and there are at most two (send).
THEOREM HttpImplementsTransport == Spec => ImplementsTransport
<1>1. Init => Contract!Init
  <2> SUFFICES ASSUME Init PROVE Contract!Init
    OBVIOUS
  <2>1. ASSUME NEW s \in Rpc PROVE Outcome(s) = "none" /\ Len(received[s]) = 0
    BY Zenon DEF Init, Outcome, NewCall
  <2> QED BY <2>1 DEF Contract!Init
<1>2. IInv /\ [Next]_vars => [Contract!Next]_(Contract!vars)
  <2> SUFFICES ASSUME IInv, [Next]_vars PROVE [Contract!Next]_(Contract!vars)
    OBVIOUS
  <2>1. CASE rpc' = rpc /\ received' = received
    BY <2>1 DEF Contract!vars, Outcome
  <2>2. ASSUME NEW r \in Rpc, Progress(r) PROVE [Contract!Next]_(Contract!vars)
    <3>1. \A t \in Rpc \ {r} : Outcome(t)' = Outcome(t) /\ received'[t] = received[t]
      BY <2>2, ProgressPhase, Zenon DEF Outcome
    <3>2. \/ /\ Outcome(r) = "none" /\ Outcome(r)' \in {"pending", "error"}
             /\ received' = received
          \/ /\ Outcome(r) = "pending" /\ received' = received
             /\ \/ Outcome(r)' \in {"pending", "error"}
                \/ Outcome(r)' = "ok" /\ Len(received[r]) > 0
      BY <2>2, ProgressPhase, Zenon DEF Outcome
    <3> QED BY <3>1, <3>2, Refining, Zenon
  <2>3. ASSUME NEW c \in Conn, Handle(c) PROVE [Contract!Next]_(Contract!vars)
    <3>1. conn[c].requests # << >> /\ rpc' = rpc
      BY <2>3, Zenon DEF Handle
    <3> PICK r \in Rpc : r = conn[c].requests[1]
      BY <3>1, Busy, Zenon
    <3>2. /\ RequestOK(conn[c], c, r) /\ rpc[r].phase \in {"waiting", "failed"}
          /\ received[r] \in Seq(Addr \cup {NoAddr}) /\ conn[c] \in ConnRec
          /\ received' = [received EXCEPT ![r] = Append(@, conn[c].addr)]
      BY <2>3, <3>1, Busy, Zenon DEF Handle
    <3>3. Len(received[r]) \in Nat /\ Len(received[r]) < 2
      <4>1. Len(received[r]) <= 1
        BY ONLY <3>2, Zenon DEF RequestOK
      <4>2. Len(received[r]) \in Nat
        BY ONLY <3>2
      <4> QED BY ONLY <4>1, <4>2
    <3>4. Len(received'[r]) = Len(received[r]) + 1
      <4>1. received'[r] = Append(received[r], conn[c].addr)
        BY <3>2, Zenon DEF IInv, Types
      <4>2. conn[c].addr \in Addr \cup {NoAddr}
        BY <3>2, Zenon DEF ConnRec
      <4> QED BY ONLY <3>2, <4>1, <4>2
    <3>5. Outcome(r)' = Outcome(r) /\ Outcome(r) # "none"
      BY <3>1, <3>2, Zenon DEF Outcome
    <3>6. \A t \in Rpc \ {r} : Outcome(t)' = Outcome(t) /\ received'[t] = received[t]
      BY <3>1, <3>2, Zenon DEF Outcome, IInv, Types
    <3> QED BY <3>3, <3>4, <3>5, <3>6, Refining, Zenon
  <2>4. CASE Publish \/ WatchTask \/ (\E c \in Conn : Refuse(c) \/ ServerCloses(c)) \/ UNCHANGED vars
    BY <2>1, <2>4, Zenon DEF Publish, WatchTask, BorrowAndUpdate, Fold, Refuse, ServerCloses,
       rpcVars, vars
  <2> QED BY <2>2, <2>3, <2>4 DEF Next, Server
<1> QED BY <1>1, <1>2, InitInv, NextInv, PTL DEF Spec, Contract!Spec, ImplementsTransport
=============================================================================

------------------------------- MODULE MCRaft -------------------------------
(* Small instances of RaftNode for TLC.                                    *)
EXTENDS RaftSafety, TLC

CONSTANTS n1, n2, n3, n4, n5, v

OneValue == {v}
None == {}

Second == {n2}
Pair == {n1, n2}
Trio == {n1, n2, n3}
Quintet == {n1, n2, n3, n4, n5}
Third == {n3}

Shrinking == {{n1, n2}, {n1}, {n2, n3}}
WithoutThird == {{n1, n2}}
Growing == {{n1, n2, n3}, {n1, n2}}

VoterSymmetry == Permutations({n4, n5})
PairSymmetry == Permutations(Pair)

(***************************************************************************)
(* The state in which n1 has just won the first election with every vote   *)
(* and the messages of the election are gone, for the runs about what      *)
(* happens after an election.                                              *)
(***************************************************************************)
LedState ==
    [n \in Node |->
        LET fresh == Boot(n, FreshDisk) IN
        IF n \notin Bootstrap THEN fresh
        ELSE IF n = n1
        THEN MaybeBecomeLeader(n1, [fresh EXCEPT !.term = 1, !.votedFor = n1,
                                                 !.role = Candidate(Bootstrap)])
        ELSE [fresh EXCEPT !.term = 1, !.votedFor = n1]]

LedInit ==
    /\ node = LedState
    /\ msgs = {}
    /\ ballots = {[term |-> 1, voter |-> n, candidate |-> n1] : n \in Bootstrap}
    /\ elected = {[term |-> 1, leader |-> n1]}
    /\ applied = {}
    /\ crashes = 0

(***************************************************************************)
(* A little later: n2 holds the leader's no-op and has said so, but does   *)
(* not know yet that it is committed; what was sent to the others is lost. *)
(***************************************************************************)
SettledState ==
    LET led == LedState[n1]
    IN  [LedState EXCEPT
            ![n1] = MaybeAdvanceCommit(n1,
                       [led EXCEPT !.role = [@ EXCEPT !.acked[n2] = 0, !.match[n2] = 1,
                                                      !.next[n2] = 2]]),
            ![n2] = [AppendEntries(@, led.log) EXCEPT !.leaderId = n1, !.contacted = TRUE]]

SettledInit ==
    /\ node = SettledState
    /\ msgs = {}
    /\ ballots = {[term |-> 1, voter |-> n, candidate |-> n1] : n \in Bootstrap}
    /\ elected = {[term |-> 1, leader |-> n1]}
    /\ applied = {<<1, Entry(1, Noop)>>}
    /\ crashes = 0

SettledSpec == SettledInit /\ [][Next]_vars

(***************************************************************************)
(* Five nodes, further on.  n1 led term 1, its write reached only n3, and  *)
(* it stepped down for want of a quorum, the client still waiting.  n2 won *)
(* term 2 with the votes of n4 and n5, sent its first heartbeat and        *)
(* crashed; the heartbeat to n1 is still in flight.                        *)
(***************************************************************************)
Contested ==
    LET write == <<Entry(1, Write(v))>>
        deposed == BecomeFollower(LedState[n1], 1, Nil)
        won == MaybeBecomeLeader(n2, [Boot(n2, FreshDisk) EXCEPT
                                         !.term = 2, !.votedFor = n2,
                                         !.role = Candidate({n2, n4, n5})])
    IN  [nodes |-> [n \in Node |->
            CASE n = n1 -> [AppendEntries(deposed, write) EXCEPT
                               !.pending = {[term |-> 1, index |-> 2]}]
              [] n = n2 -> Boot(n2, won)
              [] n = n3 -> [AppendEntries(LedState[n3], deposed.log \o write) EXCEPT
                               !.leaderId = n1, !.contacted = TRUE]
              [] OTHER -> [Boot(n, FreshDisk) EXCEPT !.term = 2, !.votedFor = n2]],
         heartbeat |-> SendAppend(n2, won, n1)]

ContestedInit ==
    /\ node = Contested.nodes
    /\ msgs = Contested.heartbeat
    /\ ballots = {[term |-> 1, voter |-> n, candidate |-> n1] : n \in Node}
                 \cup {[term |-> 2, voter |-> n, candidate |-> n2] : n \in {n2, n4, n5}}
    /\ elected = {[term |-> 1, leader |-> n1], [term |-> 2, leader |-> n2]}
    /\ applied = {}
    /\ crashes = 1

ContestedSpec == ContestedInit /\ [][Next]_vars
=============================================================================

---------------------------- MODULE MCRaftTimed ----------------------------
(* Three nodes, the first of them elected, and the ways to cut them apart. *)
EXTENDS MCRaft, RaftTimed

TimedLedInit ==
    /\ LedInit
    /\ links = AllLinks
    /\ faults = 0
    /\ clock = [n \in Node |-> [fresh |-> FALSE,
                                contact |-> [p \in Node |-> IF n = n1 /\ p # n1 THEN "recent" ELSE "never"]]]
    /\ settled = {}

TimedLedSpec == TimedLedInit /\ [][TimedNext]_timedVars /\ Fairness

From(n) == {l \in AllLinks : l[1] = n}
To(n) == {l \in AllLinks : l[2] = n}
Between(p, q) == {<<p, q>>, <<q, p>>}

\* Whole; a node deaf, mute or cut off; one link lost, in one direction or both.
Cuts ==
    {AllLinks} \cup {AllLinks \ To(n) : n \in Node}
               \cup {AllLinks \ From(n) : n \in Node}
               \cup {AllLinks \ (To(n) \cup From(n)) : n \in Node}
               \cup {AllLinks \ {l} : l \in AllLinks}
               \cup {AllLinks \ Between(p, q) : p, q \in Node}
=============================================================================

----------------------------- MODULE Transport -----------------------------
(***************************************************************************)
(* What the Raft core may assume of a transport (the trait Transport of    *)
(* src/raft/transport/mod.rs): a call returns once, the peer's response or *)
(* an error; a response means that a core was handed the request; a core   *)
(* may be handed it although the call fails, also after it has failed, and *)
(* once more than it was sent.                                             *)
(***************************************************************************)
EXTENDS Naturals

CONSTANT Call

VARIABLES
    outcome,        \* outcome[s]: "none" (not called), "pending", "ok" or "error"
    handed          \* handed[s]: how often a core was handed the request of s

vars == <<outcome, handed>>

Init ==
    /\ outcome = [s \in Call |-> "none"]
    /\ handed = [s \in Call |-> 0]

\* An unknown peer is an error at once.
Send(s) ==
    /\ outcome[s] = "none"
    /\ \E o \in {"pending", "error"} : outcome' = [outcome EXCEPT ![s] = o]
    /\ UNCHANGED handed

Hand(s) ==
    /\ outcome[s] # "none"
    /\ handed[s] < 2
    /\ handed' = [handed EXCEPT ![s] = @ + 1]
    /\ UNCHANGED outcome

Return(s) ==
    /\ outcome[s] = "pending"
    /\ \/ handed[s] > 0 /\ outcome' = [outcome EXCEPT ![s] = "ok"]
       \/ outcome' = [outcome EXCEPT ![s] = "error"]
    /\ UNCHANGED handed

Next == \E s \in Call : Send(s) \/ Hand(s) \/ Return(s)

Spec == Init /\ [][Next]_vars
=============================================================================

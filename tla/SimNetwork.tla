----------------------------- MODULE SimNetwork -----------------------------
(***************************************************************************)
(* The simulated network of the test suite (src/raft/transport/sim.rs) and *)
(* its safety observer.  The code draws everything random about a send up  *)
(* front; here a loss is chosen where it shows, and delays are the         *)
(* interleaving of the steps.  Every probability of FaultConfig is taken   *)
(* to be neither 0 nor 1: what any setting allows is a behaviour here.     *)
(***************************************************************************)
EXTENDS Integers, Sequences, FiniteSets

CONSTANTS
    Node,
    Sender,         \* bound: the nodes that send
    Message,        \* the RPCs that may be sent
    MaxSends,       \* bound: sends
    MaxLives,       \* bound: registrations of a node
    MaxFlips        \* bound: changes of link state

ASSUME SenderIsNode == Sender \subseteq Node

ASSUME SimBounds == {MaxSends, MaxLives, MaxFlips} \subseteq Nat

\* The numbers of an AppendEntries are u64, its entries a Vec (types.rs).
ASSUME MessageShape ==
    \A m \in Message : m.kind = "AppendEntries" =>
        /\ {m.term, m.prev_log_index, m.prev_log_term} \subseteq Nat
        /\ DOMAIN m.entries = 1 .. Len(m.entries) /\ Len(m.entries) \in Nat
        /\ \A i \in DOMAIN m.entries : {m.entries[i].term, m.entries[i].index} \subseteq Nat

SendNo == 1 .. MaxSends

VARIABLES
    lives,          \* lives[n]: how often n was registered, which names its inbox
    running,        \* the nodes whose inbox still has a receiver
    blocked,        \* directed links whose messages are dropped
    flips,
    sends,          \* sends[s]: the exchange of send s, with its plan
    inboxes,        \* history: inboxes[s]: which inboxes the request of s reached
    leaders_per_term, entries_seen, violations,
    inspected       \* history: the AppendEntries that were sent

observer == <<leaders_per_term, entries_seen, violations, inspected>>
simVars == <<lives, running, blocked, flips, sends, inboxes, observer>>

NotSent == [phase |-> "none"]
-----------------------------------------------------------------------------
(***************************************************************************)
(* inspect_append_entries.  The maps of what was seen first are sets of    *)
(* records, one for every key.                                             *)
(***************************************************************************)
\* check_shape: contiguous from prev_log_index, terms in order up to the leader's.
WellShaped(m) ==
    \A i \in DOMAIN m.entries :
        /\ m.entries[i].index = m.prev_log_index + i
        /\ m.entries[i].term >= IF i = 1 THEN m.prev_log_term ELSE m.entries[i - 1].term
        /\ m.entries[i].term <= m.term

\* Mutant: an entry is known by its index alone.
Keyed_ByIndex(e, seen) == {k \in seen : k.index = e.index}

Keyed(e, seen) == {k \in seen : k.term = e.term /\ k.index = e.index}

\* Entries are compared one after the other, also with those of their message.
FirstSeen(m) ==
    {m.entries[i] : i \in {j \in DOMAIN m.entries :
        /\ Keyed(m.entries[j], entries_seen) = {}
        /\ \A k \in 1 .. j - 1 : Keyed(m.entries[j], {m.entries[k]}) = {}}}

Inspect(m) ==
    IF m.kind # "AppendEntries" THEN UNCHANGED observer
    ELSE LET claim == [term |-> m.term, leader |-> m.leader_id]
             rivals == {l \in leaders_per_term : l.term = m.term}
             seen == entries_seen \cup FirstSeen(m)
             usurps == rivals # {} /\ claim \notin rivals
             rewrites == \E i \in DOMAIN m.entries :
                            m.entries[i] \notin Keyed(m.entries[i], seen)
         IN  /\ leaders_per_term' = IF rivals = {} THEN leaders_per_term \cup {claim}
                                    ELSE leaders_per_term
             /\ entries_seen' = seen
             /\ violations' = violations
                   \cup (IF usurps THEN {"election safety"} ELSE {})
                   \cup (IF ~WellShaped(m) THEN {"malformed"} ELSE {})
                   \cup (IF rewrites THEN {"log matching"} ELSE {})
             /\ inspected' = inspected \cup {m}
-----------------------------------------------------------------------------
(* The tests' controls.                                                    *)

\* register: a new inbox replaces the old one.
Register(n) ==
    /\ n \notin running
    /\ lives[n] < MaxLives
    /\ lives' = [lives EXCEPT ![n] = @ + 1]
    /\ running' = running \cup {n}
    /\ UNCHANGED <<blocked, flips, sends, inboxes>> /\ UNCHANGED observer

\* RaftHandle::crash drops the inbox and the replies still owed: who waits for
\* one waits for the timeout.
NodeCrash(n) ==
    /\ n \in running
    /\ running' = running \ {n}
    /\ sends' = [s \in SendNo |-> IF sends[s].phase = "handling" /\ sends[s].to = n
                                  THEN [sends[s] EXCEPT !.phase = "lost"] ELSE sends[s]]
    /\ UNCHANGED <<lives, blocked, flips, inboxes>> /\ UNCHANGED observer

SetLinkBlocked(link) ==
    /\ flips < MaxFlips
    /\ flips' = flips + 1
    /\ blocked' = IF link \in blocked THEN blocked \ {link} ELSE blocked \cup {link}
    /\ UNCHANGED <<lives, running, sends, inboxes>> /\ UNCHANGED observer
-----------------------------------------------------------------------------
(* send.                                                                   *)

\* The message is inspected and the plan is drawn in one critical section; an
\* id never registered is Unreachable.
Send(s, from, to, m) ==
    /\ sends[s] = NotSent
    /\ \A r \in SendNo : r < s => sends[r] # NotSent
    /\ from \in running /\ from # to
    /\ Inspect(m)
    /\ \E req_duplicated \in BOOLEAN :
          LET req_blocked == <<from, to>> \in blocked IN
          sends' = [sends EXCEPT ![s] =
             [phase |-> IF lives[to] = 0 THEN "error" ELSE "sent",
              from |-> from, to |-> to, target |-> lives[to], req_blocked |-> req_blocked,
              copy |-> lives[to] > 0 /\ req_duplicated /\ ~req_blocked]]
    /\ UNCHANGED <<lives, running, blocked, flips, inboxes>>

\* Mutant: the inbox is looked up when the message arrives.
Inbox_Current(s) == lives[sends[s].to]

\* The inbox is the one that was registered when the message was sent.
Inbox(s) == sends[s].target

Alive(s) == sends[s].to \in running /\ lives[sends[s].to] = Inbox(s)

Handed(s) == inboxes' = [inboxes EXCEPT ![s] = Append(@, Inbox(s))]

\* The request leg ends: dropped, in the black hole of a crashed node, or in the
\* inbox.
RequestArrives(s) ==
    /\ sends[s].phase = "sent"
    /\ \/ /\ sends' = [sends EXCEPT ![s].phase = "lost"]
          /\ UNCHANGED inboxes
       \/ /\ ~sends[s].req_blocked /\ Alive(s)
          /\ sends' = [sends EXCEPT ![s].phase = "handling"]
          /\ Handed(s)
    /\ UNCHANGED <<lives, running, blocked, flips>> /\ UNCHANGED observer

\* Mutant: the task of the duplicate sends it again.
CopyLeft_Again(s) == TRUE

CopyLeft(s) == FALSE

\* The duplicate, on its own clock, whatever has become of the original.
CopyArrives(s) ==
    /\ sends[s] # NotSent /\ sends[s].copy
    /\ sends' = [sends EXCEPT ![s].copy = CopyLeft(s)]
    /\ IF Alive(s) THEN Handed(s) ELSE UNCHANGED inboxes
    /\ UNCHANGED <<lives, running, blocked, flips>> /\ UNCHANGED observer

\* The node answers.
NodeAnswers(s) ==
    /\ sends[s].phase = "handling"
    /\ sends' = [sends EXCEPT ![s].phase = "answered"]
    /\ UNCHANGED <<lives, running, blocked, flips, inboxes>> /\ UNCHANGED observer

\* The reply leg ends, if the way back is open at that moment.
ReplyArrives(s) ==
    /\ sends[s].phase = "answered"
    /\ \/ sends' = [sends EXCEPT ![s].phase = "lost"]
       \/ /\ <<sends[s].to, sends[s].from>> \notin blocked
          /\ sends' = [sends EXCEPT ![s].phase = "ok"]
    /\ UNCHANGED <<lives, running, blocked, flips, inboxes>> /\ UNCHANGED observer

\* rpc_timeout ends the exchange where it is; the duplicate goes on.
SendTimeout(s) ==
    /\ sends[s].phase \in {"sent", "handling", "answered", "lost"}
    /\ sends' = [sends EXCEPT ![s].phase = "error"]
    /\ UNCHANGED <<lives, running, blocked, flips, inboxes>> /\ UNCHANGED observer
-----------------------------------------------------------------------------
SimInit ==
    /\ lives = [n \in Node |-> 0]
    /\ running = {}
    /\ blocked = {} /\ flips = 0
    /\ sends = [s \in SendNo |-> NotSent]
    /\ inboxes = [s \in SendNo |-> << >>]
    /\ leaders_per_term = {} /\ entries_seen = {} /\ violations = {} /\ inspected = {}

Exchange(s) ==
    \/ \E from \in Sender, to \in Node, m \in Message : Send(s, from, to, m)
    \/ RequestArrives(s) \/ CopyArrives(s) \/ NodeAnswers(s) \/ ReplyArrives(s) \/ SendTimeout(s)

Control ==
    \/ \E n \in Node : Register(n) \/ NodeCrash(n)
    \/ \E a, b \in Node : a # b /\ SetLinkBlocked(<<a, b>>)

SimNext == Control \/ \E s \in SendNo : Exchange(s)

SimSpec == SimInit /\ [][SimNext]_simVars
-----------------------------------------------------------------------------
(* Properties.                                                             *)

\* The observer is exact, in whatever order messages are sent: it has recorded
\* something if and only if two of the messages sent, delivered or not, claim
\* one term for two leaders or one (term, index) for two commands, or one is
\* not a contiguous run of entries with ordered terms (safety_violations:
\* "this cannot miss a sub-sample flicker").
ObserverExact ==
    violations # {} <=>
        \/ \E m, k \in inspected : m.term = k.term /\ m.leader_id # k.leader_id
        \/ \E m, k \in inspected : \E i \in DOMAIN m.entries, j \in DOMAIN k.entries :
              /\ m.entries[i].term = k.entries[j].term
              /\ m.entries[i].index = k.entries[j].index
              /\ m.entries[i] # k.entries[j]
        \/ \E m \in inspected : \E i \in DOMAIN m.entries :
              \/ m.entries[i].index - i # m.prev_log_index
              \/ m.entries[i].term \notin m.prev_log_term .. m.term
              \/ \E j \in 1 .. i : m.entries[j].term > m.entries[i].term

\* Nothing sent to a node reaches it after it was restarted, nor, copies
\* included, over a link that was blocked when it was sent (SendPlan, the
\* duplicate of send).
ArrivesAsPlanned ==
    \A s \in SendNo : \A i \in DOMAIN inboxes[s] :
        inboxes[s][i] = sends[s].target /\ ~sends[s].req_blocked

SendOutcome(s) ==
    LET phase == sends[s].phase
    IN  IF phase \in {"none", "ok", "error"} THEN phase ELSE "pending"

SimContract == INSTANCE Transport WITH
    Call <- SendNo,
    outcome <- [s \in SendNo |-> SendOutcome(s)],
    handed <- [s \in SendNo |-> Len(inboxes[s])]

\* The simulated network keeps the contract of the trait Transport, with
\* crashes, restarts, losses, duplicates and late replies (send).
SimKeepsContract == SimContract!Spec
=============================================================================

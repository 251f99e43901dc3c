---------------------------- MODULE MCSimNetwork ----------------------------
EXTENDS SimNetwork

CONSTANTS n1, n2, x, y

Both == {n1, n2}
First == {n1}

AppendEntries(term, leader, prev, prevTerm, entries) ==
    [kind |-> "AppendEntries", term |-> term, leader_id |-> leader, prev_log_index |-> prev,
     prev_log_term |-> prevTerm, entries |-> entries]

Entry(term, index, command) == [term |-> term, index |-> index, command |-> command]

\* Messages that agree, and messages that conflict with others, with themselves,
\* or that no leader sends.
Messages == {
    [kind |-> "RequestVote"],
    AppendEntries(1, n2, 0, 0, << >>),
    AppendEntries(1, n1, 0, 0, <<Entry(1, 1, x)>>),
    AppendEntries(2, n2, 0, 0, <<Entry(1, 1, y)>>),
    AppendEntries(2, n2, 0, 0, <<Entry(2, 1, y)>>),
    AppendEntries(2, n2, 0, 0, <<Entry(2, 1, x), Entry(1, 2, x)>>),
    AppendEntries(2, n2, 0, 0, <<Entry(2, 2, x)>>)}
=============================================================================

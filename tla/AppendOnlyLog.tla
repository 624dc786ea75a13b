---------------------------- MODULE AppendOnlyLog ----------------------------
(* What the audit store promises the services that write to it: one log, in   *)
(* which every appended event takes the next place and nothing ever moves.    *)
EXTENDS Sequences

CONSTANT Entries   \* what may be appended

VARIABLE log

Init == log = << >>

AppendEntry(e) == log' = Append(log, e)

Next == \E e \in Entries : AppendEntry(e)

Spec == Init /\ [][Next]_log
==============================================================================

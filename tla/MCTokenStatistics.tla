------------------------- MODULE MCTokenStatistics -------------------------
(* Two instances, a counter of a day that has ended and one of the month.   *)
EXTENDS TokenStatistics

CONSTANTS e1, e2, day, month, i1, i2, w1, l1, f1

MCFieldsOf == [e \in Events |-> {day, month}]
MCSecondOfDay == [e \in Events |-> IF e = e1 THEN {day, month} ELSE {day}]
MCTokensOf == [e \in Events |-> IF e = e1 THEN 2 ELSE 1]
MCHome == [x \in Workers \cup Procs |-> IF x = l1 THEN i2 ELSE i1]
=============================================================================

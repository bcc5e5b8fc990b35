---------------------------- MODULE MCAuditSink ----------------------------
(* Two processes that write to the same correlations.                      *)
EXTENDS AuditSink

(* Odd events are the first process's, even ones the second's.             *)
CONSTANTS p1, p2
Alternating == [e \in Events |-> IF e % 2 = 1 THEN p1 ELSE p2]
(* Correlation 1 or 2; the first process meets 2 first.                    *)
TwoRequests == [e \in Events |-> IF e \in {1, 3, 4} THEN 2 ELSE 1]
=============================================================================

---------------------------- MODULE MCProactive -----------------------------
(* Small instances of Proactive: at most three messages, two dispatchers.   *)
EXTENDS Proactive, TLC

CONSTANTS m1, m2, m3, w1, w2

OneRecipient == [m \in Messages |-> "ana"]
TwoRecipients == [m \in Messages |-> IF m = m1 THEN "ana" ELSE "luis"]

Unlimited == [count |-> 9, window |-> 0]
OnePerTick == [count |-> 1, window |-> 1]
OnePerTwo == [count |-> 1, window |-> 2]
TwoPerTick == [count |-> 2, window |-> 1]

(* Workers are interchangeable, and so are the messages of one recipient.   *)
Symmetric == Permutations(Workers) \cup Permutations({m2, m3})
=============================================================================

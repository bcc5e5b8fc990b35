------------------------------ MODULE MCOutbox ------------------------------
(* Small instances of Outbox: at most three messages of one or two          *)
(* conversations, served by at most two workers.                            *)
EXTENDS OutboxDelivery, TLC

CONSTANTS m1, m2, m3, w1, w2, r1, r2

OneConversation == [m \in Messages |-> "c1"]
TwoConversations == [m \in Messages |-> IF m = m2 THEN "c2" ELSE "c1"]

TwoAttempts == [m \in Messages |-> 2]
OneAttempt  == [m \in Messages |-> 1]

(* Workers and reply texts are interchangeable; messages are not, once two  *)
(* of them share a conversation.                                            *)
Symmetric == Permutations(Workers) \cup Permutations(Replies)
=============================================================================

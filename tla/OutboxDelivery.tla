--------------------------- MODULE OutboxDelivery ---------------------------
(***************************************************************************)
(* The outbox and its workers implement ReplyDelivery.  A message is in the *)
(* state of its row (a row still being inserted does not exist yet), its    *)
(* answer is the row's outbound_body, and what was sent is counted at the   *)
(* provider.                                                                *)
(***************************************************************************)
EXTENDS Outbox

StateOf(m) == IF row[m].status = "inserting" THEN "absent" ELSE row[m].status

(* How often the message's answer reached the provider.                     *)
SentOf(m) == IF row[m].body = NoBody THEN 0 ELSE sends[m][row[m].body]

Delivery == INSTANCE ReplyDelivery WITH
  state  <- [m \in Messages |-> StateOf(m)],
  answer <- [m \in Messages |-> row[m].body],
  sent   <- [m \in Messages |-> SentOf(m)]

(* Every step of the transactions, workers and crashes is a step of the     *)
(* promise or invisible to it.                                              *)
DeliverySpec == Delivery!Spec

(* The promise including its liveness: every accepted message is settled.   *)
DeliveryFairSpec == Delivery!FairSpec
=============================================================================

--------------------------- MODULE ReplyDelivery ---------------------------
(***************************************************************************)
(* What the durable message path promises of each inbound message, with no  *)
(* workers, leases, attempts or time: a message once accepted gets at most  *)
(* one answer, fixed before anything is sent; it may be sent more than once *)
(* (at-least-once towards the provider) except for the fallback notice,     *)
(* which is sent at most once and only for a message that failed; and every *)
(* accepted message is settled in the end.                                  *)
(***************************************************************************)
EXTENDS Naturals

CONSTANTS Messages, Replies, Fallback, NoBody

VARIABLES state, answer, sent

deliveryVars == <<state, answer, sent>>

Init ==
  /\ state = [m \in Messages |-> "absent"]
  /\ answer = [m \in Messages |-> NoBody]
  /\ sent = [m \in Messages |-> 0]

(* accept_inbound_message returned: the message is durable.                 *)
Accept(m) ==
  /\ state[m] = "absent"
  /\ state' = [state EXCEPT ![m] = "open"]
  /\ UNCHANGED <<answer, sent>>

(* persist_outbound_intent: the answer is fixed.                            *)
Answer(m, r) ==
  /\ state[m] = "open" /\ answer[m] = NoBody
  /\ answer' = [answer EXCEPT ![m] = r]
  /\ UNCHANGED <<state, sent>>

(* send_text reached the provider.                                          *)
Deliver(m) ==
  /\ answer[m] # NoBody
  /\ answer[m] = Fallback => state[m] = "failed" /\ sent[m] = 0
  /\ sent' = [sent EXCEPT ![m] = @ + 1]
  /\ UNCHANGED <<state, answer>>

Finish(m) ==
  /\ state[m] = "open"
  /\ state' = [state EXCEPT ![m] = "completed"]
  /\ UNCHANGED <<answer, sent>>

(* Messages given up together (one claim may terminalize several rows), or  *)
(* one whose user is owed the fallback notice.                              *)
GiveUp(S) ==
  /\ S # {} /\ \A m \in S : state[m] = "open"
  /\ state' = [m \in Messages |-> IF m \in S THEN "failed" ELSE state[m]]
  /\ UNCHANGED sent

Abandon(S) == GiveUp(S) /\ UNCHANGED answer

Apologize(m) ==
  /\ GiveUp({m})
  /\ answer[m] = NoBody
  /\ answer' = [answer EXCEPT ![m] = Fallback]

Next ==
  \/ \E m \in Messages :
       \/ Accept(m) \/ Deliver(m) \/ Finish(m) \/ Apologize(m)
       \/ \E r \in Replies : Answer(m, r)
  \/ \E S \in SUBSET Messages : Abandon(S)

Settle(m) == state[m] = "open" /\ Next /\ state'[m] # "open"

Spec == Init /\ [][Next]_deliveryVars
FairSpec == Spec /\ \A m \in Messages : WF_deliveryVars(Settle(m))
=============================================================================

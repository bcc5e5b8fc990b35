---------------------------- MODULE MCAgentTurn -----------------------------
(* Two turns of one thread, a role with a harmless tool and one that writes.*)
EXTENDS AgentTurn, TLC

CONSTANTS t1, t2

(* `act' and `wipe' derive from `touch' and raise its tier.                 *)
Classes == {"look", "touch", "act", "wipe"}
Ancestors == [c \in Classes |-> IF c \in {"act", "wipe"} THEN {c, "touch"} ELSE {c}]
Tiers == [look |-> 0, touch |-> 1, act |-> 2, wipe |-> 3]

Plain(tier, required) ==
  [tier |-> tier, required |-> required, always |-> FALSE, memory |-> {}, scope |-> 0,
   facts |-> FALSE, scoped |-> FALSE, async |-> TRUE]
Specs == [read |-> Plain(0, {"look"}), write |-> Plain(2, {"act"})]
Names == DOMAIN Specs

Assistant == [permissions |-> Classes \ {"wipe"}, tools |-> Names, untrusted |-> FALSE,
              policy |-> [valid |-> TRUE, read |-> 0, write |-> 0, facts |-> FALSE]]
Granted == {"look", "touch", "act"}
(* The second turn's caller no longer holds `act', only its parent.         *)
Callers == [t \in Turns |-> IF t = t1 THEN Granted ELSE {"look", "touch"}]
(* The first turn's model asks for two tools at once, the second's for one. *)
TwoThenOne == [t \in Turns |-> IF t = t1 THEN 2 ELSE 1]
(* A day of one token in a month of two.                                    *)
DayAndMonth == [day |-> 1, month |-> 2]
MonthEndsDay == [day |-> {"day"}, month |-> {"day", "month"}]
(* Both ask for the tool that only the first one may run.                   *)
WriteOnly == [t \in Turns |-> {"write"}]
=============================================================================

-------------------------- MODULE MCSchedulePlaces --------------------------
(* Two instances of ScheduledTurns in one run, chosen at the start: one     *)
(* schedule of any recurrence with two runners, and three schedules that    *)
(* compete for one place with one runner.                                   *)
EXTENDS MCScheduledTurns

VARIABLE part

partVars == <<vars, part>>

Within ==
  IF part = "windows" THEN \A s \in {s2, s3} : row'[s] = NewRow
  ELSE /\ task'[w2] = IdleRun /\ clock' <= 2
       /\ \A s \in Schedules : row'[s].rec \in EveryTwo \cup {NoRecurrence}
Limited(A) == A /\ Within /\ UNCHANGED part

PartInit == Init /\ part \in {"windows", "places"}
PartNext == Limited(Next)
PartFairness ==
  \A w \in Workers : WF_partVars(Limited(Step(w))) /\ SF_partVars(Limited(ClaimDue(w)))
PartSpec == PartInit /\ [][PartNext]_partVars /\ PartFairness
=============================================================================

-------------------------- MODULE MCScheduledTurns --------------------------
(* Small instances of ScheduledTurns: at most three schedules of one user   *)
(* and two runners.                                                         *)
EXTENDS ScheduledTurns, TLC

CONSTANTS s1, s2, s3, w1, w2

OneOwner == [s \in Schedules |-> "ana"]

AllDays == 0 .. 6
Interval(n) == [kind |-> "interval", every |-> n, at |-> 0, days |-> AllDays]
Clock(at, days) == [kind |-> "clock", every |-> 1, at |-> at, days |-> days]

EveryTwo == {Interval(2)}
EveryThree == {Interval(3)}
Daily == {Clock(1, AllDays)}
Mixed == {Interval(2), Interval(1), Clock(1, AllDays), Clock(0, {1})}

NoOffset(d) == 0
(* The zone moves one tick ahead from day 1 on.                             *)
SpringForward(d) == IF d >= 1 THEN 1 ELSE 0
=============================================================================

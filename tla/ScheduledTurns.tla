--------------------------- MODULE ScheduledTurns ---------------------------
(***************************************************************************)
(* Scheduled turns (schedules.py, services/schedules_postgres.py): a user   *)
(* stores recurring requests, several ScheduledTurnRunners claim the due    *)
(* ones, run each as a turn of its owner and queue the reply with the       *)
(* proactive sender.  A claim moves the schedule to its next window in the  *)
(* same transaction.  A run reads the clock once, when it starts.           *)
(*                                                                          *)
(* A recurrence is every `every' ticks of UTC, or at the wall-clock time    *)
(* `at' of the days whose number modulo 7 is in `days' (all: daily, one:    *)
(* weekly), in a zone that is Offset(d) ticks ahead of UTC on day d.        *)
(***************************************************************************)
EXTENDS Integers, FiniteSets, Sequences

CONSTANTS
  Schedules, Workers,
  OwnerOf,         \* the subject of each schedule
  NoOne,           \* a worker that holds no schedule
  Recurrences,     \* what users ask for: [kind, every, at, days]
  MinInterval,     \* min_interval_s
  MaxPerUser,      \* max_per_user
  Grace,           \* missed_grace_s
  Day,             \* ticks in a day
  Offset(_),
  QuietFrom, QuietTo, \* quiet hours as times of a UTC day
  Horizon          \* bound on the clock

ASSUME ScheduleAssumption ==
  /\ Recurrences \subseteq [kind : {"interval", "clock"}, every : Nat \ {0},
                            at : 0 .. Day - 1, days : (SUBSET (0 .. 6)) \ {{}}]
  /\ MinInterval \in Nat \ {0} /\ MaxPerUser \in Nat \ {0} /\ Grace \in Nat
  /\ Day \in Nat \ {0} /\ QuietFrom \in 0 .. Day - 1 /\ QuietTo \in 0 .. Day - 1
  /\ Horizon \in Nat /\ NoOne \notin Schedules /\ IsFiniteSet(Schedules)
  /\ \A d \in -1 .. Horizon + 8 : Offset(d) \in 0 .. Day - 1

VARIABLES
  row,     \* subject_schedules
  task,    \* each runner's run_once
  turns,   \* the turns started for each schedule, as [window, at]
  queued,  \* the windows whose reply was handed to the proactive queue
  clock

vars == <<row, task, turns, queued, clock>>

Phases == {"absent", "asked", "counted", "active", "refused", "deleted"}
PCs == {"idle", "claim", "check", "authorize", "turn", "reply", "record"}
NoRecurrence == [kind |-> "none"]

Row == [phase : Phases, rec : Recurrences \cup {NoRecurrence},
        first : Nat, next : Nat, last : Nat]
RunState == [pc : PCs, now : Nat, holds : Schedules \cup {NoOne}, window : Nat]
Turn == [window : Nat, at : Nat]

NewRow == [phase |-> "absent", rec |-> NoRecurrence, first |-> 0, next |-> 0, last |-> 0]
IdleRun == [pc |-> "idle", now |-> 0, holds |-> NoOne, window |-> 0]

Init ==
  /\ row = [s \in Schedules |-> NewRow]
  /\ task = [w \in Workers |-> IdleRun]
  /\ turns = [s \in Schedules |-> <<>>]
  /\ queued = [s \in Schedules |-> {}]
  /\ clock = 0

-----------------------------------------------------------------------------
(* Recurrence.next_after and following.                                     *)
Least(S) == CHOOSE x \in S : \A y \in S : x <= y

Wall(r, d) == d * Day + r.at - Offset(d)
OnDays(r, t) == {d \in (t \div Day) - 1 .. (t \div Day) + 8 : d % 7 \in r.days}

NextAfterAny(r, t) ==
  IF r.kind = "interval" THEN t + r.every ELSE Least({Wall(r, d) : d \in OnDays(r, t)})
NextAfter(r, t) ==
  IF r.kind = "interval" THEN t + r.every
  ELSE Least({Wall(r, d) : d \in OnDays(r, t)} \cap (t + 1 .. t + 9 * Day))

FollowingFromNow(r, due, now) == NextAfter(r, now)
FollowingOneStep(r, due, now) == NextAfter(r, due)
Following(r, due, now) ==
  IF r.kind = "interval" THEN due + r.every * ((now - due) \div r.every + 1)
                         ELSE NextAfter(r, now)

MinGap(r) == IF r.kind = "interval" THEN r.every
             ELSE IF Cardinality(r.days) > 1 THEN Day ELSE 7 * Day

InQuiet(t) == LET d == t % Day IN
  IF QuietFrom <= QuietTo THEN QuietFrom <= d /\ d < QuietTo
                          ELSE QuietFrom <= d \/ d < QuietTo

-----------------------------------------------------------------------------
(* create_schedule: the checks of the tool, then add, which counts the      *)
(* subject's rows and inserts under the subject's advisory lock.            *)
Active(s) == row[s].phase = "active"
Held(u) == {s \in Schedules : Active(s) /\ OwnerOf[s] = u}

Ask(s) ==
  /\ row[s].phase = "absent"
  /\ \E r \in Recurrences :
       /\ MinGap(r) >= MinInterval
       /\ r.kind = "clock" => ~InQuiet(NextAfter(r, clock))
       /\ row' = [row EXCEPT ![s] = [@ EXCEPT !.phase = "asked", !.rec = r,
                    !.first = NextAfter(r, clock), !.next = NextAfter(r, clock)]]
  /\ UNCHANGED <<task, turns, queued, clock>>

LockIgnored(u) == TRUE
LockFree(u) == ~\E s \in Schedules : row[s].phase = "counted" /\ OwnerOf[s] = u

Count(s) ==
  /\ row[s].phase = "asked" /\ LockFree(OwnerOf[s])
  /\ row' = [row EXCEPT ![s].phase =
               IF Cardinality(Held(OwnerOf[s])) >= MaxPerUser THEN "refused"
                                                              ELSE "counted"]
  /\ UNCHANGED <<task, turns, queued, clock>>

Insert(s) ==
  /\ row[s].phase = "counted"
  /\ row' = [row EXCEPT ![s].phase = "active"]
  /\ UNCHANGED <<task, turns, queued, clock>>

(* The create's transaction is lost: rolled back, the lock released.        *)
Abort(s) ==
  /\ row[s].phase \in {"asked", "counted"}
  /\ row' = [row EXCEPT ![s].phase = "refused"]
  /\ UNCHANGED <<task, turns, queued, clock>>

(* delete_schedule, and the operator's delete of a whole subject.           *)
Removed(S) ==
  row' = [s \in Schedules |-> IF s \in S THEN [row[s] EXCEPT !.phase = "deleted"]
                                         ELSE row[s]]
Delete(s) ==
  /\ Active(s)
  /\ Removed({s})
  /\ UNCHANGED <<task, turns, queued, clock>>

DeleteSubject(u) ==
  /\ Held(u) # {}
  /\ Removed(Held(u))
  /\ UNCHANGED <<task, turns, queued, clock>>

-----------------------------------------------------------------------------
(* run_once.                                                                *)
Run(w, t) == task' = [task EXCEPT ![w] = t]
Goto(w, pc) == Run(w, [task[w] EXCEPT !.pc = pc])

StartRun(w) ==
  /\ task[w].pc = "idle"
  /\ Run(w, [IdleRun EXCEPT !.pc = "claim", !.now = clock])
  /\ UNCHANGED <<row, turns, queued, clock>>

(* claim_due.  SKIP LOCKED may pass over the earliest one.                  *)
OverdueOnly(w) == {s \in Schedules : Active(s) /\ row[s].next < task[w].now}
Due(w) == {s \in Schedules : Active(s) /\ row[s].next <= task[w].now}

ClaimOnly(w, s) == row[s]
Claimed(w, s) ==
  [row[s] EXCEPT !.next = Following(row[s].rec, row[s].next, task[w].now)]

ClaimDue(w) ==
  /\ task[w].pc = "claim"
  /\ \/ /\ Due(w) = {}
        /\ Run(w, IdleRun)
        /\ UNCHANGED row
     \/ \E s \in Due(w) :
          /\ row' = [row EXCEPT ![s] = Claimed(w, s)]
          /\ Run(w, [task[w] EXCEPT !.pc = "check", !.holds = s, !.window = row[s].next])
  /\ UNCHANGED <<turns, queued, clock>>

(* The checks before the turn.  The runtime may be unavailable or no longer *)
(* granted write:schedule, whatever the window.                             *)
InWindow(w) == /\ task[w].now - task[w].window <= Grace
               /\ ~InQuiet(task[w].now)
Check(w) ==
  /\ task[w].pc = "check"
  /\ \/ InWindow(w) /\ Goto(w, "authorize")
     \/ Goto(w, "record")
  /\ UNCHANGED <<row, turns, queued, clock>>

(* The directory authorizes the owner, or refuses, or fails.                *)
Authorize(w) ==
  /\ task[w].pc = "authorize"
  /\ \/ Goto(w, "turn")
     \/ Goto(w, "record")
  /\ UNCHANGED <<row, turns, queued, clock>>

RunTurn(w) ==
  /\ task[w].pc = "turn"
  /\ turns' = [turns EXCEPT ![task[w].holds] =
                 Append(@, [window |-> task[w].window, at |-> task[w].now])]
  /\ Goto(w, "reply")
  /\ UNCHANGED <<row, queued, clock>>

(* The turn's reply is submitted, unless the turn failed, ran out of budget *)
(* or time, or said nothing, or the sender refused or failed.               *)
Deliver(w) ==
  /\ task[w].pc = "reply"
  /\ \/ queued' = [queued EXCEPT ![task[w].holds] = @ \cup {task[w].window}]
     \/ UNCHANGED queued
  /\ Goto(w, "record")
  /\ UNCHANGED <<row, turns, clock>>

(* record: last_run_at and last_status of a row that is still there; or the *)
(* store fails, which the runner only logs.                                 *)
Upserted(w, s) == [row[s] EXCEPT !.last = task[w].now, !.phase = "active"]
Recorded(w, s) == IF Active(s) THEN [row[s] EXCEPT !.last = task[w].now] ELSE row[s]

Record(w) ==
  /\ task[w].pc = "record"
  /\ \/ row' = [row EXCEPT ![task[w].holds] = Recorded(w, task[w].holds)]
     \/ UNCHANGED row
  /\ Run(w, IdleRun)
  /\ UNCHANGED <<turns, queued, clock>>

(* The runner is cancelled, or its process dies, between two steps.         *)
Crash(w) ==
  /\ task[w].pc # "idle"
  /\ Run(w, IdleRun)
  /\ UNCHANGED <<row, turns, queued, clock>>

Tick ==
  /\ clock < Horizon
  /\ clock' = clock + 1
  /\ UNCHANGED <<row, task, turns, queued>>

Step(w) == \/ StartRun(w) \/ ClaimDue(w) \/ Check(w) \/ Authorize(w)
           \/ RunTurn(w) \/ Deliver(w) \/ Record(w)

Next ==
  \/ \E s \in Schedules : Ask(s) \/ Count(s) \/ Insert(s) \/ Abort(s) \/ Delete(s)
  \/ \E u \in {OwnerOf[s] : s \in Schedules} : DeleteSubject(u)
  \/ \E w \in Workers : Step(w) \/ Crash(w)
  \/ Tick

Spec == Init /\ [][Next]_vars

(* A deployment's loop keeps calling run_once, a run that is not cancelled  *)
(* goes on, and now and then one reaches its claim.                         *)
Fairness == \A w \in Workers : WF_vars(Step(w)) /\ SF_vars(ClaimDue(w))
FairSpec == Spec /\ Fairness

-----------------------------------------------------------------------------
(* Type correctness of the schedules, the runs and what they produced.      *)
TypeOK ==
  /\ row \in [Schedules -> Row]
  /\ task \in [Workers -> RunState]
  /\ turns \in [Schedules -> Seq(Turn)]
  /\ queued \in [Schedules -> SUBSET Nat]
  /\ clock \in Nat

(* "One window runs at most once across workers and restarts".              *)
WindowRunsOnce ==
  \A s \in Schedules : \A i, j \in DOMAIN turns[s] :
    turns[s][i].window = turns[s][j].window => i = j

(* "An interval schedule keeps its cadence": late claims never shift the    *)
(* windows off the grid of the first one, and daily and weekly windows are  *)
(* always the wall-clock time asked for.                                    *)
OnGrid(s, t) ==
  IF row[s].rec.kind = "interval" THEN (t - row[s].first) % row[s].rec.every = 0
  ELSE \E d \in OnDays(row[s].rec, t) : Wall(row[s].rec, d) = t
CadenceKept ==
  \A s \in Schedules : Active(s) =>
    /\ OnGrid(s, row[s].next)
    /\ \A i \in DOMAIN turns[s] : OnGrid(s, turns[s][i].window)

(* "Skipped, not caught up": after a run at some moment, no window that was *)
(* already past at that moment is run, so an outage is not followed by a    *)
(* burst of turns.                                                          *)
NoCatchUp ==
  \A s \in Schedules : \A i, j \in DOMAIN turns[s] :
    turns[s][i].window < turns[s][j].window => turns[s][i].at < turns[s][j].window

(* "Skipped, not caught up", and on the grid of the recurrence.             *)
RunsOnTime == CadenceKept /\ NoCatchUp

(* The cap per user holds although creates of one user run at once.         *)
CapHeld == \A s \in Schedules : Cardinality(Held(OwnerOf[s])) <= MaxPerUser

(* A deleted schedule does not come back with a late record of a run.       *)
DeletedStaysDeleted ==
  [][\A s \in Schedules : row[s].phase = "deleted" => row'[s].phase = "deleted"]_vars

(* Every due window is claimed, by whichever runner survives.               *)
DueIsClaimed ==
  \A s \in Schedules :
    (Active(s) /\ row[s].next <= clock) ~> ~(Active(s) /\ row[s].next <= clock)

(* min_interval_s is "the shortest gap between two runs".                   *)
RunsFarApart ==
  \A s \in Schedules : \A i, j \in DOMAIN turns[s] :
    turns[s][i].at < turns[s][j].at => turns[s][j].at - turns[s][i].at >= MinInterval

(* "A schedule ends when it is deleted": it delivers nothing after that.    *)
EndsWhenDeleted ==
  [][\A s \in Schedules : row[s].phase = "deleted" => queued'[s] = queued[s]]_vars

(* "A schedule whose time of day falls inside quiet hours is refused when   *)
(* it is created": no accepted daily or weekly window is a quiet one.       *)
AcceptedIsNotQuiet ==
  \A s \in Schedules :
    Active(s) /\ row[s].rec.kind = "clock" => ~InQuiet(row[s].next)

(* The stored outcome is the last one: it never goes back to an older run.  *)
LastRunAdvances ==
  [][\A s \in Schedules : row'[s].last >= row[s].last]_vars
=============================================================================

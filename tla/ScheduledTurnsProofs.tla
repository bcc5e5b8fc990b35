------------------------ MODULE ScheduledTurnsProofs ------------------------
(* Machine-checked theorems about ScheduledTurns, for any number of         *)
(* schedules, owners and runners, any recurrences, zones and bounds.        *)
EXTENDS ScheduledTurns, TLAPS, WellFoundedInduction, FiniteSetTheorems

-----------------------------------------------------------------------------
(* What the next window is.                                                 *)

(* Least picks an element.                                                 *)
LEMMA LeastIs ==
  ASSUME NEW S \in SUBSET Nat, S # {}
  PROVE  Least(S) \in S
<1>1. \E x \in S : \A y \in S : ~ (<<y, x>> \in OpToRel(<, Nat))
  BY WFMin, NatLessThanWellFounded, Zenon
<1>2. PICK x \in S : \A y \in S : ~ (<<y, x>> \in OpToRel(<, Nat))
  BY <1>1
<1>3. \A y \in S : ~ (y < x)
  BY <1>2 DEF OpToRel
<1>4. \A y \in S : x <= y
  BY <1>3
<1> QED
  BY <1>4 DEF Least

(* Division by a positive number.                                           *)
LEMMA DivBounds ==
  ASSUME NEW t \in Nat, NEW D \in Nat \ {0}
  PROVE  /\ t \div D \in Nat
         /\ D * (t \div D) <= t /\ t < D * (t \div D) + D
OBVIOUS

(* Seven days in a row hold every day of the week.                          *)
LEMMA DayBetween ==
  ASSUME NEW q \in Nat, NEW k \in 0 .. 6
  PROVE  \E d \in q + 2 .. q + 8 : d % 7 = k
<1> DEFINE d == q + 2 + ((k - (q + 2)) % 7)
<1>1. d \in q + 2 .. q + 8
  OBVIOUS
<1>2. d % 7 = k
  OBVIOUS
<1> QED
  BY <1>1, <1>2

(* Multiplication keeps order.                                              *)
LEMMA TimesKeepsOrder ==
  ASSUME NEW D \in Nat \ {0}, NEW a \in Nat, NEW b \in Nat, a <= b
  PROVE  a * D <= b * D
OBVIOUS

(* A daily or weekly time comes round within the nine days next_after tries.*)
LEMMA ClockWindow ==
  ASSUME NEW r \in Recurrences, NEW t \in 0 .. Horizon
  PROVE  \E x \in {Wall(r, d) : d \in OnDays(r, t)} : x \in t + 1 .. t + 9 * Day
<1> USE ScheduleAssumption
<1> DEFINE q == t \div Day
<1>1. q \in Nat /\ Day * q <= t /\ t < Day * q + Day /\ q <= t
  BY DivBounds, TimesKeepsOrder
<1>2. PICK k \in 0 .. 6 : k \in r.days
  OBVIOUS
<1>3. PICK d \in q + 2 .. q + 8 : d % 7 = k
  BY <1>1, <1>2, DayBetween
<1>4. d \in OnDays(r, t)
  BY <1>1, <1>2, <1>3 DEF OnDays
<1>5. Offset(d) \in 0 .. Day - 1 /\ r.at \in 0 .. Day - 1
  BY <1>1, <1>3
<1>6. (q + 2) * Day <= d * Day /\ d * Day <= (q + 8) * Day
  BY <1>1, <1>3, TimesKeepsOrder
<1>7. (q + 2) * Day = Day * q + 2 * Day /\ (q + 8) * Day = Day * q + 8 * Day
  BY <1>1
<1>8. d * Day \in Nat /\ Day * q \in Nat
  BY <1>1, <1>3
<1> HIDE DEF q
<1>9. Wall(r, d) \in t + 1 .. t + 9 * Day
  BY <1>1, <1>5, <1>6, <1>7, <1>8 DEF Wall
<1> QED
  BY <1>4, <1>9

(* The next window is later than now.                                       *)
LEMMA NextIsLater ==
  ASSUME NEW r \in Recurrences, NEW t \in 0 .. Horizon
  PROVE  NextAfter(r, t) \in Nat /\ NextAfter(r, t) > t
<1> USE ScheduleAssumption
<1>1. CASE r.kind = "interval"
  BY <1>1 DEF NextAfter
<1>2. CASE r.kind # "interval"
  <2> DEFINE S == {Wall(r, d) : d \in OnDays(r, t)} \cap (t + 1 .. t + 9 * Day)
  <2>1. S \in SUBSET Nat /\ S # {} /\ \A x \in S : x > t
    BY ClockWindow
  <2>2. Least(S) \in S
    BY <2>1, LeastIs
  <2>3. NextAfter(r, t) = Least(S)
    BY <1>2 DEF NextAfter
  <2> QED
    BY <2>1, <2>2, <2>3
<1> QED
  BY <1>1, <1>2

(* A claim moves a window that was due to a later one than now.             *)
LEMMA FollowingIsLater ==
  ASSUME NEW r \in Recurrences, NEW now \in 0 .. Horizon, NEW due \in 0 .. now
  PROVE  Following(r, due, now) \in Nat /\ Following(r, due, now) > now
<1> USE ScheduleAssumption
<1>1. CASE r.kind = "interval"
  <2>1. r.every \in Nat \ {0} /\ now - due \in Nat
    OBVIOUS
  <2> DEFINE n == (now - due) \div r.every
  <2>2. n \in Nat /\ now - due < r.every * n + r.every
    BY <2>1, DivBounds
  <2>3. r.every * (n + 1) = r.every * n + r.every /\ r.every * n \in Nat
    BY <2>1, <2>2
  <2>4. Following(r, due, now) = due + r.every * (n + 1)
    BY <1>1 DEF Following
  <2> HIDE DEF n
  <2> QED
    BY <2>1, <2>2, <2>3, <2>4
<1>2. CASE r.kind # "interval"
  BY <1>2, NextIsLater DEF Following
<1> QED
  BY <1>1, <1>2

-----------------------------------------------------------------------------
(* Type correctness.                                                        *)

(* A run that has claimed a window and not yet recorded its outcome.        *)
Holding == {"check", "authorize", "turn", "reply", "record"}

InTime ==
  /\ clock <= Horizon
  /\ \A w \in Workers : task[w].now <= Horizon
HoldsOne == \A w \in Workers : task[w].pc \in Holding => task[w].holds \in Schedules
Accepted == \A s \in Schedules : row[s].phase # "absent" => row[s].rec \in Recurrences

Typed == TypeOK /\ InTime /\ HoldsOne /\ Accepted

(* Writing a phase or a last run leaves a row, and keeps its recurrence.    *)
LEMMA RowUpdates ==
  ASSUME NEW r \in Row
  PROVE  /\ \A p \in Phases : /\ [r EXCEPT !.phase = p] \in Row
                             /\ [r EXCEPT !.phase = p].rec = r.rec
                             /\ [r EXCEPT !.phase = p].phase = p
         /\ \A n \in Nat : /\ [r EXCEPT !.last = n] \in Row
                          /\ [r EXCEPT !.last = n].rec = r.rec
                          /\ [r EXCEPT !.last = n].phase = r.phase
  BY DEF Row, Phases

(* A run that goes on to another step is a run.                             *)
LEMMA RunUpdates ==
  ASSUME NEW r \in RunState
  PROVE  \A p \in PCs : LET t == [r EXCEPT !.pc = p] IN
           /\ t \in RunState /\ t.pc = p /\ t.now = r.now
           /\ t.holds = r.holds /\ t.window = r.window
  BY DEF RunState, PCs

(* So is one that has not started.                                          *)
LEMMA IdleRuns == IdleRun \in RunState /\ IdleRun.pc = "idle" /\ IdleRun.now = 0
  BY DEF IdleRun, RunState, PCs

(* What replacing one run does.                                             *)
LEMMA RunTyped ==
  ASSUME Typed, NEW w \in Workers, NEW t \in RunState, Run(w, t), t.now <= Horizon,
         t.pc \in Holding => t.holds \in Schedules
  PROVE  /\ task' \in [Workers -> RunState] /\ HoldsOne'
         /\ \A v \in Workers : task'[v].now <= Horizon
  BY DEF Typed, TypeOK, InTime, HoldsOne, Run

(* A run that goes on, or ends.                                             *)
LEMMA GotoTyped ==
  ASSUME Typed, NEW w \in Workers, NEW p \in PCs, Goto(w, p),
         p \in Holding => task[w].pc \in Holding
  PROVE  /\ task' \in [Workers -> RunState] /\ HoldsOne'
         /\ \A v \in Workers : task'[v].now <= Horizon
<1> DEFINE t == [task[w] EXCEPT !.pc = p]
<1>1. task[w] \in RunState /\ task[w].now <= Horizon
  BY DEF Typed, TypeOK, InTime
<1>2. t \in RunState /\ t.pc = p /\ t.now <= Horizon /\ t.holds = task[w].holds
  BY <1>1, RunUpdates
<1>3. t.pc \in Holding => t.holds \in Schedules
  BY <1>2 DEF Typed, HoldsOne
<1>4. Run(w, t)
  BY DEF Goto
<1> HIDE DEF t
<1> QED
  BY <1>2, <1>3, <1>4, RunTyped

(* A run that ends.                                                         *)
LEMMA IdleTyped ==
  ASSUME Typed, NEW w \in Workers, Run(w, IdleRun)
  PROVE  /\ task' \in [Workers -> RunState] /\ HoldsOne'
         /\ \A v \in Workers : task'[v].now <= Horizon
<1>1. 0 <= Horizon
  BY ScheduleAssumption
<1>2. IdleRun \in RunState /\ IdleRun.pc \notin Holding /\ IdleRun.now <= Horizon
  BY <1>1 DEF IdleRun, RunState, PCs, Holding
<1> QED
  BY <1>2, RunTyped

(* Every step of a creator, the operator or the clock keeps the types.      *)
LEMMA TypedOutside ==
  ASSUME Typed,
         \/ \E s \in Schedules : Ask(s) \/ Count(s) \/ Insert(s) \/ Abort(s) \/ Delete(s)
         \/ \E u \in {OwnerOf[s] : s \in Schedules} : DeleteSubject(u)
         \/ Tick
         \/ UNCHANGED vars
  PROVE  Typed'
<1> USE DEF Typed, TypeOK, InTime, HoldsOne, Accepted
<1>1. ASSUME NEW s \in Schedules, Ask(s) PROVE Typed'
  <2>1. PICK r \in Recurrences :
          row' = [row EXCEPT ![s] = [@ EXCEPT !.phase = "asked", !.rec = r,
                    !.first = NextAfter(r, clock), !.next = NextAfter(r, clock)]]
    BY <1>1 DEF Ask
  <2>2. NextAfter(r, clock) \in Nat
    BY NextIsLater
  <2> DEFINE q == [row[s] EXCEPT !.phase = "asked", !.rec = r,
                     !.first = NextAfter(r, clock), !.next = NextAfter(r, clock)]
  <2>3. q \in Row /\ q.rec = r
    BY <2>2 DEF Row, Phases
  <2>4. row' = [row EXCEPT ![s] = q]
    BY <2>1
  <2> HIDE DEF q
  <2> QED
    BY <1>1, <2>3, <2>4 DEF Ask
<1>2. ASSUME NEW s \in Schedules, NEW p \in Phases, row[s].phase # "absent",
             row' = [row EXCEPT ![s].phase = p], UNCHANGED <<task, turns, queued, clock>>
      PROVE  Typed'
  <2>1. row' = [row EXCEPT ![s] = [row[s] EXCEPT !.phase = p]]
    BY <1>2 DEF Row
  <2>2. [row[s] EXCEPT !.phase = p] \in Row /\ [row[s] EXCEPT !.phase = p].rec = row[s].rec
    BY RowUpdates
  <2> QED
    BY <1>2, <2>1, <2>2
<1>3. ASSUME NEW s \in Schedules, Count(s) \/ Insert(s) \/ Abort(s) PROVE Typed'
  <2>1. PICK p \in Phases : row' = [row EXCEPT ![s].phase = p]
    BY <1>3 DEF Count, Insert, Abort, Phases
  <2> QED
    BY <1>2, <1>3, <2>1 DEF Count, Insert, Abort
<1>4. ASSUME NEW S, Removed(S), UNCHANGED <<task, turns, queued, clock>>,
             \A s \in S : row[s].phase # "absent"
      PROVE  Typed'
  <2>1. \A s \in Schedules : LET q == [row[s] EXCEPT !.phase = "deleted"]
                             IN q \in Row /\ q.rec = row[s].rec
    BY RowUpdates DEF Phases
  <2> QED
    BY <1>4, <2>1 DEF Removed
<1>5. ASSUME NEW s \in Schedules, Delete(s) PROVE Typed'
  BY <1>4, <1>5 DEF Delete, Active
<1>6. ASSUME NEW u, DeleteSubject(u) PROVE Typed'
  BY <1>4, <1>6 DEF DeleteSubject, Held, Active
<1>7. ASSUME Tick PROVE Typed'
  BY <1>7, ScheduleAssumption DEF Tick
<1>8. ASSUME UNCHANGED vars PROVE Typed'
  BY <1>8 DEF vars
<1> QED
  BY <1>1, <1>3, <1>5, <1>6, <1>7, <1>8

(* The row of a claimed schedule.                                           *)
LEMMA ClaimedRow ==
  ASSUME Typed, NEW w \in Workers, NEW s \in Due(w)
  PROVE  /\ s \in Schedules /\ row[s].phase = "active" /\ row[s].next \in 0 .. task[w].now
         /\ Claimed(w, s) \in Row
         /\ Claimed(w, s).rec = row[s].rec /\ Claimed(w, s).first = row[s].first
         /\ Claimed(w, s).phase = "active" /\ Claimed(w, s).next > task[w].now
<1>1. /\ s \in Schedules /\ row[s].phase = "active" /\ row[s].next <= task[w].now
      /\ row[s] \in Row /\ task[w] \in RunState /\ task[w].now <= Horizon
  BY DEF Due, Active, Typed, TypeOK, InTime
<1>2. row[s].next \in 0 .. task[w].now /\ task[w].now \in 0 .. Horizon
  BY <1>1, ScheduleAssumption DEF Row, RunState
<1>3. row[s].rec \in Recurrences
  BY <1>1 DEF Typed, Accepted
<1> DEFINE n == Following(row[s].rec, row[s].next, task[w].now)
<1>4. n \in Nat /\ n > task[w].now
  BY <1>2, <1>3, FollowingIsLater
<1>5. Claimed(w, s) = [row[s] EXCEPT !.next = n]
  BY DEF Claimed
<1> HIDE DEF n
<1>6. /\ Claimed(w, s) \in Row
      /\ Claimed(w, s).rec = row[s].rec /\ Claimed(w, s).first = row[s].first
      /\ Claimed(w, s).phase = "active" /\ Claimed(w, s).next = n
  BY <1>1, <1>4, <1>5 DEF Row
<1> QED
  BY <1>1, <1>2, <1>4, <1>6

(* Every step of a runner keeps the types.                                  *)
LEMMA TypedStep ==
  ASSUME Typed, NEW w \in Workers, Step(w) \/ Crash(w)
  PROVE  Typed'
<1>0. /\ row \in [Schedules -> Row] /\ task \in [Workers -> RunState]
      /\ turns \in [Schedules -> Seq(Turn)] /\ queued \in [Schedules -> SUBSET Nat]
      /\ clock \in Nat /\ clock <= Horizon /\ Accepted
  BY DEF Typed, TypeOK, InTime
<1>1. SUFFICES /\ row' \in [Schedules -> Row] /\ Accepted'
               /\ task' \in [Workers -> RunState] /\ HoldsOne'
               /\ \A v \in Workers : task'[v].now <= Horizon
               /\ turns' \in [Schedules -> Seq(Turn)] /\ queued' \in [Schedules -> SUBSET Nat]
               /\ clock' = clock
  BY <1>0 DEF Typed, TypeOK, InTime
<1>2. ASSUME UNCHANGED row PROVE row' \in [Schedules -> Row] /\ Accepted'
  BY <1>0, <1>2 DEF Accepted
<1>3. CASE StartRun(w)
  <2> DEFINE t == [IdleRun EXCEPT !.pc = "claim", !.now = clock]
  <2>1. t \in RunState /\ t.now <= Horizon /\ t.pc \notin Holding
    BY <1>0 DEF IdleRun, RunState, PCs, Holding
  <2>2. Run(w, t)
    BY <1>3 DEF StartRun
  <2> HIDE DEF t
  <2> QED
    BY <1>0, <1>2, <1>3, <2>1, <2>2, RunTyped DEF StartRun
<1>4. CASE ClaimDue(w)
  <2>1. CASE Run(w, IdleRun) /\ UNCHANGED row
    BY <1>0, <1>2, <1>4, <2>1, IdleTyped DEF ClaimDue
  <2>2. ASSUME NEW s \in Due(w), row' = [row EXCEPT ![s] = Claimed(w, s)],
               Run(w, [task[w] EXCEPT !.pc = "check", !.holds = s, !.window = row[s].next])
        PROVE  /\ row' \in [Schedules -> Row] /\ Accepted'
               /\ task' \in [Workers -> RunState] /\ HoldsOne'
               /\ \A v \in Workers : task'[v].now <= Horizon
    <3> DEFINE t == [task[w] EXCEPT !.pc = "check", !.holds = s, !.window = row[s].next]
    <3>1. s \in Schedules /\ row[s].next \in Nat /\ task[w].now <= Horizon
      BY <1>0, ClaimedRow DEF Row, Typed, InTime
    <3>2. t \in RunState /\ t.now <= Horizon /\ t.holds \in Schedules
      BY <1>0, <3>1 DEF RunState, PCs
    <3> HIDE DEF t
    <3>3. Run(w, t)
      BY <2>2 DEF t
    <3>4. task' \in [Workers -> RunState] /\ HoldsOne' /\ \A v \in Workers : task'[v].now <= Horizon
      BY <3>2, <3>3, RunTyped
    <3>5. row' \in [Schedules -> Row] /\ Accepted'
      BY <1>0, <2>2, ClaimedRow DEF Accepted
    <3> QED
      BY <3>4, <3>5
  <2> QED
    BY <1>0, <1>4, <2>1, <2>2 DEF ClaimDue
<1>5. CASE Check(w)
  BY <1>0, <1>2, <1>5, GotoTyped DEF Check, Holding, PCs
<1>6. CASE Authorize(w)
  BY <1>0, <1>2, <1>6, GotoTyped DEF Authorize, Holding, PCs
<1>7. CASE RunTurn(w)
  <2>1. task[w].holds \in Schedules
    BY <1>7 DEF RunTurn, Typed, HoldsOne, Holding
  <2>2. [window |-> task[w].window, at |-> task[w].now] \in Turn
    BY <1>0 DEF RunState, Turn
  <2>3. turns' \in [Schedules -> Seq(Turn)]
    BY <1>0, <1>7, <2>1, <2>2 DEF RunTurn
  <2> QED
    BY <1>0, <1>2, <1>7, <2>3, GotoTyped DEF RunTurn, Holding, PCs
<1>8. CASE Deliver(w)
  <2>1. task[w].window \in Nat
    BY <1>0 DEF RunState
  <2>2. queued' \in [Schedules -> SUBSET Nat]
    BY <1>0, <1>8, <2>1 DEF Deliver
  <2> QED
    BY <1>0, <1>2, <1>8, <2>2, GotoTyped DEF Deliver, Holding, PCs
<1>9. CASE Record(w)
  <2>1. ASSUME NEW s \in Schedules, row' = [row EXCEPT ![s] = Recorded(w, s)]
        PROVE  row' \in [Schedules -> Row] /\ Accepted'
    <3>1. task[w].now \in Nat
      BY <1>0 DEF RunState
    <3>2. /\ Recorded(w, s) \in Row /\ Recorded(w, s).rec = row[s].rec
          /\ Recorded(w, s).phase = row[s].phase
      BY <1>0, <3>1, RowUpdates DEF Recorded
    <3> QED
      BY <1>0, <2>1, <3>2 DEF Accepted
  <2>2. task[w].holds \in Schedules
    BY <1>9 DEF Record, Typed, HoldsOne, Holding
  <2> QED
    BY <1>0, <1>2, <1>9, <2>1, <2>2, IdleTyped DEF Record
<1>10. CASE Crash(w)
  BY <1>0, <1>2, <1>10, IdleTyped DEF Crash
<1> QED
  BY <1>3, <1>4, <1>5, <1>6, <1>7, <1>8, <1>9, <1>10 DEF Step

(* The types hold at first.                                                 *)
LEMMA TypedInit ==
  ASSUME Init
  PROVE  Typed
<1>1. NewRow \in Row /\ NewRow.phase = "absent"
  BY DEF NewRow, Row, Phases
<1>2. \A w \in Workers : task[w] = IdleRun
  BY DEF Init
<1>3. row \in [Schedules -> Row] /\ task \in [Workers -> RunState]
  BY <1>1, IdleRuns DEF Init
<1>4. turns \in [Schedules -> Seq(Turn)] /\ queued \in [Schedules -> SUBSET Nat]
  BY DEF Init
<1>5. 0 <= Horizon /\ clock = 0
  BY ScheduleAssumption DEF Init
<1>6. InTime /\ HoldsOne
  BY <1>2, <1>5 DEF InTime, HoldsOne, Holding, IdleRun
<1>7. Accepted
  BY <1>1 DEF Accepted, Init
<1> QED
  BY <1>3, <1>4, <1>5, <1>6, <1>7 DEF Typed, TypeOK

(* Every step keeps the types.                                              *)
LEMMA TypedNext ==
  ASSUME Typed, [Next]_vars
  PROVE  Typed'
  BY TypedOutside, TypedStep DEF Next

(* Every reachable state is typed.                                          *)
LEMMA AlwaysTyped == Spec => []Typed
  BY TypedInit, TypedNext, PTL DEF Spec

(* The schedules, the runs and what they produced keep their types: above   *)
(* all, the next window is a time whatever the recurrence and the zone.     *)
THEOREM TypeCorrect == Spec => []TypeOK
<1>1. Typed => TypeOK
  BY DEF Typed
<1> QED
  BY <1>1, AlwaysTyped, PTL

-----------------------------------------------------------------------------
(* What a step of the runners leaves of the rows.                           *)

(* A record writes only the last run.                                       *)
LEMMA RecordedRow ==
  ASSUME Typed, NEW w \in Workers, NEW s \in Schedules
  PROVE  /\ Recorded(w, s).phase = row[s].phase /\ Recorded(w, s).next = row[s].next
         /\ Recorded(w, s).rec = row[s].rec /\ Recorded(w, s).first = row[s].first
<1>1. row[s] \in Row /\ task[w].now \in Nat
  BY DEF Typed, TypeOK, RunState
<1> QED
  BY <1>1 DEF Recorded, Row

(* A runner's step never writes a phase, and only a claim a next window.    *)
LEMMA RunnersKeepPhases ==
  ASSUME Typed, NEW w \in Workers, Step(w) \/ Crash(w), NEW s \in Schedules
  PROVE  /\ row'[s].phase = row[s].phase
         /\ row'[s].rec = row[s].rec /\ row'[s].first = row[s].first
         /\ ClaimDue(w) \/ row'[s].next = row[s].next
<1>1. row \in [Schedules -> Row]
  BY DEF Typed, TypeOK
<1>2. CASE ClaimDue(w)
  <2>1. CASE UNCHANGED row
    BY <2>1, <1>2
  <2>2. ASSUME NEW q \in Due(w), row' = [row EXCEPT ![q] = Claimed(w, q)]
        PROVE  /\ row'[s].phase = row[s].phase
               /\ row'[s].rec = row[s].rec /\ row'[s].first = row[s].first
    BY <1>1, <2>2, ClaimedRow
  <2> QED
    BY <1>2, <2>1, <2>2 DEF ClaimDue
<1>3. CASE Record(w)
  <2>1. task[w].holds \in Schedules
    BY <1>3 DEF Record, Typed, HoldsOne, Holding
  <2> QED
    BY <1>1, <1>3, <2>1, RecordedRow DEF Record
<1>4. CASE ~ClaimDue(w) /\ ~Record(w)
  <2>1. UNCHANGED row
    BY <1>4 DEF Step, Crash, StartRun, Check, Authorize, RunTurn, Deliver
  <2> QED
    BY <2>1
<1> QED
  BY <1>2, <1>3, <1>4

(* A create, a delete or the clock leaves the runs and the turns alone, and *)
(* moves the next window only of a schedule that was not there.             *)
Outside ==
  \/ \E s \in Schedules : Ask(s) \/ Count(s) \/ Insert(s) \/ Abort(s) \/ Delete(s)
  \/ \E u \in {OwnerOf[s] : s \in Schedules} : DeleteSubject(u)
  \/ Tick
  \/ UNCHANGED vars

LEMMA OutsideKeepsRuns ==
  ASSUME Typed, Outside
  PROVE  /\ UNCHANGED <<task, turns>>
         /\ \A s \in Schedules :
              /\ row'[s].phase = "absent" => row[s].phase = "absent"
              /\ row[s].phase = "deleted" => row'[s].phase = "deleted"
              /\ row[s].phase # "absent" =>
                   /\ row'[s].next = row[s].next /\ row'[s].first = row[s].first
                   /\ row'[s].rec = row[s].rec
<1>1. row \in [Schedules -> Row]
  BY DEF Typed, TypeOK
<1>2. ASSUME NEW q \in Schedules, Ask(q)
      PROVE  /\ UNCHANGED <<task, turns>> /\ row[q].phase = "absent"
             /\ \A s \in Schedules \ {q} : row'[s] = row[s]
             /\ row'[q].phase = "asked"
  <2>1. PICK r \in Recurrences :
          row' = [row EXCEPT ![q] = [@ EXCEPT !.phase = "asked", !.rec = r,
                    !.first = NextAfter(r, clock), !.next = NextAfter(r, clock)]]
    BY <1>2 DEF Ask
  <2> QED
    BY <1>1, <1>2, <2>1 DEF Ask, Row
<1>3. ASSUME NEW q \in Schedules, Count(q) \/ Insert(q) \/ Abort(q)
      PROVE  /\ UNCHANGED <<task, turns>> /\ row[q].phase \in {"asked", "counted"}
             /\ \A s \in Schedules \ {q} : row'[s] = row[s]
             /\ row'[q].phase \in {"counted", "refused", "active"}
             /\ row'[q].next = row[q].next /\ row'[q].first = row[q].first
             /\ row'[q].rec = row[q].rec
  BY <1>1, <1>3 DEF Count, Insert, Abort, Row
<1>4. ASSUME NEW S, Removed(S), \A s \in S : row[s].phase = "active"
      PROVE  \A s \in Schedules : /\ row'[s].phase \in {row[s].phase, "deleted"}
                                  /\ row'[s].next = row[s].next
                                  /\ row'[s].first = row[s].first
                                  /\ row'[s].rec = row[s].rec
  BY <1>1, <1>4 DEF Removed, Row
<1>5. ASSUME \/ \E q \in Schedules : Delete(q)
             \/ \E u \in {OwnerOf[s] : s \in Schedules} : DeleteSubject(u)
      PROVE  /\ UNCHANGED <<task, turns>>
             /\ \A s \in Schedules : /\ row'[s].phase \in {row[s].phase, "deleted"}
                                     /\ row'[s].next = row[s].next
                                     /\ row'[s].first = row[s].first
                                     /\ row'[s].rec = row[s].rec
  <2>1. PICK S : Removed(S) /\ (\A s \in S : row[s].phase = "active") /\ UNCHANGED <<task, turns>>
    BY <1>5 DEF Delete, DeleteSubject, Held, Active
  <2> QED
    BY <1>4, <2>1
<1>6. CASE Tick \/ UNCHANGED vars
  BY <1>6 DEF Tick, vars
<1>7. CASE \E q \in Schedules : Ask(q)
  BY <1>2, <1>7
<1>8. CASE \E q \in Schedules : Count(q) \/ Insert(q) \/ Abort(q)
  BY <1>3, <1>8
<1>9. CASE \/ \E q \in Schedules : Delete(q)
           \/ \E u \in {OwnerOf[s] : s \in Schedules} : DeleteSubject(u)
  BY <1>5, <1>9
<1> QED
  BY <1>6, <1>7, <1>8, <1>9 DEF Outside

(* A step is one of a runner or one outside the runners.                    *)
LEMMA StepKinds ==
  ASSUME [Next]_vars
  PROVE  Outside \/ \E w \in Workers : Step(w) \/ Crash(w)
  BY DEF Next, Outside

(* A deleted schedule stays deleted, whatever a run that still holds it     *)
(* records afterwards.                                                      *)
THEOREM DeletedForGood == Spec => DeletedStaysDeleted
<1>1. Typed /\ [Next]_vars =>
        [\A s \in Schedules : row[s].phase = "deleted" => row'[s].phase = "deleted"]_vars
  <2> SUFFICES ASSUME Typed, [Next]_vars
               PROVE  \A s \in Schedules : row[s].phase = "deleted" => row'[s].phase = "deleted"
    OBVIOUS
  <2>1. CASE Outside
    BY <2>1, OutsideKeepsRuns
  <2>2. CASE \E w \in Workers : Step(w) \/ Crash(w)
    BY <2>2, RunnersKeepPhases
  <2> QED
    BY <2>1, <2>2, StepKinds
<1> QED
  BY <1>1, AlwaysTyped, PTL DEF Spec, DeletedStaysDeleted

-----------------------------------------------------------------------------
(* The windows of a schedule.  A claim takes the window `next' at a moment  *)
(* not before it and leaves a next window after that moment: so two claims  *)
(* of one schedule differ in their window, and the one with the earlier     *)
(* window was made before the later window was due.                         *)
Apart(a, b) ==
  /\ a.window # b.window
  /\ a.window < b.window => a.at < b.window
  /\ b.window < a.window => b.at < a.window

(* A run whose turn may still start, and the turn it would start.           *)
Pending(w) == task[w].pc \in {"check", "authorize", "turn"}
Claim(w) == [window |-> task[w].window, at |-> task[w].now]

Before(a, t) == a.window < t /\ a.at < t

TurnsPast == \A s \in Schedules : \A i \in DOMAIN turns[s] : Before(turns[s][i], row[s].next)
RunsPast == \A w \in Workers : Pending(w) => Before(Claim(w), row[task[w].holds].next)
TurnsApart ==
  \A s \in Schedules : \A i, j \in DOMAIN turns[s] : i # j => Apart(turns[s][i], turns[s][j])
RunsMeetTurns ==
  \A w \in Workers : Pending(w) =>
    \A i \in DOMAIN turns[task[w].holds] : Apart(turns[task[w].holds][i], Claim(w))
RunsApart ==
  \A v, w \in Workers : v # w /\ Pending(v) /\ Pending(w) /\ task[v].holds = task[w].holds
                          => Apart(Claim(v), Claim(w))
NothingYet ==
  \A s \in Schedules : row[s].phase = "absent" =>
    turns[s] = <<>> /\ \A w \in Workers : Pending(w) => task[w].holds # s

WindowsInv ==
  TurnsPast /\ RunsPast /\ TurnsApart /\ RunsMeetTurns /\ RunsApart /\ NothingYet

LEMMA WindowsInit ==
  ASSUME Init
  PROVE  WindowsInv
<1>1. \A w \in Workers : ~Pending(w)
  BY DEF Init, Pending, IdleRun
<1>2. \A s \in Schedules : turns[s] = <<>>
  BY DEF Init
<1> QED
  BY <1>1, <1>2 DEF WindowsInv, TurnsPast, RunsPast, TurnsApart, RunsMeetTurns, RunsApart,
                    NothingYet

(* A step that starts no turn and claims nothing: the runs that are pending *)
(* were, and the schedules they hold keep their next window.                *)
LEMMA WindowsUntouched ==
  ASSUME Typed, WindowsInv, UNCHANGED turns,
         \A s \in Schedules : /\ row'[s].phase = "absent" => row[s].phase = "absent"
                              /\ row[s].phase # "absent" => row'[s].next = row[s].next,
         \A w \in Workers : Pending(w)' => Pending(w) /\ task'[w].holds = task[w].holds
                                             /\ Claim(w)' = Claim(w)
  PROVE  WindowsInv'
<1> USE DEF WindowsInv
<1>1. \A w \in Workers : Pending(w) => task[w].holds \in Schedules
  BY DEF Typed, HoldsOne, Holding, Pending
<1>2. NothingYet'
  BY DEF NothingYet
<1>3. TurnsPast'
  BY DEF TurnsPast, NothingYet
<1>4. RunsPast'
  BY <1>1 DEF RunsPast, NothingYet
<1>5. TurnsApart' /\ RunsMeetTurns' /\ RunsApart'
  BY DEF TurnsApart, RunsMeetTurns, RunsApart
<1> QED
  BY <1>2, <1>3, <1>4, <1>5

(* What replacing the run of one worker leaves.                             *)
LEMMA OneRun ==
  ASSUME Typed, NEW w \in Workers, NEW t, Run(w, t)
  PROVE  /\ task'[w] = t
         /\ \A v \in Workers \ {w} : /\ task'[v] = task[v] /\ Claim(v)' = Claim(v)
                                     /\ Pending(v)' = Pending(v)
  BY DEF Typed, TypeOK, Run, Claim, Pending

(* A turn that started has a window and a moment.                           *)
LEMMA TurnTyped ==
  ASSUME Typed, NEW s \in Schedules, NEW i \in DOMAIN turns[s]
  PROVE  turns[s][i].window \in Nat /\ turns[s][i].at \in Nat
<1>1. turns[s] \in Seq(Turn)
  BY DEF Typed, TypeOK
<1>2. turns[s][i] \in Turn
  BY <1>1
<1> QED
  BY <1>2 DEF Turn

(* A worker whose run does not start or claim a turn.                       *)
LEMMA WindowsKept ==
  ASSUME Typed, WindowsInv, NEW w \in Workers, Step(w) \/ Crash(w), UNCHANGED turns,
         ~ClaimDue(w) \/ UNCHANGED row,
         NEW t, Run(w, t),
         t.pc \in {"check", "authorize", "turn"} =>
           Pending(w) /\ t.holds = task[w].holds /\ t.now = task[w].now
             /\ t.window = task[w].window
  PROVE  WindowsInv'
<1>1. \A s \in Schedules : row'[s].phase = row[s].phase /\ row'[s].next = row[s].next
  BY RunnersKeepPhases
<1>2. Pending(w)' => Pending(w) /\ task'[w].holds = task[w].holds /\ Claim(w)' = Claim(w)
  BY OneRun DEF Pending, Claim
<1>3. \A v \in Workers : Pending(v)' => Pending(v) /\ task'[v].holds = task[v].holds
                                          /\ Claim(v)' = Claim(v)
  BY <1>2, OneRun
<1> QED
  BY <1>1, <1>3, WindowsUntouched

(* A claim.                                                                 *)
LEMMA WindowsClaim ==
  ASSUME Typed, WindowsInv, NEW w \in Workers, NEW s \in Due(w), UNCHANGED turns,
         row' = [row EXCEPT ![s] = Claimed(w, s)],
         Run(w, [task[w] EXCEPT !.pc = "check", !.holds = s, !.window = row[s].next])
  PROVE  WindowsInv'
<1> DEFINE n == row[s].next
           m == Claimed(w, s).next
<1>1. /\ s \in Schedules /\ row[s].phase = "active" /\ n \in Nat /\ n <= task[w].now
      /\ Claimed(w, s).phase = "active" /\ m \in Nat /\ m > task[w].now
      /\ task[w].now \in Nat
  BY ClaimedRow DEF Row, RunState, Typed, TypeOK
<1>2. \A q \in Schedules : /\ row'[q].phase = row[q].phase
                           /\ q # s => row'[q].next = row[q].next
  BY <1>1 DEF Typed, TypeOK
<1>3. row'[s].next = m
  BY <1>1 DEF Typed, TypeOK
<1>4. task'[w].holds = s /\ Claim(w)' = [window |-> n, at |-> task[w].now]
  <2> DEFINE t == [task[w] EXCEPT !.pc = "check", !.holds = s, !.window = row[s].next]
  <2>1. t.holds = s /\ t.window = n /\ t.now = task[w].now
    BY DEF Typed, TypeOK, RunState
  <2>2. task'[w] = t
    BY OneRun
  <2> HIDE DEF t
  <2> QED
    BY <2>1, <2>2 DEF Claim
<1>5. \A v \in Workers \ {w} : /\ task'[v] = task[v] /\ Claim(v)' = Claim(v)
                               /\ Pending(v)' = Pending(v)
  BY OneRun
<1>6. \A v \in Workers : Pending(v) => task[v].holds \in Schedules
  BY DEF Typed, HoldsOne, Holding, Pending
<1>7. \A c : c.window \in Nat /\ c.at \in Nat /\ Before(c, n) =>
               /\ Before(c, m) /\ Apart(c, Claim(w)') /\ Apart(Claim(w)', c)
  BY <1>1, <1>4 DEF Before, Apart
<1>8. \A q \in Schedules : \A i \in DOMAIN turns[q] :
        turns[q][i].window \in Nat /\ turns[q][i].at \in Nat
  BY TurnTyped
<1>9. \A v \in Workers : Claim(v).window \in Nat /\ Claim(v).at \in Nat
  BY DEF Claim, Typed, TypeOK, RunState
<1> HIDE DEF n, m
<1>10. TurnsPast'
  BY <1>1, <1>2, <1>3, <1>7, <1>8 DEF TurnsPast, WindowsInv, n
<1>11. RunsPast'
  <2>1. Before(Claim(w)', m)
    BY <1>1, <1>4 DEF Before
  <2>2. \A v \in Workers \ {w} : Pending(v) => Before(Claim(v), row'[task[v].holds].next)
    BY <1>1, <1>2, <1>3, <1>6, <1>7, <1>9 DEF RunsPast, WindowsInv, n
  <2> QED
    BY <1>3, <1>4, <1>5, <2>1, <2>2 DEF RunsPast
<1>12. TurnsApart'
  BY DEF TurnsApart, WindowsInv
<1>13. RunsMeetTurns'
  <2>1. \A i \in DOMAIN turns[s] : Apart(turns[s][i], Claim(w)')
    BY <1>1, <1>7, <1>8 DEF TurnsPast, WindowsInv, n
  <2> QED
    BY <1>4, <1>5, <2>1 DEF RunsMeetTurns, WindowsInv
<1>14. RunsApart'
  <2>1. \A v \in Workers \ {w} : Pending(v) /\ task[v].holds = s =>
          Apart(Claim(v), Claim(w)') /\ Apart(Claim(w)', Claim(v))
    BY <1>7, <1>9 DEF RunsPast, WindowsInv, n
  <2> QED
    BY <1>4, <1>5, <2>1 DEF RunsApart, WindowsInv
<1>15. NothingYet'
  BY <1>1, <1>2, <1>4, <1>5 DEF NothingYet, WindowsInv
<1> QED
  BY <1>10, <1>11, <1>12, <1>13, <1>14, <1>15 DEF WindowsInv

(* A turn starts: the claim of its run becomes the schedule's last turn.    *)
LEMMA WindowsTurn ==
  ASSUME Typed, WindowsInv, NEW w \in Workers, RunTurn(w)
  PROVE  WindowsInv'
<1> DEFINE s == task[w].holds
<1>1. s \in Schedules /\ Pending(w) /\ turns[s] \in Seq(Turn)
  BY DEF RunTurn, Typed, TypeOK, HoldsOne, Holding, Pending
<1>2. turns' = [turns EXCEPT ![s] = Append(turns[s], Claim(w))]
  BY DEF RunTurn, Claim
<1>3. UNCHANGED row /\ ~Pending(w)'
  BY OneRun DEF RunTurn, Goto, Pending, Typed, TypeOK, RunState
<1>4. \A v \in Workers \ {w} : /\ task'[v] = task[v] /\ Claim(v)' = Claim(v)
                               /\ Pending(v)' = Pending(v)
  BY OneRun DEF RunTurn, Goto
<1>5. \A v \in Workers : Pending(v) => task[v].holds \in Schedules
  BY DEF Typed, HoldsOne, Holding, Pending
<1> DEFINE last == Len(turns[s]) + 1
<1>6. /\ DOMAIN turns'[s] = DOMAIN turns[s] \cup {last}
      /\ turns'[s][last] = Claim(w)
      /\ \A i \in DOMAIN turns[s] : turns'[s][i] = turns[s][i]
      /\ \A q \in Schedules \ {s} : turns'[q] = turns[q]
  <2>1. Claim(w) \in Turn /\ turns \in [Schedules -> Seq(Turn)]
    BY DEF Claim, Turn, Typed, TypeOK, RunState
  <2>2. turns'[s] = Append(turns[s], Claim(w)) /\ \A q \in Schedules \ {s} : turns'[q] = turns[q]
    BY <1>1, <1>2, <2>1
  <2> QED
    BY <1>1, <2>1, <2>2
<1>7. Before(Claim(w), row[s].next)
  BY <1>1 DEF WindowsInv, RunsPast
<1>8. \A i \in DOMAIN turns[s] : Apart(turns[s][i], Claim(w)) /\ Apart(Claim(w), turns[s][i])
  BY <1>1 DEF WindowsInv, RunsMeetTurns, Apart
<1>9. \A v \in Workers \ {w} : Pending(v) /\ task[v].holds = s => Apart(Claim(w), Claim(v))
  BY <1>1 DEF WindowsInv, RunsApart
<1> HIDE DEF s, last
<1>10. TurnsPast'
  BY <1>3, <1>6, <1>7 DEF TurnsPast, WindowsInv
<1>11. RunsPast' /\ RunsApart'
  BY <1>3, <1>4 DEF RunsPast, RunsApart, WindowsInv
<1>12. TurnsApart'
  BY <1>6, <1>8 DEF TurnsApart, WindowsInv
<1>13. RunsMeetTurns'
  BY <1>3, <1>4, <1>5, <1>6, <1>9 DEF RunsMeetTurns, WindowsInv
<1>14. NothingYet'
  BY <1>1, <1>3, <1>4, <1>6 DEF NothingYet, WindowsInv, s
<1> QED
  BY <1>10, <1>11, <1>12, <1>13, <1>14 DEF WindowsInv

LEMMA WindowsNext ==
  ASSUME Typed, WindowsInv, [Next]_vars
  PROVE  WindowsInv'
<1>1. CASE Outside
  BY <1>1, OutsideKeepsRuns, WindowsUntouched DEF Pending, Claim
<1>2. ASSUME NEW w \in Workers, Step(w) \/ Crash(w)
      PROVE  WindowsInv'
  <2>0. task[w] \in RunState
    BY DEF Typed, TypeOK
  <2>1. CASE StartRun(w)
    <3> DEFINE t == [IdleRun EXCEPT !.pc = "claim", !.now = clock]
    <3>1. Run(w, t) /\ t.pc = "claim" /\ UNCHANGED <<row, turns>>
      BY <2>1 DEF StartRun, IdleRun
    <3> HIDE DEF t
    <3> QED
      BY <1>2, <3>1, WindowsKept
  <2>2. CASE ClaimDue(w)
    <3>1. CASE Run(w, IdleRun) /\ UNCHANGED row
      <4>1. UNCHANGED turns /\ IdleRun.pc = "idle"
        BY <2>2 DEF ClaimDue, IdleRun
      <4> QED
        BY <1>2, <3>1, <4>1, WindowsKept
    <3>2. UNCHANGED turns
      BY <2>2 DEF ClaimDue
    <3> QED
      BY <2>2, <3>1, <3>2, WindowsClaim DEF ClaimDue
  <2>3. ASSUME NEW p \in PCs, Goto(w, p), UNCHANGED turns, ~ClaimDue(w),
               p \in {"check", "authorize", "turn"} => Pending(w)
        PROVE  WindowsInv'
    <3> DEFINE t == [task[w] EXCEPT !.pc = p]
    <3>1. /\ Run(w, t) /\ t.pc = p /\ t.now = task[w].now /\ t.holds = task[w].holds
          /\ t.window = task[w].window
      BY <2>0, <2>3 DEF Goto, RunState
    <3> HIDE DEF t
    <3> QED
      BY <1>2, <2>3, <3>1, WindowsKept
  <2>4. CASE Check(w) \/ Authorize(w) \/ Deliver(w)
    <3>1. task[w].pc \in {"check", "authorize", "reply"} /\ ~ClaimDue(w) /\ UNCHANGED turns
      BY <2>4 DEF Check, Authorize, Deliver, ClaimDue
    <3>2. PICK p \in {"authorize", "turn", "record"} :
            Goto(w, p) /\ (p \in {"authorize", "turn"} => Pending(w))
      BY <2>4 DEF Check, Authorize, Deliver, Pending
    <3> QED
      BY <2>3, <3>1, <3>2 DEF PCs
  <2>5. CASE RunTurn(w)
    BY <2>5, WindowsTurn
  <2>6. CASE Record(w) \/ (Crash(w) /\ ~ClaimDue(w))
    <3>1. Run(w, IdleRun) /\ ~ClaimDue(w) /\ UNCHANGED turns /\ IdleRun.pc = "idle"
      BY <2>6 DEF Record, Crash, ClaimDue, IdleRun
    <3> QED
      BY <1>2, <3>1, WindowsKept
  <2> QED
    BY <1>2, <2>1, <2>2, <2>4, <2>5, <2>6 DEF Step
<1> QED
  BY <1>1, <1>2, StepKinds

LEMMA AlwaysApart == Spec => [](Typed /\ WindowsInv)
<1>1. Init => Typed /\ WindowsInv
  BY TypedInit, WindowsInit
<1>2. Typed /\ WindowsInv /\ [Next]_vars => (Typed /\ WindowsInv)'
  BY TypedNext, WindowsNext
<1> QED
  BY <1>1, <1>2, PTL DEF Spec

(* "One window runs at most once across workers and restarts": no two turns *)
(* of a schedule are for the same window, however many runners claim, crash *)
(* and start again.                                                         *)
THEOREM OneTurnPerWindow == Spec => []WindowRunsOnce
<1>1. WindowsInv => WindowRunsOnce
  BY DEF WindowsInv, TurnsApart, Apart, WindowRunsOnce
<1> QED
  BY <1>1, AlwaysApart, PTL

(* "Skipped, not caught up": no turn runs a window that was already past    *)
(* when the turn of an earlier window was claimed.                          *)
THEOREM NeverCatchesUp == Spec => []NoCatchUp
<1>1. Typed /\ WindowsInv => NoCatchUp
  <2> SUFFICES ASSUME Typed, WindowsInv, NEW s \in Schedules,
                      NEW i \in DOMAIN turns[s], NEW j \in DOMAIN turns[s],
                      turns[s][i].window < turns[s][j].window
               PROVE  turns[s][i].at < turns[s][j].window
    BY DEF NoCatchUp
  <2>1. turns[s][i].window \in Nat
    BY TurnTyped
  <2>2. i # j
    BY <2>1
  <2> QED
    BY <2>2 DEF WindowsInv, TurnsApart, Apart
<1> QED
  BY <1>1, AlwaysApart, PTL

-----------------------------------------------------------------------------
(* The cap per user.  Between its count and its insert a create holds the   *)
(* user's lock: it is the only one of the user, and its count still holds.  *)
CountedAlone ==
  \A s, q \in Schedules :
    row[s].phase = "counted" /\ row[q].phase = "counted" /\ OwnerOf[s] = OwnerOf[q] => s = q
CountedFits ==
  \A s \in Schedules : row[s].phase = "counted" => Cardinality(Held(OwnerOf[s])) < MaxPerUser
CapInv == CapHeld /\ CountedAlone /\ CountedFits

LEMMA HeldFinite ==
  ASSUME NEW u
  PROVE  IsFiniteSet(Held(u)) /\ Cardinality(Held(u)) \in Nat
<1>1. Held(u) \subseteq Schedules
  BY DEF Held
<1>2. IsFiniteSet(Schedules)
  BY ScheduleAssumption
<1>3. IsFiniteSet(Held(u))
  BY <1>1, <1>2, FS_Subset
<1> QED
  BY <1>3, FS_CardinalityType

LEMMA CapInit ==
  ASSUME Init
  PROVE  CapInv
<1>1. \A s \in Schedules : row[s].phase = "absent"
  BY DEF Init, NewRow
<1>2. \A u : Held(u) = {}
  BY <1>1 DEF Held, Active
<1>3. \A u : Cardinality(Held(u)) = 0
  BY <1>2, FS_EmptySet
<1>4. MaxPerUser \in Nat \ {0}
  BY ScheduleAssumption
<1> QED
  BY <1>1, <1>3, <1>4 DEF CapInv, CapHeld, CountedAlone, CountedFits

(* Fewer active rows and fewer counts only make room.                       *)
LEMMA CapFewer ==
  ASSUME CapInv,
         \A s \in Schedules : /\ row'[s].phase = "active" => row[s].phase = "active"
                              /\ row'[s].phase = "counted" => row[s].phase = "counted"
  PROVE  CapInv'
<1>1. ASSUME NEW u PROVE Cardinality(Held(u)') <= Cardinality(Held(u))
  <2>1. Held(u)' \subseteq Held(u)
    BY DEF Held, Active
  <2> QED
    BY <2>1, HeldFinite, FS_Subset
<1>2. \A u : Cardinality(Held(u)') \in Nat
  <2> TAKE u
  <2>1. Held(u)' \subseteq Held(u)
    BY DEF Held, Active
  <2>2. IsFiniteSet(Held(u)')
    BY <2>1, HeldFinite, FS_Subset
  <2> QED
    BY <2>2, FS_CardinalityType
<1>3. MaxPerUser \in Nat
  BY ScheduleAssumption
<1>4. \A u : Cardinality(Held(u)) \in Nat
  BY HeldFinite
<1>5. CapHeld'
  BY <1>1, <1>2, <1>3, <1>4 DEF CapInv, CapHeld
<1>6. CountedFits'
  BY <1>1, <1>2, <1>3, <1>4 DEF CapInv, CountedFits
<1>7. CountedAlone'
  BY DEF CapInv, CountedAlone
<1> QED
  BY <1>5, <1>6, <1>7 DEF CapInv

(* The count, under the user's lock.                                        *)
LEMMA CapCount ==
  ASSUME Typed, CapInv, NEW s \in Schedules, Count(s)
  PROVE  CapInv'
<1>1. /\ row \in [Schedules -> Row] /\ row[s].phase = "asked" /\ LockFree(OwnerOf[s])
      /\ row' = [row EXCEPT ![s].phase =
                   IF Cardinality(Held(OwnerOf[s])) >= MaxPerUser THEN "refused" ELSE "counted"]
  BY DEF Count, Typed, TypeOK
<1>2. \A q \in Schedules \ {s} : row'[q] = row[q]
  BY <1>1
<1>3. \A u : Held(u)' = Held(u)
  BY <1>1, <1>2 DEF Held, Active, Row
<1>4. CASE row'[s].phase = "counted"
  <2>1. ~(Cardinality(Held(OwnerOf[s])) >= MaxPerUser)
    BY <1>1, <1>4 DEF Row
  <2>2. Cardinality(Held(OwnerOf[s])) \in Nat /\ MaxPerUser \in Nat
    BY HeldFinite, ScheduleAssumption
  <2>3. Cardinality(Held(OwnerOf[s])) < MaxPerUser
    BY <2>1, <2>2
  <2>4. \A q \in Schedules : row[q].phase = "counted" => OwnerOf[q] # OwnerOf[s]
    BY <1>1 DEF LockFree
  <2>5. CapHeld' /\ CountedFits'
    BY <1>2, <1>3, <2>3 DEF CapInv, CapHeld, CountedFits
  <2>6. CountedAlone'
    BY <1>2, <2>4 DEF CapInv, CountedAlone
  <2> QED
    BY <2>5, <2>6 DEF CapInv
<1>5. CASE row'[s].phase = "refused"
  BY <1>2, <1>5, CapFewer
<1> QED
  BY <1>1, <1>4, <1>5 DEF Row

(* The insert of what was counted.                                          *)
LEMMA CapInsert ==
  ASSUME Typed, CapInv, NEW s \in Schedules, Insert(s)
  PROVE  CapInv'
<1>1. /\ row \in [Schedules -> Row] /\ row[s].phase = "counted"
      /\ row' = [row EXCEPT ![s].phase = "active"]
  BY DEF Insert, Typed, TypeOK
<1>2. row'[s].phase = "active" /\ \A q \in Schedules \ {s} : row'[q] = row[q]
  BY <1>1 DEF Row
<1> DEFINE u == OwnerOf[s]
<1>3. \A q \in Schedules \ {s} : row[q].phase = "counted" => OwnerOf[q] # u
  BY <1>1 DEF CapInv, CountedAlone
<1>4. \A v : v # u => Held(v)' = Held(v)
  BY <1>1, <1>2 DEF Held, Active
<1>5. Held(u)' = Held(u) \cup {s}
  BY <1>2 DEF Held, Active
<1>6. Cardinality(Held(u)') <= Cardinality(Held(u)) + 1
  <2>1. s \notin Held(u)
    BY <1>1 DEF Held, Active
  <2>2. Cardinality(Held(u) \cup {s}) = Cardinality(Held(u)) + 1
    BY <2>1, HeldFinite, FS_AddElement
  <2> QED
    BY <1>5, <2>2, HeldFinite
<1>7. Cardinality(Held(u)') <= MaxPerUser
  <2>1. /\ Cardinality(Held(u)) \in Nat /\ Cardinality(Held(u)') \in Nat
        /\ MaxPerUser \in Nat /\ Cardinality(Held(u)) < MaxPerUser
    <3>1. Cardinality(Held(u)) \in Nat /\ MaxPerUser \in Nat
      BY HeldFinite, ScheduleAssumption
    <3>2. Cardinality(Held(u)) < MaxPerUser
      BY <1>1 DEF CapInv, CountedFits
    <3>3. IsFiniteSet(Held(u) \cup {s})
      BY HeldFinite, FS_AddElement
    <3>4. Cardinality(Held(u)') \in Nat
      BY <1>5, <3>3, FS_CardinalityType
    <3> QED
      BY <3>1, <3>2, <3>4
  <2> QED
    BY <1>6, <2>1
<1>8. CapHeld'
  BY <1>4, <1>7 DEF CapInv, CapHeld
<1>9. CountedFits' /\ CountedAlone'
  BY <1>2, <1>3, <1>4 DEF CapInv, CountedFits, CountedAlone
<1> QED
  BY <1>8, <1>9 DEF CapInv

LEMMA CapNext ==
  ASSUME Typed, CapInv, [Next]_vars
  PROVE  CapInv'
<1>1. row \in [Schedules -> Row]
  BY DEF Typed, TypeOK
<1>2. ASSUME NEW s \in Schedules, Ask(s) PROVE CapInv'
  <2>1. PICK r \in Recurrences :
          row' = [row EXCEPT ![s] = [@ EXCEPT !.phase = "asked", !.rec = r,
                    !.first = NextAfter(r, clock), !.next = NextAfter(r, clock)]]
    BY <1>2 DEF Ask
  <2>2. row'[s].phase = "asked" /\ \A q \in Schedules \ {s} : row'[q] = row[q]
    BY <1>1, <2>1 DEF Row
  <2> QED
    BY <2>2, CapFewer
<1>3. ASSUME NEW s \in Schedules, Abort(s) PROVE CapInv'
  <2>1. row'[s].phase = "refused" /\ \A q \in Schedules \ {s} : row'[q] = row[q]
    BY <1>1, <1>3 DEF Abort, Row
  <2> QED
    BY <2>1, CapFewer
<1>4. ASSUME NEW S, Removed(S) PROVE CapInv'
  <2>1. \A q \in Schedules : row'[q].phase \in {row[q].phase, "deleted"}
    BY <1>1, <1>4 DEF Removed, Row
  <2> QED
    BY <2>1, CapFewer
<1>5. CASE Outside
  <2>1. CASE \E s \in Schedules : Ask(s) \/ Count(s) \/ Insert(s) \/ Abort(s)
    BY <1>2, <1>3, <2>1, CapCount, CapInsert
  <2>2. CASE \/ \E s \in Schedules : Delete(s)
             \/ \E u \in {OwnerOf[s] : s \in Schedules} : DeleteSubject(u)
    BY <1>4, <2>2 DEF Delete, DeleteSubject
  <2>3. CASE Tick \/ UNCHANGED vars
    BY <2>3, CapFewer DEF Tick, vars
  <2> QED
    BY <1>5, <2>1, <2>2, <2>3 DEF Outside
<1>6. CASE \E w \in Workers : Step(w) \/ Crash(w)
  BY <1>6, RunnersKeepPhases, CapFewer
<1> QED
  BY <1>5, <1>6, StepKinds

(* A user never holds more than max_per_user schedules, however many of     *)
(* the user's creates run at once and whichever of them are lost.           *)
THEOREM CapAlwaysHeld == Spec => []CapHeld
<1>1. Init => Typed /\ CapInv
  BY TypedInit, CapInit
<1>2. Typed /\ CapInv /\ [Next]_vars => (Typed /\ CapInv)'
  BY TypedNext, CapNext
<1>3. CapInv => CapHeld
  BY DEF CapInv
<1> QED
  BY <1>1, <1>2, <1>3, PTL DEF Spec

-----------------------------------------------------------------------------
(* The cadence.  An interval window is the first one plus a whole number of *)
(* intervals; a clock window is the wall time of a day asked for.           *)
Grid(r, first, t) ==
  IF r.kind = "interval" THEN \E k \in Int : t - first = k * r.every
                         ELSE \E d \in OnDays(r, t) : Wall(r, d) = t

LEMMA WholeIntervals ==
  ASSUME NEW e \in Nat \ {0}, NEW k \in Int
  PROVE  (k * e) % e = 0
OBVIOUS

LEMMA DayTimes ==
  ASSUME NEW D \in Nat \ {0}, NEW a \in Int, NEW b \in Int, a <= b
  PROVE  D * a <= D * b
OBVIOUS

(* The day of a wall time is close to the UTC day it falls on.              *)
LEMMA WallDay ==
  ASSUME NEW r \in Recurrences, NEW d \in -1 .. Horizon + 8, Wall(r, d) \in Nat
  PROVE  d \in (Wall(r, d) \div Day) - 1 .. (Wall(r, d) \div Day) + 8
<1> USE ScheduleAssumption
<1> DEFINE v == Wall(r, d)
           m == v \div Day
<1>1. m \in Nat /\ Day * m <= v /\ v < Day * m + Day
  BY DivBounds
<1>2. v \in Int /\ v < Day * d + Day /\ v > Day * d - Day
  <2>1. Offset(d) \in 0 .. Day - 1 /\ r.at \in 0 .. Day - 1
    OBVIOUS
  <2>2. d * Day = Day * d /\ Day * d \in Int
    OBVIOUS
  <2> QED
    BY <2>1, <2>2 DEF Wall
<1> HIDE DEF v, m
<1>3. m <= d
  <2>1. SUFFICES ASSUME d + 1 <= m PROVE FALSE
    BY <1>1
  <2>2. Day * (d + 1) <= Day * m /\ Day * (d + 1) = Day * d + Day
    BY <1>1, <2>1, DayTimes
  <2>3. Day * m \in Int /\ Day * d \in Int
    BY <1>1
  <2> QED
    BY <1>1, <1>2, <2>2, <2>3
<1>4. d - 1 <= m
  <2>1. SUFFICES ASSUME m <= d - 2 PROVE FALSE
    BY <1>1
  <2>2. Day * m <= Day * (d - 2) /\ Day * (d - 2) = Day * d - 2 * Day
    BY <1>1, <2>1, DayTimes
  <2>3. Day * m \in Int /\ Day * d \in Int
    BY <1>1
  <2> QED
    BY <1>1, <1>2, <2>2, <2>3
<1> QED
  BY <1>1, <1>3, <1>4 DEF m, v

(* A clock recurrence's next window is on a day asked for.                  *)
LEMMA NextOnGrid ==
  ASSUME NEW r \in Recurrences, NEW t \in 0 .. Horizon, NEW first
  PROVE  r.kind # "interval" => Grid(r, first, NextAfter(r, t))
<1> SUFFICES ASSUME r.kind # "interval" PROVE Grid(r, first, NextAfter(r, t))
  OBVIOUS
<1> USE ScheduleAssumption
<1> DEFINE S == {Wall(r, d) : d \in OnDays(r, t)} \cap (t + 1 .. t + 9 * Day)
<1>1. S \in SUBSET Nat /\ S # {}
  BY ClockWindow
<1>2. NextAfter(r, t) \in S
  BY <1>1, LeastIs DEF NextAfter
<1>3. PICK d \in OnDays(r, t) : NextAfter(r, t) = Wall(r, d)
  BY <1>2
<1>4. d \in -1 .. Horizon + 8 /\ d % 7 \in r.days
  <2>1. t \div Day \in 0 .. t
    BY DivBounds, TimesKeepsOrder
  <2> QED
    BY <2>1 DEF OnDays
<1>5. Wall(r, d) \in Nat
  BY <1>1, <1>2, <1>3
<1>6. d \in OnDays(r, Wall(r, d))
  BY <1>4, <1>5, WallDay DEF OnDays
<1> QED
  BY <1>3, <1>6 DEF Grid

(* A claim leaves the next window on the grid.                              *)
LEMMA FollowingOnGrid ==
  ASSUME NEW r \in Recurrences, NEW now \in 0 .. Horizon, NEW due \in 0 .. now,
         NEW first \in Nat, Grid(r, first, due)
  PROVE  Grid(r, first, Following(r, due, now))
<1> USE ScheduleAssumption
<1>1. CASE r.kind = "interval"
  <2>1. r.every \in Nat \ {0} /\ now - due \in Nat
    OBVIOUS
  <2> DEFINE n == (now - due) \div r.every
             f == Following(r, due, now)
  <2>2. n \in Nat
    BY <2>1, DivBounds
  <2>3. f = due + r.every * (n + 1)
    BY <1>1 DEF Following
  <2>4. PICK k \in Int : due - first = k * r.every
    BY <1>1 DEF Grid
  <2> HIDE DEF n, f
  <2>5. /\ k * r.every \in Int /\ r.every * (n + 1) \in Int
        /\ (k + n + 1) * r.every = k * r.every + r.every * (n + 1)
    BY <2>1, <2>2
  <2>6. f - first = (k + n + 1) * r.every /\ k + n + 1 \in Int
    BY <2>2, <2>3, <2>4, <2>5
  <2> QED
    BY <1>1, <2>6 DEF Grid, f
<1>2. CASE r.kind # "interval"
  BY <1>2, NextOnGrid DEF Following
<1> QED
  BY <1>1, <1>2

(* The first window is on the grid.                                         *)
LEMMA FirstOnGrid ==
  ASSUME NEW r \in Recurrences, NEW t \in 0 .. Horizon
  PROVE  Grid(r, NextAfter(r, t), NextAfter(r, t))
<1>1. CASE r.kind = "interval"
  <2>1. NextAfter(r, t) - NextAfter(r, t) = 0 * r.every
    BY NextIsLater, ScheduleAssumption
  <2> QED
    BY <1>1, <2>1 DEF Grid
<1>2. CASE r.kind # "interval"
  BY <1>2, NextOnGrid
<1> QED
  BY <1>1, <1>2

On(s, t) == Grid(row[s].rec, row[s].first, t)

NextOn == \A s \in Schedules : row[s].phase # "absent" => On(s, row[s].next)
TurnsOn ==
  \A s \in Schedules : row[s].phase # "absent" =>
    \A i \in DOMAIN turns[s] : On(s, turns[s][i].window)
RunsOn ==
  \A w \in Workers : Pending(w) => On(task[w].holds, task[w].window)
CadenceInv == NextOn /\ TurnsOn /\ RunsOn

LEMMA CadenceInit ==
  ASSUME Init
  PROVE  CadenceInv
  BY DEF Init, NewRow, IdleRun, CadenceInv, NextOn, TurnsOn, RunsOn, Pending

(* A create's first window, before any run or turn of the schedule.         *)
LEMMA CadenceAsk ==
  ASSUME Typed, WindowsInv, CadenceInv, NEW s \in Schedules, Ask(s)
  PROVE  CadenceInv'
<1>1. PICK r \in Recurrences :
        row' = [row EXCEPT ![s] = [@ EXCEPT !.phase = "asked", !.rec = r,
                  !.first = NextAfter(r, clock), !.next = NextAfter(r, clock)]]
  BY DEF Ask
<1>2. /\ row[s].phase = "absent" /\ UNCHANGED <<task, turns>>
      /\ row'[s].rec = r /\ row'[s].first = NextAfter(r, clock)
      /\ row'[s].next = NextAfter(r, clock)
      /\ \A q \in Schedules \ {s} : row'[q] = row[q]
  <2>1. row[s].phase = "absent" /\ UNCHANGED <<task, turns>>
    BY DEF Ask
  <2>2. row \in [Schedules -> Row] /\ row[s] \in Row
    BY DEF Typed, TypeOK
  <2> DEFINE t == NextAfter(r, clock)
             q == [row[s] EXCEPT !.phase = "asked", !.rec = r, !.first = t, !.next = t]
  <2>3. row' = [row EXCEPT ![s] = q]
    BY <1>1
  <2> HIDE DEF t
  <2>4. q.rec = r /\ q.first = t /\ q.next = t
    BY <2>2 DEF Row
  <2> HIDE DEF q
  <2>5. row'[s] = q /\ \A o \in Schedules \ {s} : row'[o] = row[o]
    BY <2>2, <2>3
  <2> QED
    BY <2>1, <2>4, <2>5 DEF t
<1>3. Grid(r, NextAfter(r, clock), NextAfter(r, clock))
  BY FirstOnGrid DEF Typed, TypeOK, InTime
<1>4. turns[s] = <<>> /\ \A w \in Workers : Pending(w) => task[w].holds \in Schedules \ {s}
  BY <1>2 DEF WindowsInv, NothingYet, Typed, HoldsOne, Holding, Pending
<1>5. NextOn'
  BY <1>2, <1>3 DEF NextOn, On, CadenceInv
<1>6. TurnsOn'
  BY <1>2, <1>4 DEF TurnsOn, On, CadenceInv
<1>7. RunsOn'
  BY <1>2, <1>4 DEF RunsOn, On, CadenceInv, Pending
<1> QED
  BY <1>5, <1>6, <1>7 DEF CadenceInv

(* A step that starts no turn and moves no window of a schedule there is.   *)
LEMMA CadenceUntouched ==
  ASSUME Typed, WindowsInv, CadenceInv, UNCHANGED turns,
         \A s \in Schedules :
           /\ row'[s].phase # "absent" => row[s].phase # "absent"
           /\ row[s].phase # "absent" => /\ row'[s].next = row[s].next
                                         /\ row'[s].first = row[s].first
                                         /\ row'[s].rec = row[s].rec,
         \A w \in Workers : Pending(w)' => Pending(w) /\ task'[w].holds = task[w].holds
                                             /\ task'[w].window = task[w].window
  PROVE  CadenceInv'
<1>1. \A w \in Workers : Pending(w) =>
        task[w].holds \in Schedules /\ row[task[w].holds].phase # "absent"
  BY DEF WindowsInv, NothingYet, Typed, HoldsOne, Holding, Pending
<1>2. NextOn' /\ TurnsOn'
  BY DEF NextOn, TurnsOn, On, CadenceInv
<1>3. RunsOn'
  BY <1>1 DEF RunsOn, On, CadenceInv
<1> QED
  BY <1>2, <1>3 DEF CadenceInv

(* A runner's step.                                                         *)
LEMMA CadenceStep ==
  ASSUME Typed, WindowsInv, CadenceInv, NEW w \in Workers, Step(w) \/ Crash(w)
  PROVE  CadenceInv'
<1>0. /\ row \in [Schedules -> Row] /\ task[w] \in RunState
      /\ turns \in [Schedules -> Seq(Turn)]
  BY DEF Typed, TypeOK
<1>1. \A s \in Schedules : /\ row'[s].phase = row[s].phase /\ row'[s].rec = row[s].rec
                           /\ row'[s].first = row[s].first
                           /\ ClaimDue(w) \/ row'[s].next = row[s].next
  BY RunnersKeepPhases
<1>2. \A q \in Schedules : \A t : On(q, t)' <=> On(q, t)
  BY <1>1 DEF On
<1>3. \A v \in Workers : Pending(v) =>
        task[v].holds \in Schedules /\ row[task[v].holds].phase # "absent"
  BY DEF WindowsInv, NothingYet, Typed, HoldsOne, Holding, Pending
<1>4. ASSUME NEW t, Run(w, t), UNCHANGED turns, ~ClaimDue(w) \/ UNCHANGED row,
             t.pc \in {"check", "authorize", "turn"} =>
               Pending(w) /\ t.holds = task[w].holds /\ t.window = task[w].window
      PROVE  CadenceInv'
  <2>1. \A v \in Workers : Pending(v)' => Pending(v) /\ task'[v].holds = task[v].holds
                                            /\ task'[v].window = task[v].window
    BY <1>4, OneRun DEF Pending
  <2> QED
    BY <1>1, <1>4, <2>1, CadenceUntouched
<1>5. ASSUME NEW s \in Due(w), row' = [row EXCEPT ![s] = Claimed(w, s)], UNCHANGED turns,
             Run(w, [task[w] EXCEPT !.pc = "check", !.holds = s, !.window = row[s].next])
      PROVE  CadenceInv'
  <2> DEFINE t == [task[w] EXCEPT !.pc = "check", !.holds = s, !.window = row[s].next]
  <2>1. t.holds = s /\ t.window = row[s].next
    BY <1>0 DEF RunState
  <2>2. task'[w] = t /\ \A v \in Workers \ {w} : task'[v] = task[v]
    BY <1>5, OneRun
  <2> HIDE DEF t
  <2>3. /\ s \in Schedules /\ row[s].phase = "active" /\ row[s].next \in 0 .. task[w].now
        /\ row[s].rec \in Recurrences /\ row[s].first \in Nat
        /\ task[w].now \in 0 .. Horizon
    BY <1>0, ClaimedRow DEF Typed, InTime, Accepted, Row, RunState
  <2>4. On(s, row[s].next)
    BY <2>3 DEF CadenceInv, NextOn
  <2>5. On(s, Following(row[s].rec, row[s].next, task[w].now))
    BY <2>3, <2>4, FollowingOnGrid DEF On
  <2>6. /\ row'[s].next = Following(row[s].rec, row[s].next, task[w].now)
        /\ \A q \in Schedules \ {s} : row'[q] = row[q]
    BY <1>0, <1>5, <2>3 DEF Claimed, Row
  <2>7. NextOn'
    BY <1>1, <1>2, <2>5, <2>6 DEF NextOn, CadenceInv
  <2>8. TurnsOn'
    BY <1>1, <1>2, <1>5 DEF TurnsOn, CadenceInv
  <2>9. RunsOn'
    BY <1>2, <1>3, <2>1, <2>2, <2>3, <2>4 DEF RunsOn, CadenceInv, Pending
  <2> QED
    BY <2>7, <2>8, <2>9 DEF CadenceInv
<1>6. CASE StartRun(w)
  <2> DEFINE t == [IdleRun EXCEPT !.pc = "claim", !.now = clock]
  <2>1. Run(w, t) /\ t.pc = "claim" /\ UNCHANGED <<row, turns>>
    BY <1>6 DEF StartRun, IdleRun
  <2> HIDE DEF t
  <2> QED
    BY <1>4, <2>1
<1>7. CASE ClaimDue(w)
  <2>1. UNCHANGED turns /\ IdleRun.pc = "idle"
    BY <1>7 DEF ClaimDue, IdleRun
  <2> QED
    BY <1>4, <1>5, <1>7, <2>1 DEF ClaimDue
<1>8. ASSUME NEW p \in PCs, Goto(w, p), UNCHANGED turns, ~ClaimDue(w),
             p \in {"check", "authorize", "turn"} => Pending(w)
      PROVE  CadenceInv'
  <2> DEFINE t == [task[w] EXCEPT !.pc = p]
  <2>1. Run(w, t) /\ t.pc = p /\ t.holds = task[w].holds /\ t.window = task[w].window
    BY <1>0, <1>8 DEF Goto, RunState
  <2> HIDE DEF t
  <2> QED
    BY <1>4, <1>8, <2>1
<1>9. CASE Check(w) \/ Authorize(w) \/ Deliver(w)
  <2>1. ~ClaimDue(w) /\ UNCHANGED turns
    BY <1>9 DEF Check, Authorize, Deliver, ClaimDue
  <2>2. PICK p \in {"authorize", "turn", "record"} :
          Goto(w, p) /\ (p \in {"authorize", "turn"} => Pending(w))
    BY <1>9 DEF Check, Authorize, Deliver, Pending
  <2> QED
    BY <1>8, <2>1, <2>2 DEF PCs
<1>10. CASE RunTurn(w)
  <2> DEFINE s == task[w].holds
  <2>1. Pending(w) /\ s \in Schedules /\ row[s].phase # "absent" /\ UNCHANGED row
    BY <1>3, <1>10 DEF RunTurn, Pending
  <2>2. On(s, task[w].window)
    BY <2>1 DEF CadenceInv, RunsOn
  <2>3. turns' = [turns EXCEPT ![s] = Append(turns[s], Claim(w))] /\ Claim(w) \in Turn
    BY <1>0, <1>10 DEF RunTurn, Claim, Turn, RunState
  <2>4. /\ turns'[s] = Append(turns[s], Claim(w)) /\ turns[s] \in Seq(Turn)
        /\ \A q \in Schedules \ {s} : turns'[q] = turns[q]
    BY <1>0, <2>1, <2>3
  <2>5. \A i \in DOMAIN turns'[s] :
          turns'[s][i] = Claim(w) \/ (i \in DOMAIN turns[s] /\ turns'[s][i] = turns[s][i])
    BY <2>3, <2>4
  <2>6. Claim(w).window = task[w].window
    BY DEF Claim
  <2>7. TurnsOn'
    <3> SUFFICES ASSUME NEW q \in Schedules, row[q].phase # "absent",
                        NEW i \in DOMAIN turns'[q]
                 PROVE  On(q, turns'[q][i].window)
      BY <1>1, <1>2 DEF TurnsOn
    <3>1. CASE q = s
      BY <2>2, <2>5, <2>6, <3>1 DEF TurnsOn, CadenceInv
    <3>2. CASE q # s
      BY <2>4, <3>2 DEF TurnsOn, CadenceInv
    <3> QED
      BY <3>1, <3>2
  <2>8. NextOn'
    BY <1>2, <2>1 DEF NextOn, CadenceInv
  <2>9. RunsOn'
    <3>1. ~Pending(w)'
      BY <1>0, <1>10, OneRun DEF RunTurn, Goto, Pending, RunState
    <3>2. \A v \in Workers \ {w} : task'[v] = task[v]
      BY <1>10, OneRun DEF RunTurn, Goto
    <3> QED
      BY <1>2, <1>3, <3>1, <3>2 DEF RunsOn, CadenceInv, Pending
  <2> QED
    BY <2>7, <2>8, <2>9 DEF CadenceInv
<1>11. CASE Record(w) \/ (Crash(w) /\ ~ClaimDue(w))
  <2>1. Run(w, IdleRun) /\ ~ClaimDue(w) /\ UNCHANGED turns /\ IdleRun.pc = "idle"
    BY <1>11 DEF Record, Crash, ClaimDue, IdleRun
  <2> QED
    BY <1>4, <2>1
<1> QED
  BY <1>6, <1>7, <1>9, <1>10, <1>11 DEF Step

LEMMA CadenceNext ==
  ASSUME Typed, WindowsInv, CadenceInv, [Next]_vars
  PROVE  CadenceInv'
<1>1. CASE Outside
  <2>1. CASE \E s \in Schedules : Ask(s)
    BY <2>1, CadenceAsk
  <2>2. CASE ~\E s \in Schedules : Ask(s)
    <3>1. \A s \in Schedules : row'[s].phase # "absent" => row[s].phase # "absent"
      <4>0. row \in [Schedules -> Row]
        BY DEF Typed, TypeOK
      <4>1. CASE \E q \in Schedules : Count(q) \/ Insert(q) \/ Abort(q)
        BY <4>0, <4>1 DEF Count, Insert, Abort
      <4>2. CASE \E q \in Schedules : Delete(q)
        BY <4>0, <4>2 DEF Delete, Removed, Active
      <4>3. CASE \E u \in {OwnerOf[s] : s \in Schedules} : DeleteSubject(u)
        BY <4>0, <4>3 DEF DeleteSubject, Removed, Held, Active
      <4>4. CASE Tick \/ UNCHANGED vars
        BY <4>4 DEF Tick, vars
      <4> QED
        BY <1>1, <2>2, <4>1, <4>2, <4>3, <4>4 DEF Outside
    <3>2. /\ UNCHANGED <<task, turns>>
          /\ \A s \in Schedules : row[s].phase # "absent" =>
               /\ row'[s].next = row[s].next /\ row'[s].first = row[s].first
               /\ row'[s].rec = row[s].rec
      BY <1>1, OutsideKeepsRuns
    <3> QED
      BY <3>1, <3>2, CadenceUntouched DEF Pending
  <2> QED
    BY <2>1, <2>2
<1>2. CASE \E w \in Workers : Step(w) \/ Crash(w)
  BY <1>2, CadenceStep
<1> QED
  BY <1>1, <1>2, StepKinds

(* "An interval schedule keeps its cadence", and a daily or weekly one its  *)
(* wall-clock time in any zone: however late the claims, every window that  *)
(* is stored or was run is on the grid of the recurrence.                   *)
THEOREM CadenceAlwaysKept == Spec => []CadenceKept
<1>1. Init => Typed /\ WindowsInv /\ CadenceInv
  BY TypedInit, WindowsInit, CadenceInit
<1>2. Typed /\ WindowsInv /\ CadenceInv /\ [Next]_vars => (Typed /\ WindowsInv /\ CadenceInv)'
  BY TypedNext, WindowsNext, CadenceNext
<1>3. Typed /\ CadenceInv => CadenceKept
  <2> SUFFICES ASSUME Typed, CadenceInv, NEW s \in Schedules, Active(s)
               PROVE  /\ OnGrid(s, row[s].next)
                      /\ \A i \in DOMAIN turns[s] : OnGrid(s, turns[s][i].window)
    BY DEF CadenceKept
  <2>1. ASSUME NEW t \in Nat, On(s, t) PROVE OnGrid(s, t)
    <3>1. row[s].rec \in Recurrences
      BY DEF Typed, Accepted, Active
    <3>2. CASE row[s].rec.kind = "interval"
      <4>1. PICK k \in Int : t - row[s].first = k * row[s].rec.every
        BY <2>1, <3>2 DEF On, Grid
      <4>2. row[s].rec.every \in Nat \ {0}
        BY <3>1, ScheduleAssumption
      <4> QED
        BY <3>2, <4>1, <4>2, WholeIntervals DEF OnGrid
    <3>3. CASE row[s].rec.kind # "interval"
      BY <2>1, <3>3 DEF On, Grid, OnGrid
    <3> QED
      BY <3>2, <3>3
  <2>2. row[s].next \in Nat /\ \A i \in DOMAIN turns[s] : turns[s][i].window \in Nat
    BY TurnTyped DEF Typed, TypeOK, Row
  <2> QED
    BY <2>1, <2>2 DEF CadenceInv, NextOn, TurnsOn, Active
<1> QED
  BY <1>1, <1>2, <1>3, PTL DEF Spec

(* Every run of every schedule is at a window of its recurrence, and none   *)
(* is at a window that was past when the run before it started              *)
(* (schedules.py: next_window, mark_run).                                   *)
THEOREM AlwaysOnTime == Spec => []RunsOnTime
  BY CadenceAlwaysKept, NeverCatchesUp, PTL DEF RunsOnTime
=============================================================================

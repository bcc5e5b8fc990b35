--------------------------- MODULE ProactiveProofs --------------------------
(* Machine-checked theorems about Proactive, for any number of messages,    *)
(* recipients and dispatchers, any limits and quiet hours.                  *)
EXTENDS Proactive, FiniteSetTheorems, TLAPS

-----------------------------------------------------------------------------
(* Type correctness.                                                        *)

(* Deferrals end at a natural number of ticks.                              *)
LEMMA QuietTyped ==
  ASSUME NEW t \in Nat
  PROVE  QuietUntil(t) \in Nat
<1>1. t % Day \in 0 .. t
  BY TimeAssumption
<1>2. QuietTo % Minute \in 0 .. QuietTo
  BY TimeAssumption
<1>3. QuietEndToday(t) \in Nat
  BY <1>1, <1>2, TimeAssumption DEF QuietEndToday
<1> QED
  BY <1>3, TimeAssumption DEF QuietUntil

(* The rows the queue writes are rows.                                      *)
LEMMA RowUpdates ==
  ASSUME NEW r \in Row
  PROVE  /\ \A s \in Statuses : [r EXCEPT !.status = s] \in Row
         /\ \A s \in Statuses : [r EXCEPT !.status = s, !.owner = NoOne] \in Row
         /\ \A s \in Statuses, d \in Nat : [r EXCEPT !.status = s, !.avail = d] \in Row
         /\ \A d \in Nat : [r EXCEPT !.status = "queued", !.avail = d,
                                     !.owner = NoOne, !.claimed = NoTime] \in Row
         /\ \A w \in Workers, l \in Nat, c \in Nat :
              [r EXCEPT !.status = "sending", !.owner = w, !.lease = l,
                        !.claimed = c] \in Row
  BY DEF Row, Statuses, Attempted, Finished

(* The records a run goes through are run states.                           *)
LEMMA RunUpdates ==
  ASSUME NEW r \in RunState
  PROVE  /\ \A p \in PCs : [r EXCEPT !.pc = p] \in RunState
         /\ \A d \in Nat : [r EXCEPT !.pc = "defer", !.until = d] \in RunState
         /\ \A s \in Finished : [r EXCEPT !.pc = "finish", !.result = s] \in RunState
         /\ \A m \in Messages : [r EXCEPT !.pc = "permission", !.holds = m] \in RunState
  BY DEF RunState, PCs, Finished

(* A run that has not started, or starts by reading the clock.              *)
LEMMA IdleRunState ==
  /\ IdleRun \in RunState
  /\ \A t \in Nat : [IdleRun EXCEPT !.pc = "expire", !.now = t] \in RunState
  BY DEF RunState, PCs, Finished, IdleRun

(* Expiring the lapsed leases keeps the rows' types.                        *)
LEMMA ExpiredTyped ==
  ASSUME msg \in [Messages -> Row], NEW w \in Workers
  PROVE  Expired(w) \in [Messages -> Row]
  BY RowUpdates DEF Expired, Statuses, Finished

(* Deleting rows keeps the rows' types.                                     *)
LEMMA DeletedTyped ==
  ASSUME msg \in [Messages -> Row], NEW S, Deleted(S)
  PROVE  msg' \in [Messages -> Row]
  BY RowUpdates DEF Deleted, Statuses

(* A run that holds a message: it has claimed one and not yet written its   *)
(* result back.                                                             *)
Holding == {"permission", "recipient", "guard", "runtime", "send", "finish", "defer"}
HoldsOne == \A w \in Workers : task[w].pc \in Holding => task[w].holds \in Messages

Typed == TypeOK /\ HoldsOne

(* Every step of a submitter, the operator or the clock keeps the types.    *)
LEMMA TypedOutside ==
  ASSUME Typed,
         \/ \E m \in Messages : Submit(m) \/ Enqueue(m) \/ Purge(m)
         \/ Revoke
         \/ \E r \in Recipients : Delete(r)
         \/ Tick
         \/ UNCHANGED vars
  PROVE  Typed'
<1> USE DEF Typed, TypeOK, HoldsOne
<1>1. ASSUME NEW m \in Messages, Submit(m) PROVE Typed'
  BY <1>1, RowUpdates DEF Submit, Statuses
<1>2. ASSUME NEW m \in Messages, Enqueue(m) PROVE Typed'
  <2>1. PICK d \in Delays :
          msg' = [msg EXCEPT ![m].status = "queued", ![m].avail = clock + d]
    BY <1>2 DEF Enqueue
  <2>2. clock + d \in Nat
    BY TimeAssumption
  <2>3. msg' = [msg EXCEPT ![m] = [msg[m] EXCEPT !.status = "queued", !.avail = clock + d]]
    BY <2>1 DEF Row
  <2>4. msg' \in [Messages -> Row]
    BY <2>2, <2>3, RowUpdates DEF Statuses
  <2> QED
    BY <1>2, <2>4 DEF Enqueue
<1>3. ASSUME NEW m \in Messages, Purge(m) PROVE Typed'
  BY <1>3, DeletedTyped DEF Purge
<1>4. ASSUME Revoke PROVE Typed'
  BY <1>4 DEF Revoke
<1>5. ASSUME NEW r \in Recipients, Delete(r) PROVE Typed'
  BY <1>5, DeletedTyped DEF Delete
<1>6. ASSUME Tick PROVE Typed'
  BY <1>6 DEF Tick
<1>7. ASSUME UNCHANGED vars PROVE Typed'
  BY <1>7 DEF vars
<1> QED
  BY <1>1, <1>2, <1>3, <1>4, <1>5, <1>6, <1>7

(* A run's next state keeps the runs' types.                                *)
LEMMA RunTyped ==
  ASSUME Typed, NEW w \in Workers, NEW t \in RunState, Run(w, t),
         t.pc \in Holding => t.holds \in Messages
  PROVE  task' \in [Workers -> RunState] /\ HoldsOne'
  BY DEF Typed, TypeOK, HoldsOne, Run

(* The next states a run may reach from one that holds a message.           *)
LEMMA HoldingRuns ==
  ASSUME Typed, NEW w \in Workers, task[w].pc \in Holding
  PROVE  /\ task[w].now \in Nat /\ task[w].holds \in Messages
         /\ task[w].result \in Finished /\ task[w].until \in Nat
         /\ \A p \in PCs : Goto(w, p) => task' \in [Workers -> RunState] /\ HoldsOne'
         /\ \A s \in Finished : Finishing(w, s) =>
              task' \in [Workers -> RunState] /\ HoldsOne'
         /\ \A d \in Nat : Deferring(w, d) =>
              task' \in [Workers -> RunState] /\ HoldsOne'
<1>1. task[w] \in RunState /\ task[w].holds \in Messages
  BY DEF Typed, TypeOK, HoldsOne
<1>2. ASSUME NEW p \in PCs, Goto(w, p)
      PROVE  task' \in [Workers -> RunState] /\ HoldsOne'
  <2>1. [task[w] EXCEPT !.pc = p].holds \in Messages
    BY <1>1 DEF RunState
  <2> QED
    BY <1>1, <1>2, <2>1, RunUpdates, RunTyped DEF Goto
<1>3. ASSUME NEW s \in Finished, Finishing(w, s)
      PROVE  task' \in [Workers -> RunState] /\ HoldsOne'
  <2>1. [task[w] EXCEPT !.pc = "finish", !.result = s].holds \in Messages
    BY <1>1 DEF RunState
  <2> QED
    BY <1>1, <1>3, <2>1, RunUpdates, RunTyped DEF Finishing
<1>4. ASSUME NEW d \in Nat, Deferring(w, d)
      PROVE  task' \in [Workers -> RunState] /\ HoldsOne'
  <2>1. [task[w] EXCEPT !.pc = "defer", !.until = d].holds \in Messages
    BY <1>1 DEF RunState
  <2> QED
    BY <1>1, <1>4, <2>1, RunUpdates, RunTyped DEF Deferring
<1>5. task[w].now \in Nat /\ task[w].result \in Finished /\ task[w].until \in Nat
  BY <1>1 DEF RunState
<1> QED
  BY <1>1, <1>2, <1>3, <1>4, <1>5

(* A run that ends or starts.                                               *)
LEMMA IdleTyped ==
  ASSUME Typed, NEW w \in Workers, Run(w, IdleRun)
  PROVE  task' \in [Workers -> RunState] /\ HoldsOne'
<1>1. IdleRun \in RunState /\ IdleRun.pc \notin Holding
  BY IdleRunState DEF IdleRun, Holding
<1> QED
  BY <1>1, RunTyped

(* Every step of a dispatcher keeps the types.                              *)
LEMMA TypedStep ==
  ASSUME Typed, NEW w \in Workers, Step(w) \/ Crash(w)
  PROVE  Typed'
<1> DEFINE Runs == task' \in [Workers -> RunState] /\ HoldsOne'
<1>0. /\ msg \in [Messages -> Row] /\ sent \in [Messages -> Seq(Nat)]
      /\ allowed \subseteq Recipients /\ granted \in BOOLEAN /\ clock \in Nat
      /\ task[w] \in RunState
  BY DEF Typed, TypeOK
<1>1. ASSUME Runs, UNCHANGED <<msg, sent, allowed, granted, clock>> PROVE Typed'
  BY <1>0, <1>1 DEF Typed, TypeOK
<1>2. ASSUME Runs, msg' \in [Messages -> Row], UNCHANGED <<sent, allowed, granted, clock>>
      PROVE  Typed'
  BY <1>0, <1>2 DEF Typed, TypeOK
<1>3. CASE StartRun(w)
  <2> DEFINE t == [IdleRun EXCEPT !.pc = "expire", !.now = clock]
  <2>1. t \in RunState /\ t.pc \notin Holding
    BY <1>0, IdleRunState DEF IdleRun, Holding
  <2> QED
    BY <1>1, <1>3, <2>1, RunTyped DEF StartRun, Now
<1>4. CASE ExpireLeases(w)
  <2> DEFINE t == [task[w] EXCEPT !.pc = "claim"]
  <2>1. "claim" \in PCs /\ "claim" \notin Holding
    BY DEF PCs, Holding
  <2>2. t \in RunState
    BY <1>0, <2>1, RunUpdates
  <2>3. t.pc \notin Holding
    BY <1>0, <2>1 DEF RunState
  <2>4. Runs
    BY <1>4, <2>2, <2>3, RunTyped DEF ExpireLeases, Goto
  <2> QED
    BY <1>0, <1>2, <1>4, <2>4, ExpiredTyped DEF ExpireLeases
<1>5. CASE Claim(w)
  <2>1. CASE Due(w) = {} /\ msg' = Expired(w) /\ Run(w, IdleRun)
    BY <1>0, <1>2, <1>5, <2>1, ExpiredTyped, IdleTyped DEF Claim
  <2>2. ASSUME NEW m \in Due(w),
               msg' = [Expired(w) EXCEPT ![m] =
                         [@ EXCEPT !.status = "sending", !.owner = w,
                                   !.lease = task[w].now + LeaseLen,
                                   !.claimed = task[w].now]],
               Run(w, [task[w] EXCEPT !.pc = "permission", !.holds = m])
        PROVE  Typed'
    <3>1. m \in Messages /\ task[w].now \in Nat /\ task[w].now + LeaseLen \in Nat
      BY <1>0, TimeAssumption DEF Due, RunState
    <3>2. msg' \in [Messages -> Row]
      BY <1>0, <2>2, <3>1, ExpiredTyped, RowUpdates
    <3>3. [task[w] EXCEPT !.pc = "permission", !.holds = m] \in RunState
      BY <1>0, <3>1, RunUpdates
    <3>4. [task[w] EXCEPT !.pc = "permission", !.holds = m].holds \in Messages
      BY <1>0, <3>1 DEF RunState
    <3>5. Runs
      BY <2>2, <3>3, <3>4, RunTyped
    <3> QED
      BY <1>2, <1>5, <3>2, <3>5 DEF Claim
  <2> QED
    BY <1>5, <2>1, <2>2 DEF Claim
<1>6. CASE CheckPermission(w)
  <2>1. task[w].pc \in Holding
    BY <1>6 DEF CheckPermission, Holding
  <2>2. Runs
    BY <1>6, <2>1, HoldingRuns DEF CheckPermission, PCs, Finished
  <2> QED
    BY <1>1, <1>6, <2>2 DEF CheckPermission
<1>7. CASE Authorize(w)
  <2>1. task[w].pc \in Holding
    BY <1>7 DEF Authorize, Holding
  <2>2. Runs
    BY <1>7, <2>1, HoldingRuns DEF Authorize, PCs, Finished
  <2> QED
    BY <1>1, <1>7, <2>2 DEF Authorize
<1>8. CASE GuardRecipient(w)
  <2>1. task[w].pc \in Holding
    BY <1>8 DEF GuardRecipient, Holding
  <2>2. QuietUntil(task[w].now) \in Nat /\ task[w].now + Recheck \in Nat
    BY <2>1, HoldingRuns, QuietTyped, TimeAssumption
  <2>3. Runs
    BY <1>8, <2>1, <2>2, HoldingRuns DEF GuardRecipient, PCs
  <2> QED
    BY <1>1, <1>8, <2>3 DEF GuardRecipient
<1>9. CASE GuardRuntime(w)
  <2>1. task[w].pc \in Holding
    BY <1>9 DEF GuardRuntime, Holding
  <2>2. task[w].now + Recheck \in Nat
    BY <2>1, HoldingRuns, TimeAssumption
  <2>3. Runs
    BY <1>9, <2>1, <2>2, HoldingRuns DEF GuardRuntime, PCs
  <2> QED
    BY <1>1, <1>9, <2>3 DEF GuardRuntime
<1>10. CASE Send(w)
  <2>1. task[w].pc \in Holding
    BY <1>10 DEF Send, Holding
  <2>2. \A d \in RetryAfter : task[w].now + d \in Nat
    BY <2>1, HoldingRuns, TimeAssumption
  <2>3. Runs
    BY <1>10, <2>1, <2>2, HoldingRuns DEF Send, Unknown, Finished
  <2>4. sent' \in [Messages -> Seq(Nat)]
    <3>1. sent' = sent \/ Reached(task[w].holds)
      BY <1>10 DEF Send
    <3>2. Append(sent[task[w].holds], clock) \in Seq(Nat)
      BY <1>0, <2>1, HoldingRuns
    <3> QED
      BY <1>0, <3>1, <3>2 DEF Reached
  <2> QED
    BY <1>0, <1>10, <2>3, <2>4 DEF Send, Typed, TypeOK
<1>11. CASE Finish(w)
  <2>1. task[w].holds \in Messages /\ task[w].result \in Statuses
    BY <1>11, HoldingRuns DEF Finish, Holding, Statuses
  <2>2. msg[task[w].holds] \in Row
    BY <1>0, <2>1
  <2>3. [msg[task[w].holds] EXCEPT !.status = task[w].result, !.owner = NoOne] \in Row
    BY <2>1, <2>2, RowUpdates
  <2>4. msg' \in [Messages -> Row]
    BY <1>0, <1>11, <2>3 DEF Finish
  <2> QED
    BY <1>2, <1>11, <2>4, IdleTyped DEF Finish
<1>12. CASE Defer(w)
  <2>1. task[w].holds \in Messages /\ task[w].until \in Nat
    BY <1>12, HoldingRuns DEF Defer, Holding
  <2>2. msg[task[w].holds] \in Row
    BY <1>0, <2>1
  <2>3. [msg[task[w].holds] EXCEPT !.status = "queued", !.avail = task[w].until,
                                   !.owner = NoOne, !.claimed = NoTime] \in Row
    BY <2>1, <2>2, RowUpdates
  <2>4. msg' \in [Messages -> Row]
    BY <1>0, <1>12, <2>3 DEF Defer
  <2> QED
    BY <1>2, <1>12, <2>4, IdleTyped DEF Defer
<1>13. CASE Crash(w)
  BY <1>1, <1>13, IdleTyped DEF Crash
<1> QED
  BY <1>3, <1>4, <1>5, <1>6, <1>7, <1>8, <1>9, <1>10, <1>11, <1>12, <1>13 DEF Step

(* The types hold at first.                                                 *)
LEMMA TypedInit ==
  ASSUME Init
  PROVE  Typed
<1>1. NewRow \in Row
  BY DEF NewRow, Row, Statuses, Attempted, Finished, NoTime
<1>2. \A w \in Workers : task[w] = IdleRun
  BY DEF Init
<1>3. HoldsOne
  BY <1>2 DEF HoldsOne, Holding, IdleRun
<1>4. Start \in Nat /\ \A m \in Messages : sent[m] = <<>>
  BY TimeAssumption DEF Init
<1>5. msg \in [Messages -> Row] /\ task \in [Workers -> RunState]
  BY <1>1, IdleRunState DEF Init
<1>6. sent \in [Messages -> Seq(Nat)] /\ clock \in Nat
  BY <1>4 DEF Init
<1>7. allowed \subseteq Recipients /\ granted \in BOOLEAN
  BY DEF Init
<1> QED
  BY <1>3, <1>5, <1>6, <1>7 DEF Typed, TypeOK

(* Every step keeps the types.                                              *)
LEMMA TypedNext ==
  ASSUME Typed, [Next]_vars
  PROVE  Typed'
  BY TypedOutside, TypedStep DEF Next

(* The queue, the runs and the record of sends keep their types, for any    *)
(* number of messages and dispatchers and any limits and quiet hours.       *)
THEOREM TypeCorrect == Spec => []TypeOK
<1>1. Spec => []Typed
  BY TypedInit, TypedNext, PTL DEF Spec
<1>2. Typed => TypeOK
  BY DEF Typed
<1> QED
  BY <1>1, <1>2, PTL

-----------------------------------------------------------------------------
(* At most once.  Until a message has left the queue nobody holds it and    *)
(* nothing of it was sent; afterwards at most one run ever holds it, since  *)
(* only a deferral, before any send, brings a message back.                 *)
Waiting == {"absent", "submitting", "queued"}
Busy(w, m) == task[w].pc \in Holding /\ task[w].holds = m

Once(m) ==
  /\ msg[m].status \in Waiting \cup {"failed"} =>
       sent[m] = <<>> /\ \A w \in Workers : ~Busy(w, m)
  /\ \A v, w \in Workers : Busy(v, m) /\ Busy(w, m) => v = w
  /\ \A w \in Workers : Busy(w, m) /\ sent[m] # <<>> =>
       task[w].pc = "finish" /\ task[w].result \in {"sent", "ambiguous"}
  /\ Len(sent[m]) <= 1

OnceInv == Typed /\ \A m \in Messages : Once(m)

(* What a change of one run does to who holds what.                         *)
LEMMA RunEffect ==
  ASSUME Typed, NEW w \in Workers, NEW t, Run(w, t)
  PROVE  /\ task'[w] = t
         /\ \A v \in Workers \ {w} : task'[v] = task[v]
         /\ \A v \in Workers \ {w}, m \in Messages : Busy(v, m)' <=> Busy(v, m)
         /\ \A m \in Messages : Busy(w, m)' <=> t.pc \in Holding /\ t.holds = m
<1>1. task'[w] = t /\ \A v \in Workers \ {w} : task'[v] = task[v]
  BY DEF Typed, TypeOK, Run
<1> QED
  BY <1>1 DEF Busy

(* A step of the rows alone: a message may be submitted, queued, deleted or *)
(* found lapsed.                                                            *)
LEMMA OnceRows ==
  ASSUME NEW m \in Messages, Once(m), UNCHANGED <<task, sent>>,
         \/ msg'[m].status = msg[m].status
         \/ msg[m].status \in Waiting
         \/ msg'[m].status \notin Waiting \cup {"failed"}
  PROVE  Once(m)'
<1>1. \A w \in Workers : Busy(w, m)' <=> Busy(w, m)
  BY DEF Busy
<1> QED
  BY <1>1 DEF Once

(* A run that lets go of its message, or never had one.                     *)
LEMMA OnceReleased ==
  ASSUME Typed, NEW m \in Messages, Once(m), NEW w \in Workers, NEW t, Run(w, t),
         t.pc \notin Holding, sent' = sent,
         \/ msg'[m].status = msg[m].status
         \/ msg'[m].status \notin Waiting \cup {"failed"}
  PROVE  Once(m)'
<1>1. ~Busy(w, m)' /\ \A v \in Workers \ {w} : Busy(v, m)' <=> Busy(v, m)
  BY RunEffect
<1>2. \A v \in Workers \ {w} : task'[v] = task[v]
  BY RunEffect
<1> QED
  BY <1>1, <1>2 DEF Once

(* A run that goes on with the message it holds, before anything was sent.  *)
LEMMA OnceKept ==
  ASSUME Typed, NEW m \in Messages, Once(m), NEW w \in Workers, NEW t, Run(w, t),
         t.pc \in Holding, task[w].pc \in Holding \ {"finish"}, t.holds = task[w].holds,
         sent' = sent, msg' = msg
  PROVE  Once(m)'
<1>1. \A v \in Workers : Busy(v, m)' <=> Busy(v, m)
  BY RunEffect DEF Busy
<1>2. \A v \in Workers \ {w} : task'[v] = task[v]
  BY RunEffect
<1>3. Busy(w, m) => sent[m] = <<>>
  BY DEF Once, Holding
<1> QED
  BY <1>1, <1>2, <1>3 DEF Once

(* The next states of a run that holds a message and keeps it.              *)
LEMMA KeptRuns ==
  ASSUME Typed, NEW w \in Workers, task[w].pc \in Holding
  PROVE  /\ \A p \in Holding : /\ [task[w] EXCEPT !.pc = p].pc \in Holding
                              /\ [task[w] EXCEPT !.pc = p].holds = task[w].holds
         /\ \A d : LET t == [task[w] EXCEPT !.pc = "defer", !.until = d]
                  IN t.pc \in Holding /\ t.holds = task[w].holds
         /\ \A s : LET t == [task[w] EXCEPT !.pc = "finish", !.result = s]
                  IN /\ t.pc \in Holding /\ t.holds = task[w].holds
                     /\ t.pc = "finish" /\ t.result = s
  BY DEF Typed, TypeOK, RunState, Holding

(* A run that goes on to finish or defer the message it holds.              *)
LEMMA OnceConcluding ==
  ASSUME Typed, NEW m \in Messages, Once(m), NEW w \in Workers,
         task[w].pc \in Holding \ {"finish"}, sent' = sent, msg' = msg
  PROVE  /\ \A s : Finishing(w, s) => Once(m)'
         /\ \A d : Deferring(w, d) => Once(m)'
<1>1. ASSUME NEW s, Finishing(w, s) PROVE Once(m)'
  <2> DEFINE t == [task[w] EXCEPT !.pc = "finish", !.result = s]
  <2>1. t.pc \in Holding /\ t.holds = task[w].holds
    BY KeptRuns
  <2>2. Run(w, t)
    BY <1>1 DEF Finishing
  <2> HIDE DEF t
  <2> QED
    BY <2>1, <2>2, OnceKept
<1>2. ASSUME NEW d, Deferring(w, d) PROVE Once(m)'
  <2> DEFINE t == [task[w] EXCEPT !.pc = "defer", !.until = d]
  <2>1. t.pc \in Holding /\ t.holds = task[w].holds
    BY KeptRuns
  <2>2. Run(w, t)
    BY <1>2 DEF Deferring
  <2> HIDE DEF t
  <2> QED
    BY <2>1, <2>2, OnceKept
<1> QED
  BY <1>1, <1>2

(* Expiring moves only messages being sent, and only to ambiguous.          *)
LEMMA ExpiredEffect ==
  ASSUME Typed, NEW w \in Workers, NEW m \in Messages
  PROVE  \/ Expired(w)[m] = msg[m]
         \/ /\ msg[m].status = "sending"
            /\ Expired(w)[m].status = "ambiguous" /\ Expired(w)[m].owner = NoOne
<1>1. msg[m] \in Row
  BY DEF Typed, TypeOK
<1> QED
  BY <1>1 DEF Expired, Lapsed, Row

(* Deleting leaves the other rows alone.                                    *)
LEMMA DeletedEffect ==
  ASSUME Typed, NEW S, Deleted(S), NEW m \in Messages
  PROVE  msg'[m] = msg[m] \/ (m \in S /\ msg'[m].status = "deleted")
<1>1. msg[m] \in Row
  BY DEF Typed, TypeOK
<1> QED
  BY <1>1 DEF Deleted, Row

(* Steps of submitters, the operator and the clock.                         *)
LEMMA OnceOutside ==
  ASSUME Typed, NEW m \in Messages, Once(m),
         \/ \E n \in Messages : Submit(n) \/ Enqueue(n) \/ Purge(n)
         \/ Revoke
         \/ \E r \in Recipients : Delete(r)
         \/ Tick
         \/ UNCHANGED vars
  PROVE  Once(m)'
<1>0. msg \in [Messages -> Row]
  BY DEF Typed, TypeOK
<1>1. ASSUME NEW n \in Messages, Submit(n) PROVE Once(m)'
  <2>1. msg'[m].status = msg[m].status \/ msg[m].status \in Waiting
    BY <1>0, <1>1 DEF Submit, Waiting
  <2> QED
    BY <1>1, <2>1, OnceRows DEF Submit
<1>2. ASSUME NEW n \in Messages, Enqueue(n) PROVE Once(m)'
  <2>1. msg'[m].status = msg[m].status \/ msg[m].status \in Waiting
    BY <1>0, <1>2 DEF Enqueue, Waiting
  <2> QED
    BY <1>2, <2>1, OnceRows DEF Enqueue
<1>3. ASSUME NEW n \in Messages, Purge(n) PROVE Once(m)'
  <2>1. msg'[m] = msg[m] \/ msg'[m].status = "deleted"
    BY <1>3, DeletedEffect DEF Purge
  <2> QED
    BY <1>3, <2>1, OnceRows DEF Purge, Waiting
<1>4. ASSUME NEW r \in Recipients, Delete(r) PROVE Once(m)'
  <2>1. msg'[m] = msg[m] \/ msg'[m].status = "deleted"
    BY <1>4, DeletedEffect DEF Delete
  <2> QED
    BY <1>4, <2>1, OnceRows DEF Delete, Waiting
<1>5. ASSUME Revoke \/ Tick \/ UNCHANGED vars PROVE Once(m)'
  BY <1>5, OnceRows DEF Revoke, Tick, vars
<1> QED
  BY <1>1, <1>2, <1>3, <1>4, <1>5

(* The claim of a message puts it in one pair of hands.                     *)
LEMMA OnceClaim ==
  ASSUME Typed, NEW m \in Messages, Once(m), NEW w \in Workers, Claim(w)
  PROVE  Once(m)'
<1>0. msg \in [Messages -> Row] /\ task[w] \in RunState
  BY DEF Typed, TypeOK
<1>1. Expired(w) \in [Messages -> Row]
  BY <1>0, ExpiredTyped
<1>2. CASE Run(w, IdleRun) /\ msg' = Expired(w)
  <2>1. msg'[m].status = msg[m].status \/ msg'[m].status = "ambiguous"
    BY <1>2, ExpiredEffect
  <2>2. IdleRun.pc \notin Holding
    BY DEF IdleRun, Holding
  <2> QED
    BY <1>2, <2>1, <2>2, OnceReleased DEF Claim, Waiting
<1>3. ASSUME NEW n \in Due(w),
             msg' = [Expired(w) EXCEPT ![n] =
                       [@ EXCEPT !.status = "sending", !.owner = w,
                                 !.lease = task[w].now + LeaseLen,
                                 !.claimed = task[w].now]],
             Run(w, [task[w] EXCEPT !.pc = "permission", !.holds = n])
      PROVE  Once(m)'
  <2> DEFINE t == [task[w] EXCEPT !.pc = "permission", !.holds = n]
  <2>1. t.pc = "permission" /\ t.holds = n /\ t.pc \in Holding
    BY <1>0 DEF RunState, Holding
  <2>2. ~Busy(w, m)
    BY DEF Claim, Busy, Holding
  <2>3. \A v \in Workers \ {w} : (Busy(v, m)' <=> Busy(v, m)) /\ task'[v] = task[v]
    BY <1>3, RunEffect
  <2>4. Busy(w, m)' <=> n = m
    <3>1. task'[w] = t
      BY <1>3, RunEffect
    <3> QED
      BY <2>1, <3>1 DEF Busy
  <2>5. n \in Messages /\ Expired(w)[n].status = "queued"
    BY DEF Due
  <2>6. CASE n = m
    <3>1. msg[m].status = "queued"
      BY <2>5, <2>6, ExpiredEffect
    <3>2. sent[m] = <<>> /\ \A v \in Workers : ~Busy(v, m)
      BY <3>1 DEF Once, Waiting
    <3>3. msg'[m].status = "sending"
      BY <1>1, <1>3, <2>6 DEF Row
    <3>4. sent' = sent
      BY DEF Claim
    <3> QED
      BY <2>3, <3>2, <3>3, <3>4 DEF Once, Waiting
  <2>7. CASE n # m
    <3>1. msg'[m] = Expired(w)[m]
      BY <1>1, <1>3, <2>7
    <3>2. msg'[m].status = msg[m].status \/ msg'[m].status = "ambiguous"
      BY <3>1, ExpiredEffect
    <3>3. sent' = sent
      BY DEF Claim
    <3>4. \A v \in Workers : Busy(v, m)' <=> Busy(v, m)
      BY <2>2, <2>3, <2>4, <2>7
    <3> QED
      BY <2>2, <2>3, <3>2, <3>3, <3>4 DEF Once, Waiting
  <2> QED
    BY <2>6, <2>7
<1> QED
  BY <1>2, <1>3 DEF Claim

(* A send is the first of its message, and its run then only records it.    *)
LEMMA OnceSend ==
  ASSUME Typed, NEW m \in Messages, Once(m), NEW w \in Workers, Send(w)
  PROVE  Once(m)'
<1>0. /\ task[w].pc = "send" /\ task[w].pc \in Holding \ {"finish"}
      /\ task[w].holds \in Messages /\ msg' = msg
      /\ sent \in [Messages -> Seq(Nat)] /\ clock \in Nat
  BY HoldingRuns DEF Send, Holding, Typed, TypeOK
<1>1. CASE UNCHANGED sent
  <2>1. ASSUME NEW s, Finishing(w, s) PROVE Once(m)'
    BY <1>0, <1>1, <2>1, OnceConcluding
  <2>2. ASSUME NEW d, Deferring(w, d) PROVE Once(m)'
    BY <1>0, <1>1, <2>2, OnceConcluding
  <2> QED
    BY <2>1, <2>2 DEF Send, Unknown
<1>2. ASSUME NEW s \in {"sent", "ambiguous"}, Finishing(w, s), Reached(task[w].holds)
      PROVE  Once(m)'
  <2> DEFINE t == [task[w] EXCEPT !.pc = "finish", !.result = s]
  <2>1. t.pc = "finish" /\ t.result = s /\ t.pc \in Holding /\ t.holds = task[w].holds
    BY <1>0, KeptRuns
  <2>2. task'[w] = t /\ \A v \in Workers \ {w} : task'[v] = task[v]
    BY <1>2, RunEffect DEF Finishing
  <2>3. \A v \in Workers : Busy(v, m)' <=> Busy(v, m)
    BY <1>0, <2>1, <2>2 DEF Busy
  <2>4. CASE task[w].holds = m
    <3>1. Busy(w, m)
      BY <1>0, <2>4 DEF Busy
    <3>2. sent[m] = <<>>
      BY <1>0, <3>1 DEF Once
    <3>3. \A v \in Workers : Busy(v, m) => v = w
      BY <3>1 DEF Once
    <3>4. msg[m].status \notin Waiting \cup {"failed"}
      BY <3>1 DEF Once
    <3>5. Len(sent'[m]) <= 1
      <4>1. sent'[m] = Append(sent[m], clock)
        BY <1>0, <1>2, <2>4 DEF Reached
      <4> QED
        BY <1>0, <3>2, <4>1
    <3> QED
      BY <1>0, <2>1, <2>2, <2>3, <3>3, <3>4, <3>5 DEF Once
  <2>5. CASE task[w].holds # m
    <3>1. sent'[m] = sent[m]
      BY <1>0, <1>2, <2>5 DEF Reached
    <3>2. ~Busy(w, m)
      BY <2>5 DEF Busy
    <3> QED
      BY <1>0, <2>2, <2>3, <3>1, <3>2 DEF Once
  <2> QED
    BY <2>4, <2>5
<1> QED
  BY <1>1, <1>2 DEF Send, Unknown

(* The result of a send is written, or the message goes back unsent.        *)
LEMMA OnceWritten ==
  ASSUME Typed, NEW m \in Messages, Once(m), NEW w \in Workers, Finish(w) \/ Defer(w)
  PROVE  Once(m)'
<1>0. /\ task[w].pc \in Holding /\ task[w].holds \in Messages
      /\ task[w].result \in Finished
      /\ msg \in [Messages -> Row] /\ sent' = sent /\ Run(w, IdleRun)
  BY HoldingRuns DEF Finish, Defer, Holding, Typed, TypeOK
<1>1. IdleRun.pc \notin Holding
  BY DEF IdleRun, Holding
<1>2. CASE msg'[m].status = msg[m].status
  BY <1>0, <1>1, <1>2, OnceReleased
<1>3. CASE msg'[m].status # msg[m].status
  <2>1. task[w].holds = m
    BY <1>0, <1>3 DEF Finish, Defer
  <2>2. Busy(w, m) /\ \A v \in Workers : Busy(v, m) => v = w
    BY <1>0, <2>1 DEF Busy, Once
  <2>3. \A v \in Workers : ~Busy(v, m)'
    BY <1>0, <1>1, <2>2, RunEffect
  <2>4. msg'[m].status \in Waiting \cup {"failed"} => sent[m] = <<>>
    <3>1. CASE Defer(w)
      BY <2>2, <3>1 DEF Defer, Once
    <3>2. CASE Finish(w)
      <4>1. msg'[m].status = task[w].result
        BY <1>0, <1>3, <2>1, <3>2 DEF Finish, Row
      <4>2. sent[m] # <<>> => task[w].result \in {"sent", "ambiguous"}
        BY <2>2 DEF Once
      <4> QED
        BY <1>0, <4>1, <4>2 DEF Waiting, Finished
    <3> QED
      BY <3>1, <3>2
  <2>5. Len(sent[m]) <= 1
    BY DEF Once
  <2> QED
    BY <1>0, <2>3, <2>4, <2>5 DEF Once
<1> QED
  BY <1>2, <1>3

(* Every step of a dispatcher.                                              *)
LEMMA OnceStep ==
  ASSUME Typed, NEW m \in Messages, Once(m), NEW w \in Workers, Step(w) \/ Crash(w)
  PROVE  Once(m)'
<1>0. task[w] \in RunState
  BY DEF Typed, TypeOK
<1>1. CASE StartRun(w)
  <2>1. [IdleRun EXCEPT !.pc = "expire", !.now = Now(w)].pc \notin Holding
    BY DEF IdleRun, Holding
  <2> QED
    BY <1>1, <2>1, OnceReleased DEF StartRun
<1>2. CASE ExpireLeases(w)
  <2>1. [task[w] EXCEPT !.pc = "claim"].pc \notin Holding
    BY <1>0 DEF RunState, Holding
  <2>2. msg'[m].status = msg[m].status \/ msg'[m].status = "ambiguous"
    BY <1>2, ExpiredEffect DEF ExpireLeases
  <2> QED
    BY <1>2, <2>1, <2>2, OnceReleased DEF ExpireLeases, Goto, Waiting
<1>3. CASE Crash(w)
  <2>1. IdleRun.pc \notin Holding
    BY DEF IdleRun, Holding
  <2> QED
    BY <1>3, <2>1, OnceReleased DEF Crash
<1>4. CASE CheckPermission(w) \/ Authorize(w) \/ GuardRecipient(w) \/ GuardRuntime(w)
  <2>1. task[w].pc \in Holding \ {"finish"} /\ sent' = sent /\ msg' = msg
    BY <1>4 DEF CheckPermission, Authorize, GuardRecipient, GuardRuntime, Holding
  <2>2. ASSUME NEW p \in Holding, Goto(w, p) PROVE Once(m)'
    <3> DEFINE t == [task[w] EXCEPT !.pc = p]
    <3>1. t.pc \in Holding /\ t.holds = task[w].holds
      BY <2>1, KeptRuns
    <3>2. Run(w, t)
      BY <2>2 DEF Goto
    <3> HIDE DEF t
    <3> QED
      BY <2>1, <3>1, <3>2, OnceKept
  <2>3. ASSUME NEW s, Finishing(w, s) PROVE Once(m)'
    BY <2>1, <2>3, OnceConcluding
  <2>4. ASSUME NEW d, Deferring(w, d) PROVE Once(m)'
    BY <2>1, <2>4, OnceConcluding
  <2>5. {"recipient", "guard", "runtime", "send"} \subseteq Holding
    BY DEF Holding
  <2> QED
    BY <1>4, <2>2, <2>3, <2>4, <2>5
       DEF CheckPermission, Authorize, GuardRecipient, GuardRuntime
<1> QED
  BY <1>1, <1>2, <1>3, <1>4, OnceClaim, OnceSend, OnceWritten DEF Step

(* The invariant behind the two theorems below.                             *)
LEMMA OnceInvariant == Spec => []OnceInv
<1>1. Init => OnceInv
  <2> SUFFICES ASSUME Init PROVE OnceInv
    OBVIOUS
  <2>1. ASSUME NEW m \in Messages PROVE Once(m)
    <3>1. sent[m] = <<>> /\ \A w \in Workers : task[w].pc = "idle"
      BY DEF Init, IdleRun
    <3> QED
      BY <3>1 DEF Once, Busy, Holding
  <2> QED
    BY <2>1, TypedInit DEF OnceInv
<1>2. OnceInv /\ [Next]_vars => OnceInv'
  <2> SUFFICES ASSUME OnceInv, [Next]_vars PROVE OnceInv'
    OBVIOUS
  <2>1. ASSUME NEW m \in Messages PROVE Once(m)'
    BY OnceOutside, OnceStep DEF OnceInv, Next
  <2> QED
    BY <2>1, TypedNext DEF OnceInv
<1> QED
  BY <1>1, <1>2, PTL DEF Spec

(* Delivery is at most once: no message reaches the provider twice, for any *)
(* number of dispatchers, with either queue.                                *)
THEOREM DeliveredAtMostOnce == Spec => []AtMostOnce
<1>1. OnceInv => AtMostOnce
  BY DEF OnceInv, Once, AtMostOnce
<1> QED
  BY <1>1, OnceInvariant, PTL

(* What may have reached the provider is recorded as sending, sent or       *)
(* ambiguous until it is erased, so it is neither sent again nor uncounted. *)
THEOREM ReachedStaysRecorded == Spec => []ReachedIsRecorded
<1>1. ASSUME OnceInv, NEW m \in Messages, sent[m] # <<>>
      PROVE  msg[m].status \in Attempted \cup {"deleted"}
  <2>1. msg[m].status \in Statuses
    BY <1>1 DEF OnceInv, Typed, TypeOK, Row
  <2>2. msg[m].status \notin Waiting \cup {"failed"}
    BY <1>1 DEF OnceInv, Once
  <2> QED
    BY <2>1, <2>2 DEF Statuses, Waiting, Attempted, Finished
<1>2. OnceInv => ReachedIsRecorded
  BY <1>1 DEF ReachedIsRecorded
<1> QED
  BY <1>2, OnceInvariant, PTL

-----------------------------------------------------------------------------
(* The fenced queue.  Only a message being sent has an owner, so a run that *)
(* lost its lease finds its row's owner gone and leaves it alone.           *)
OwnerInv == \A m \in Messages : msg[m].status # "sending" => msg[m].owner = NoOne

(* With the fenced queue a step keeps the owners in order, and a finished   *)
(* message only changes by being deleted.                                   *)
LEMMA FencedRow ==
  ASSUME Fenced, Typed, OwnerInv, [Next]_vars, NEW m \in Messages
  PROVE  /\ msg'[m].status # "sending" => msg'[m].owner = NoOne
         /\ msg[m].status \in Finished => msg'[m].status \in {msg[m].status, "deleted"}
<1> DEFINE Kept == /\ msg'[m].status # "sending" => msg'[m].owner = NoOne
                   /\ msg[m].status \in Finished =>
                        msg'[m].status \in {msg[m].status, "deleted"}
<1>0. /\ msg \in [Messages -> Row] /\ msg[m] \in Row
      /\ msg[m].status # "sending" => msg[m].owner = NoOne
  BY DEF Typed, TypeOK, OwnerInv
<1>1. ASSUME msg'[m] = msg[m] PROVE Kept
  BY <1>0, <1>1
<1>2. ASSUME NEW n \in Messages, Submit(n) \/ Enqueue(n) PROVE Kept
  <2>1. msg'[m] = msg[m] \/ (/\ msg[m].status \in Waiting /\ msg'[m].owner = msg[m].owner
                            /\ msg[m].owner = NoOne)
    BY <1>0, <1>2 DEF Submit, Enqueue, Waiting, Row
  <2> QED
    BY <1>1, <2>1 DEF Waiting, Finished
<1>3. ASSUME NEW S \in SUBSET Messages, Deleted(S) PROVE Kept
  <2>1. msg'[m] = msg[m] \/ (msg'[m].status = "deleted" /\ msg'[m].owner = NoOne)
    BY <1>0, <1>3 DEF Deleted, Row
  <2> QED
    BY <1>1, <2>1
<1>4. ASSUME NEW w \in Workers, msg'[m] = Expired(w)[m] PROVE Kept
  <2>1. \/ msg'[m] = msg[m]
        \/ msg[m].status = "sending" /\ msg'[m].owner = NoOne
    BY <1>4, ExpiredEffect
  <2> QED
    BY <1>1, <2>1 DEF Finished
<1>5. ASSUME NEW w \in Workers, Claim(w) PROVE Kept
  <2>1. CASE msg' = Expired(w)
    BY <1>4, <2>1
  <2>2. ASSUME NEW n \in Due(w),
               msg' = [Expired(w) EXCEPT ![n] =
                         [@ EXCEPT !.status = "sending", !.owner = w,
                                   !.lease = task[w].now + LeaseLen,
                                   !.claimed = task[w].now]]
        PROVE  Kept
    <3>1. Expired(w) \in [Messages -> Row] /\ n \in Messages
      BY <1>0, ExpiredTyped DEF Due
    <3>2. CASE n = m
      <4>1. msg'[m].status = "sending"
        BY <2>2, <3>1, <3>2 DEF Row
      <4>2. msg[m].status = "queued"
        BY <3>2, ExpiredEffect DEF Due
      <4> QED
        BY <4>1, <4>2 DEF Finished
    <3>3. CASE n # m
      BY <1>4, <2>2, <3>1, <3>3
    <3> QED
      BY <3>2, <3>3
  <2> QED
    BY <1>5, <2>1, <2>2 DEF Claim
<1>6. ASSUME NEW w \in Workers, Finish(w) \/ Defer(w) PROVE Kept
  <2>1. CASE msg'[m] = msg[m]
    BY <1>1, <2>1
  <2>2. CASE msg'[m] # msg[m]
    <3>1. task[w].holds = m /\ Writable(w)
      BY <1>0, <1>6, <2>2 DEF Finish, Defer
    <3>2. msg[m].status = "sending"
      BY <1>0, <3>1, NoOneAssumption DEF Writable
    <3>3. msg'[m].owner = NoOne
      BY <1>0, <1>6, <3>1, ZenonT(60) DEF Finish, Defer, Row
    <3> QED
      BY <3>2, <3>3 DEF Finished
  <2> QED
    BY <2>1, <2>2
<1>7. ASSUME NEW w \in Workers, Step(w) \/ Crash(w) PROVE Kept
  BY <1>1, <1>4, <1>5, <1>6, <1>7
     DEF Step, Crash, StartRun, ExpireLeases, CheckPermission, Authorize,
         GuardRecipient, GuardRuntime, Send
<1>8. ASSUME NEW n \in Messages, Purge(n) PROVE Kept
  BY <1>3, <1>8 DEF Purge
<1>9. ASSUME NEW r \in Recipients, Delete(r) PROVE Kept
  <2>1. {k \in Stored : RecipientOf[k] = r} \in SUBSET Messages
    BY DEF Stored
  <2> QED
    BY <1>3, <1>9, <2>1 DEF Delete
<1>10. ASSUME Revoke \/ Tick \/ UNCHANGED vars PROVE Kept
  BY <1>1, <1>10 DEF Revoke, Tick, vars
<1> QED
  BY <1>2, <1>7, <1>8, <1>9, <1>10 DEF Next

(* A finished message stays as it is until it is erased, however late the   *)
(* runs that once held it write their results, if the queue is fenced.      *)
THEOREM FinishedForGood ==
  ASSUME Fenced
  PROVE  Spec => FinishedIsFinal
<1> DEFINE FInv == Typed /\ OwnerInv
<1>1. Init => FInv
  <2> SUFFICES ASSUME Init PROVE FInv
    OBVIOUS
  <2>1. \A m \in Messages : msg[m].owner = NoOne
    BY DEF Init, NewRow
  <2> QED
    BY <2>1, TypedInit DEF OwnerInv
<1>2. FInv /\ [Next]_vars => FInv'
  BY TypedNext, FencedRow DEF OwnerInv
<1>3. FInv /\ [Next]_vars =>
        [\A m \in Messages : msg[m].status \in Finished =>
           msg'[m].status \in {msg[m].status, "deleted"}]_vars
  BY FencedRow
<1> QED
  BY <1>1, <1>2, <1>3, PTL DEF Spec, FinishedIsFinal

(* The record of a message is true of it from the provider call on, and the *)
(* end it records is its last word, if the queue is fenced.                 *)
THEOREM RecordStaysTrue ==
  ASSUME Fenced
  PROVE  Spec => RecordIsTrue
  BY ReachedStaysRecorded, FinishedForGood DEF RecordIsTrue

-----------------------------------------------------------------------------
(* Quiet hours.  A run's reading is never ahead of the clock, and one that   *)
(* got past the guard was read outside the quiet hours.                     *)
Judged(w) ==
  /\ task[w].pc # "idle" => task[w].now <= clock
  /\ task[w].pc \in {"runtime", "send"} => ~InQuiet(task[w].now)
JudgedInv == Typed /\ \A w \in Workers : Judged(w)

(* When a run takes no time, its reading is still the time at which its     *)
(* message goes out.                                                        *)
AtOnce(w) == task[w].pc # "idle" => task[w].now = clock
QuietInv == Typed /\ QuietIsKept /\ \A w \in Workers : Judged(w) /\ AtOnce(w)

(* A run's step: it reads the clock, goes on with the reading it has, or is *)
(* over.                                                                    *)
GoesOn(w, t) ==
  /\ Run(w, t)
  /\ \/ t.pc = "idle"
     \/ t.now = clock
     \/ task[w].pc # "idle" /\ t.now = task[w].now
  /\ t.pc \in {"runtime", "send"} => ~InQuiet(t.now)

LEMMA RunGoesOn ==
  ASSUME Typed, NEW w \in Workers, Judged(w), Step(w) \/ Crash(w)
  PROVE  \E t : GoesOn(w, t)
<1>0. task[w] \in RunState /\ (task[w].pc \in {"runtime", "send"} => ~InQuiet(task[w].now))
  BY DEF Typed, TypeOK, Judged
<1>1. ASSUME Run(w, IdleRun) PROVE \E t : GoesOn(w, t)
  <2>1. IdleRun.pc = "idle"
    BY DEF IdleRun
  <2> QED
    BY <1>1, <2>1 DEF GoesOn
<1>2. ASSUME NEW p, Goto(w, p), task[w].pc # "idle",
             p \in {"runtime", "send"} => ~InQuiet(task[w].now)
      PROVE  \E t : GoesOn(w, t)
  <2> DEFINE t == [task[w] EXCEPT !.pc = p]
  <2>1. t.pc = p /\ t.now = task[w].now
    BY <1>0 DEF RunState
  <2>2. Run(w, t)
    BY <1>2 DEF Goto
  <2> HIDE DEF t
  <2> QED
    BY <1>2, <2>1, <2>2 DEF GoesOn
<1>3. ASSUME NEW d, Deferring(w, d), task[w].pc # "idle"
      PROVE  \E t : GoesOn(w, t)
  <2> DEFINE t == [task[w] EXCEPT !.pc = "defer", !.until = d]
  <2>1. t.pc = "defer" /\ t.now = task[w].now
    BY <1>0 DEF RunState
  <2>2. Run(w, t)
    BY <1>3 DEF Deferring
  <2> HIDE DEF t
  <2> QED
    BY <1>3, <2>1, <2>2 DEF GoesOn
<1>4. ASSUME NEW r, Finishing(w, r), task[w].pc # "idle"
      PROVE  \E t : GoesOn(w, t)
  <2> DEFINE t == [task[w] EXCEPT !.pc = "finish", !.result = r]
  <2>1. t.pc = "finish" /\ t.now = task[w].now
    BY <1>0 DEF RunState
  <2>2. Run(w, t)
    BY <1>4 DEF Finishing
  <2> HIDE DEF t
  <2> QED
    BY <1>4, <2>1, <2>2 DEF GoesOn
<1>5. CASE StartRun(w)
  <2> DEFINE t == [IdleRun EXCEPT !.pc = "expire", !.now = clock]
  <2>1. t.pc = "expire" /\ t.now = clock
    BY DEF IdleRun
  <2>2. Run(w, t)
    BY <1>5 DEF StartRun, Now
  <2> HIDE DEF t
  <2> QED
    BY <2>1, <2>2 DEF GoesOn
<1>6. CASE Claim(w)
  <2>1. ASSUME NEW m \in Messages, Run(w, [task[w] EXCEPT !.pc = "permission", !.holds = m])
        PROVE  \E t : GoesOn(w, t)
    <3> DEFINE t == [task[w] EXCEPT !.pc = "permission", !.holds = m]
    <3>1. t.pc = "permission" /\ t.now = task[w].now
      BY <1>0 DEF RunState
    <3>2. Run(w, t) /\ task[w].pc # "idle"
      BY <1>6, <2>1 DEF Claim
    <3> HIDE DEF t
    <3> QED
      BY <3>1, <3>2 DEF GoesOn
  <2> QED
    BY <1>1, <1>6, <2>1 DEF Claim, Due
<1>7. CASE ExpireLeases(w) \/ CheckPermission(w) \/ Authorize(w)
  BY <1>2, <1>4, <1>7 DEF ExpireLeases, CheckPermission, Authorize
<1>8. CASE GuardRecipient(w) \/ GuardRuntime(w)
  BY <1>0, <1>2, <1>3, <1>8 DEF GuardRecipient, GuardRuntime, HeldByQuiet
<1>9. CASE Send(w)
  BY <1>3, <1>4, <1>9 DEF Send, Unknown
<1>10. CASE Finish(w) \/ Defer(w) \/ Crash(w)
  BY <1>1, <1>10 DEF Finish, Defer, Crash
<1> QED
  BY <1>5, <1>6, <1>7, <1>8, <1>9, <1>10 DEF Step

(* A run's step keeps every run's reading as it must be.                    *)
LEMMA ReadingsStay ==
  ASSUME Typed, \A v \in Workers : Judged(v), NEW w \in Workers, Step(w) \/ Crash(w)
  PROVE  /\ \A v \in Workers : Judged(v)'
         /\ (\A v \in Workers : AtOnce(v)) => \A v \in Workers : AtOnce(v)'
<1>1. PICK t : GoesOn(w, t)
  BY RunGoesOn
<1>2. task'[w] = t /\ \A v \in Workers \ {w} : task'[v] = task[v]
  BY <1>1, RunEffect DEF GoesOn
<1>3. clock' = clock /\ clock \in Nat
  BY DEF Typed, TypeOK, Step, Crash, StartRun, ExpireLeases, Claim, CheckPermission, Authorize,
         GuardRecipient, GuardRuntime, Send, Finish, Defer
<1>4. /\ t.pc # "idle" => t.now <= clock
      /\ t.pc \in {"runtime", "send"} => ~InQuiet(t.now)
      /\ AtOnce(w) => (t.pc # "idle" => t.now = clock)
  BY <1>1, <1>3 DEF GoesOn, Judged, AtOnce
<1> QED
  BY <1>2, <1>3, <1>4 DEF Judged, AtOnce

LEMMA JudgedStarts == Init => JudgedInv /\ \A w \in Workers : AtOnce(w)
<1> SUFFICES ASSUME Init PROVE JudgedInv /\ \A w \in Workers : AtOnce(w)
  OBVIOUS
<1>1. \A w \in Workers : task[w].pc = "idle"
  BY DEF Init, IdleRun
<1> QED
  BY <1>1, TypedInit DEF JudgedInv, Judged, AtOnce

LEMMA JudgedStep ==
  ASSUME JudgedInv, [Next]_vars
  PROVE  JudgedInv'
<1>1. Typed'
  BY TypedNext DEF JudgedInv
<1>2. CASE \E w \in Workers : Step(w) \/ Crash(w)
  BY <1>1, <1>2, ReadingsStay DEF JudgedInv
<1>3. CASE \/ \E m \in Messages : Submit(m) \/ Enqueue(m) \/ Purge(m)
           \/ Revoke
           \/ \E r \in Recipients : Delete(r)
           \/ Tick
           \/ UNCHANGED vars
  <2>1. task' = task /\ (clock' = clock \/ clock' = clock + 1)
    BY <1>3 DEF Submit, Enqueue, Purge, Revoke, Delete, Tick, vars
  <2>2. clock \in Nat /\ \A w \in Workers : task[w] \in RunState
    BY DEF JudgedInv, Typed, TypeOK
  <2>3. \A w \in Workers : task[w].now \in Nat
    BY <2>2 DEF RunState
  <2>4. \A w \in Workers : Judged(w)'
    BY <2>1, <2>2, <2>3 DEF JudgedInv, Judged, InQuiet
  <2> QED
    BY <1>1, <2>4 DEF JudgedInv
<1> QED
  BY <1>2, <1>3 DEF Next

(* What reaches the provider does so in some run's Send.                    *)
LEMMA SentBySend ==
  ASSUME Typed, [Next]_vars, NEW m \in Messages, sent'[m] # sent[m]
  PROVE  \E w \in Workers : Send(w) /\ task[w].holds = m
<1>1. sent' # sent
  OBVIOUS
<1>2. PICK w \in Workers : Send(w)
  BY <1>1 DEF Next, Step, Crash, StartRun, ExpireLeases, Claim, CheckPermission, Authorize,
              GuardRecipient, GuardRuntime, Finish, Defer, Submit, Enqueue, Purge, Revoke,
              Delete, Tick, vars
<1>3. Reached(task[w].holds)
  BY <1>1, <1>2 DEF Send
<1>4. task[w].holds = m
  BY <1>3 DEF Reached, Typed, TypeOK
<1> QED
  BY <1>2, <1>4

(* However long a run takes and whatever the hours, over midnight or not:   *)
(* what it sends it judged at a reading outside the quiet hours (_guard),   *)
(* and if it goes out inside them they began after that reading.            *)
THEOREM QuietHoursJudged == Spec => QuietWhenRead
<1> DEFINE Sent == \A m \in Messages : sent'[m] # sent[m] =>
                     \E w \in Workers : /\ task[w].pc = "send" /\ task[w].holds = m
                                        /\ ~InQuiet(task[w].now)
                                        /\ InQuiet(clock) => task[w].now < clock
<1>1. Init => JudgedInv
  BY JudgedStarts
<1>2. JudgedInv /\ [Next]_vars => JudgedInv'
  BY JudgedStep
<1>3. JudgedInv /\ [Next]_vars => [Sent]_vars
  <2> SUFFICES ASSUME JudgedInv, [Next]_vars, NEW m \in Messages, sent'[m] # sent[m]
               PROVE  \E w \in Workers : /\ task[w].pc = "send" /\ task[w].holds = m
                                         /\ ~InQuiet(task[w].now)
                                         /\ InQuiet(clock) => task[w].now < clock
    OBVIOUS
  <2>1. PICK w \in Workers : Send(w) /\ task[w].holds = m
    BY SentBySend DEF JudgedInv
  <2>2. task[w].pc = "send" /\ ~InQuiet(task[w].now) /\ task[w].now <= clock
    BY <2>1 DEF Send, JudgedInv, Judged
  <2>3. clock \in Nat /\ task[w] \in RunState
    BY DEF JudgedInv, Typed, TypeOK
  <2>4. task[w].now \in Nat
    BY <2>3 DEF RunState
  <2>5. InQuiet(clock) => task[w].now # clock
    BY <2>2
  <2>6. InQuiet(clock) => task[w].now < clock
    BY <2>2, <2>3, <2>4, <2>5
  <2> QED
    BY <2>1, <2>2, <2>6
<1> QED
  BY <1>1, <1>2, <1>3, PTL DEF Spec, QuietWhenRead

(* When a run takes no time, nothing is sent in quiet hours.                *)
LEMMA QuietSent ==
  ASSUME QuietInv, NEW w \in Workers, Send(w)
  PROVE  QuietIsKept'
<1>1. task[w].pc = "send" /\ ~InQuiet(clock) /\ task[w].holds \in Messages
  BY DEF Send, QuietInv, Judged, AtOnce, Typed, HoldsOne, Holding
<1>2. sent \in [Messages -> Seq(Nat)] /\ clock \in Nat
  BY DEF QuietInv, Typed, TypeOK
<1>3. CASE sent' = sent
  BY <1>3 DEF QuietInv, QuietIsKept, InQuiet
<1>4. CASE Reached(task[w].holds)
  <2> DEFINE n == task[w].holds
  <2>1. \A m \in Messages : m # n => sent'[m] = sent[m]
    BY <1>1, <1>2, <1>4 DEF Reached
  <2>2. sent'[n] = Append(sent[n], clock) /\ sent[n] \in Seq(Nat)
    BY <1>1, <1>2, <1>4 DEF Reached
  <2>3. \A i \in DOMAIN sent'[n] : sent'[n][i] = clock \/ (i \in DOMAIN sent[n] /\ sent'[n][i] = sent[n][i])
    BY <1>2, <2>2
  <2>4. ASSUME NEW m \in Messages, NEW i \in DOMAIN sent'[m] PROVE ~InQuiet(sent'[m][i])
    BY <1>1, <2>1, <2>3, <2>4 DEF QuietInv, QuietIsKept
  <2> QED
    BY <2>4 DEF QuietIsKept, InQuiet
<1> QED
  BY <1>3, <1>4 DEF Send, Finishing, Unknown

(* The quiet hours are kept by every step.                                  *)
LEMMA QuietStep ==
  ASSUME Prompt, QuietInv, [Next]_vars
  PROVE  QuietInv'
<1>1. JudgedInv'
  BY JudgedStep DEF JudgedInv, QuietInv
<1>2. ASSUME sent' = sent PROVE QuietIsKept'
  BY <1>2 DEF QuietInv, QuietIsKept, InQuiet
<1>3. CASE \/ \E m \in Messages : Submit(m) \/ Enqueue(m) \/ Purge(m)
           \/ Revoke
           \/ \E r \in Recipients : Delete(r)
           \/ Tick
           \/ UNCHANGED vars
  <2>1. /\ task' = task /\ sent' = sent
        /\ clock' = clock \/ \A w \in Workers : task[w].pc = "idle"
    BY <1>3 DEF Submit, Enqueue, Purge, Revoke, Delete, Tick, vars
  <2>2. \A w \in Workers : AtOnce(w)'
    BY <2>1 DEF QuietInv, AtOnce
  <2> QED
    BY <1>1, <1>2, <2>1, <2>2 DEF JudgedInv, QuietInv
<1>4. ASSUME NEW w \in Workers, Step(w) \/ Crash(w) PROVE QuietInv'
  <2>1. sent' = sent \/ Send(w)
    BY <1>4 DEF Step, Crash, StartRun, ExpireLeases, Claim, CheckPermission, Authorize,
                GuardRecipient, GuardRuntime, Finish, Defer
  <2>2. \A v \in Workers : AtOnce(v)'
    BY <1>4, ReadingsStay DEF QuietInv
  <2> QED
    BY <1>1, <1>2, <2>1, <2>2, QuietSent DEF JudgedInv, QuietInv
<1> QED
  BY <1>3, <1>4 DEF Next

-----------------------------------------------------------------------------
(* Revocation.  A message whose recipient is revoked while nobody holds it  *)
(* never gets past the second look at the directory.                        *)
Barred(m) ==
  /\ sent[m] = <<>> /\ RecipientOf[m] \notin allowed
  /\ \A w \in Workers : Busy(w, m) => task[w].pc \in {"permission", "recipient", "finish"}

(* A run that goes on does so with the message it holds.                    *)
LEMMA HeldOn ==
  ASSUME Typed, NEW w \in Workers, NEW t,
         \/ \E p : t = [task[w] EXCEPT !.pc = p]
         \/ \E d : t = [task[w] EXCEPT !.pc = "defer", !.until = d]
         \/ \E r : t = [task[w] EXCEPT !.pc = "finish", !.result = r]
  PROVE  t.holds = task[w].holds
  BY DEF Typed, TypeOK, RunState

LEMMA BarredStep ==
  ASSUME Typed, NEW m \in Messages, Barred(m), NEW w \in Workers, Step(w) \/ Crash(w)
  PROVE  Barred(m)'
<1> DEFINE Early == {"permission", "recipient", "finish"}
<1>0. task[w] \in RunState /\ (Busy(w, m) => task[w].pc \in Early)
  BY DEF Typed, TypeOK, Barred
<1>1. sent'[m] = <<>> /\ allowed' = allowed
  <2>1. sent' = sent \/ (task[w].pc = "send" /\ Reached(task[w].holds))
    BY DEF Step, Crash, StartRun, ExpireLeases, Claim, CheckPermission, Authorize, GuardRecipient,
           GuardRuntime, Send, Finish, Defer
  <2>2. task[w].pc = "send" => task[w].holds # m
    BY <1>0 DEF Busy, Holding
  <2>3. sent'[m] = sent[m]
    BY <2>1, <2>2 DEF Reached, Typed, TypeOK
  <2> QED
    BY <2>3 DEF Barred, Step, Crash, StartRun, ExpireLeases, Claim, CheckPermission, Authorize,
           GuardRecipient, GuardRuntime, Send, Finish, Defer
<1>2. ASSUME NEW t, Run(w, t), t.pc \in Holding /\ t.holds = m => t.pc \in Early
      PROVE  Barred(m)'
  <2>1. /\ task'[w] = t /\ (Busy(w, m)' <=> t.pc \in Holding /\ t.holds = m)
        /\ \A v \in Workers \ {w} : task'[v] = task[v] /\ (Busy(v, m)' <=> Busy(v, m))
    BY <1>2, RunEffect
  <2> QED
    BY <1>1, <1>2, <2>1 DEF Barred
<1>3. ASSUME NEW p \in Early, Goto(w, p) \/ \E r : p = "finish" /\ Finishing(w, r) PROVE Barred(m)'
  <2>1. [task[w] EXCEPT !.pc = p].pc = p /\ \A r : [task[w] EXCEPT !.pc = "finish", !.result = r].pc = "finish"
    BY <1>0 DEF RunState
  <2> QED
    BY <1>2, <1>3, <2>1 DEF Goto, Finishing
<1>4. ASSUME task[w].holds # m,
             \/ \E p : Goto(w, p)
             \/ \E d : Deferring(w, d)
             \/ \E r : Finishing(w, r)
      PROVE  Barred(m)'
  <2>1. PICK t : Run(w, t) /\ (\/ \E p : t = [task[w] EXCEPT !.pc = p]
                               \/ \E d : t = [task[w] EXCEPT !.pc = "defer", !.until = d]
                               \/ \E r : t = [task[w] EXCEPT !.pc = "finish", !.result = r])
    BY <1>4 DEF Goto, Deferring, Finishing
  <2>2. t.holds = task[w].holds
    BY <2>1, HeldOn
  <2> QED
    BY <1>2, <1>4, <2>1, <2>2
<1>5. CASE StartRun(w) \/ ExpireLeases(w) \/ Crash(w) \/ Finish(w) \/ Defer(w)
  <2>1. /\ IdleRun.pc \notin Holding /\ [IdleRun EXCEPT !.pc = "expire", !.now = Now(w)].pc \notin Holding
        /\ [task[w] EXCEPT !.pc = "claim"].pc \notin Holding
    BY <1>0 DEF IdleRun, Holding, RunState
  <2> QED
    BY <1>2, <1>5, <2>1 DEF StartRun, ExpireLeases, Crash, Finish, Defer, Goto
<1>6. CASE Claim(w)
  <2>1. IdleRun.pc \notin Holding /\ \A n : [task[w] EXCEPT !.pc = "permission", !.holds = n].pc = "permission"
    BY <1>0 DEF IdleRun, Holding, RunState
  <2> QED
    BY <1>2, <1>6, <2>1 DEF Claim
<1>7. CASE CheckPermission(w)
  BY <1>3, <1>7 DEF CheckPermission
<1>8. CASE Authorize(w)
  <2>1. task[w].holds = m => ~Authorized(w)
    BY DEF Authorized, Barred
  <2> QED
    BY <1>3, <1>4, <1>8, <2>1 DEF Authorize
<1>9. CASE GuardRecipient(w) \/ GuardRuntime(w) \/ Send(w)
  <2>1. task[w].pc \in {"guard", "runtime", "send"}
    BY <1>9 DEF GuardRecipient, GuardRuntime, Send
  <2>2. task[w].holds # m
    BY <1>0, <2>1 DEF Busy, Holding
  <2> QED
    BY <1>4, <1>9, <2>2 DEF GuardRecipient, GuardRuntime, Send, Unknown
<1> QED
  BY <1>5, <1>6, <1>7, <1>8, <1>9 DEF Step

LEMMA BarredNext ==
  ASSUME Typed, NEW m \in Messages, Barred(m), [Next]_vars
  PROVE  Barred(m)'
<1>1. CASE \/ \E n \in Messages : Submit(n) \/ Enqueue(n) \/ Purge(n)
           \/ Revoke
           \/ \E r \in Recipients : Delete(r)
           \/ Tick
           \/ UNCHANGED vars
  <2>1. task' = task /\ sent' = sent /\ allowed' \subseteq allowed
    BY <1>1 DEF Submit, Enqueue, Purge, Revoke, Delete, Tick, vars
  <2> QED
    BY <2>1 DEF Barred, Busy
<1> QED
  BY <1>1, BarredStep DEF Next

(* A recipient revoked while its message waits gets nothing: the directory  *)
(* is asked again before every provider call, whichever dispatchers run,    *)
(* lapse or die meanwhile, with either queue.                               *)
THEOREM RevokedIsNeverSent == Spec => RevokedStaysUnsent
<1> SUFFICES ASSUME NEW m \in Messages
             PROVE  Spec => []((msg[m].status = "queued" /\ RecipientOf[m] \notin allowed)
                                => [](sent[m] = <<>>))
  BY DEF RevokedStaysUnsent
<1>1. OnceInv /\ msg[m].status = "queued" /\ RecipientOf[m] \notin allowed => Barred(m)
  BY DEF OnceInv, Once, Waiting, Barred
<1>2. OnceInv /\ Barred(m) /\ [Next]_vars => Barred(m)'
  BY BarredNext DEF OnceInv
<1>3. Barred(m) => sent[m] = <<>>
  BY DEF Barred
<1> QED
  BY <1>1, <1>2, <1>3, OnceInvariant, PTL DEF Spec

-----------------------------------------------------------------------------
(* The end of the quiet hours.                                              *)

(* A time of the day is read back from the ticks of its day.                *)
LEMMA TimeOfDay ==
  ASSUME NEW q \in Nat, NEW x \in 0 .. Day - 1
  PROVE  (Day * q + x) % Day = x
  BY TimeAssumption, Z3

(* A time is so many whole days and a time of the day.                      *)
LEMMA DayOf ==
  ASSUME NEW t \in Nat
  PROVE  \E q \in Nat : \E x \in 0 .. Day - 1 :
           t = Day * q + x /\ t % Day = x
<1>1. /\ t % Day \in 0 .. Day - 1 /\ (t \div Day) \in Nat
      /\ t = Day * (t \div Day) + (t % Day)
  BY TimeAssumption
<1> QED
  BY <1>1

(* On whole minutes, quiet_until is the first moment after the quiet hours  *)
(* now falls inside: today's end when that is still to come, else tomorrow's.*)
LEMMA EndOfHours ==
  ASSUME QuietTo % Minute = 0, NEW now \in Nat, InQuiet(now)
  PROVE  /\ QuietUntil(now) > now
         /\ ~InQuiet(QuietUntil(now))
         /\ \A t \in now .. QuietUntil(now) - 1 : InQuiet(t)
<1> DEFINE Within(y) == IF QuietFrom <= QuietTo THEN QuietFrom <= y /\ y < QuietTo
                                                ELSE QuietFrom <= y \/ y < QuietTo
<1>1. PICK q \in Nat, x \in 0 .. Day - 1 : now = Day * q + x /\ now % Day = x
  BY DayOf
<1>2. /\ Day \in Nat /\ Day > 0 /\ Day * q \in Nat /\ Day * (q + 1) = Day * q + Day
      /\ QuietFrom \in 0 .. Day - 1 /\ QuietTo \in 0 .. Day - 1
  BY TimeAssumption
<1>3. QuietEndToday(now) = Day * q + QuietTo
  <2>1. QuietEndToday(now) = (now - x) + (QuietTo - 0)
    BY <1>1 DEF QuietEndToday
  <2> QED
    BY <1>1, <1>2, <2>1
<1>4. \A y \in 0 .. Day - 1 : InQuiet(Day * q + y) <=> Within(y)
  BY TimeOfDay DEF InQuiet
<1>5. \A y \in 0 .. Day - 1 : InQuiet(Day * (q + 1) + y) <=> Within(y)
  BY TimeOfDay DEF InQuiet
<1>6. Within(x)
  BY <1>1, <1>4
<1>7. CASE x < QuietTo
  <2>1. QuietUntil(now) = Day * q + QuietTo
    BY <1>1, <1>2, <1>3, <1>7 DEF QuietUntil
  <2>2. QuietUntil(now) > now
    BY <1>1, <1>2, <1>7, <2>1
  <2>3. ~InQuiet(QuietUntil(now))
    BY <1>2, <1>4, <2>1
  <2>4. ASSUME NEW t \in now .. QuietUntil(now) - 1 PROVE InQuiet(t)
    <3>1. t - Day * q \in x .. QuietTo - 1 /\ t - Day * q \in 0 .. Day - 1
      BY <1>1, <1>2, <2>1
    <3>2. t = Day * q + (t - Day * q)
      BY <1>1, <1>2, <2>1
    <3> QED
      BY <1>2, <1>4, <1>6, <3>1, <3>2
  <2> QED
    BY <2>2, <2>3, <2>4
(* The hours are over midnight, and their end is tomorrow's.                *)
<1>8. CASE QuietTo <= x
  <2>1. QuietTo < QuietFrom /\ QuietFrom <= x
    BY <1>1, <1>2, <1>6, <1>8
  <2>2. ~(QuietFrom <= QuietTo)
    BY <1>2, <2>1
  <2>3. \A y \in 0 .. Day - 1 : QuietFrom <= y \/ y < QuietTo =>
          InQuiet(Day * q + y) /\ InQuiet(Day * (q + 1) + y)
    BY <1>4, <1>5, <2>2, Zenon
  <2>4. QuietUntil(now) = Day * (q + 1) + QuietTo
    BY <1>1, <1>2, <1>3, <1>8 DEF QuietUntil
  <2>5. QuietUntil(now) > now
    BY <1>1, <1>2, <2>4
  <2>6. ~InQuiet(QuietUntil(now))
    BY <1>2, <1>5, <2>4
  <2>7. ASSUME NEW t \in now .. QuietUntil(now) - 1, t < Day * (q + 1)
        PROVE  InQuiet(t)
    <3> DEFINE y == t - Day * q
    <3>1. y \in x .. Day - 1 /\ t = Day * q + y
      BY <1>1, <1>2, <2>4, <2>7
    <3>2. y \in 0 .. Day - 1 /\ QuietFrom <= y
      BY <1>2, <2>1, <3>1
    <3> HIDE DEF y
    <3> QED
      BY <2>3, <3>1, <3>2
  <2>8. ASSUME NEW t \in now .. QuietUntil(now) - 1, t >= Day * (q + 1)
        PROVE  InQuiet(t)
    <3> DEFINE y == t - Day * (q + 1)
    <3>1. y \in 0 .. Day - 1 /\ y < QuietTo /\ t = Day * (q + 1) + y
      BY <1>1, <1>2, <2>4, <2>8
    <3> HIDE DEF y
    <3> QED
      BY <2>3, <3>1
  <2> QED
    BY <1>1, <1>2, <2>4, <2>5, <2>6, <2>7, <2>8
<1> QED
  BY <1>1, <1>2, <1>7, <1>8

(* Wherever the clock stands.                                               *)
LEMMA HoursEnd == Typed => DeferralEnds
  BY EndOfHours, TimeAssumption DEF DeferralEnds, QuietUntilEnds, Typed, TypeOK

(* In every state of a behaviour.                                          *)
LEMMA DeferralsEnd == Spec => []DeferralEnds
<1>1. Init => Typed
  BY TypedInit
<1>2. Typed /\ [Next]_vars => Typed'
  BY TypedNext
<1> QED
  BY <1>1, <1>2, HoursEnd, PTL DEF Spec

(* What the delivery asks again before it sends holds of all it sends: no   *)
(* message of a recipient revoked meanwhile, none that _guard did not judge *)
(* at a reading outside the quiet hours, and none put off is put off past   *)
(* the first moment after them.                                             *)
THEOREM RefusedIsNeverSent == Spec => RefusedStaysUnsent
  BY RevokedIsNeverSent, QuietHoursJudged, DeferralsEnd DEF RefusedStaysUnsent

-----------------------------------------------------------------------------
(* The limits, when a run takes no time and nothing is erased.  A message   *)
(* in a run's hands was claimed now, and one that was sent was sent when it *)
(* was claimed, so the limits count it at the time it went out.             *)
Dated(m) ==
  /\ msg[m].status # "deleted"
  /\ msg[m].status \in Attempted => msg[m].claimed # NoTime
  /\ msg[m].claimed <= clock
  /\ \A w \in Workers : Busy(w, m) =>
       msg[m].status = "sending" /\ msg[m].claimed = clock /\ msg[m].lease > clock
  /\ sent[m] # <<>> => sent[m] = <<msg[m].claimed>>
DatedInv == OnceInv /\ QuietInv /\ \A m \in Messages : Dated(m)

(* A step that leaves a message alone and puts it into no new hands.        *)
LEMMA DatedOn ==
  ASSUME Typed, NEW m \in Messages, Dated(m), NEW w \in Workers, NEW t, Run(w, t), clock' = clock,
         sent'[m] = sent[m], msg'[m] = msg[m], t.pc \in Holding /\ t.holds = m => Busy(w, m)
  PROVE  Dated(m)'
<1>1. \A v \in Workers : Busy(v, m)' => Busy(v, m)
  BY RunEffect
<1> QED
  BY <1>1 DEF Dated

(* What expiring the leases does to a message: it marks one whose lease has *)
(* run out, which no run holds.                                             *)
LEMMA ExpiredDated ==
  ASSUME DatedInv, NEW m \in Messages, NEW w \in Workers, task[w].pc # "idle"
  PROVE  \/ Expired(w)[m] = msg[m]
         \/ /\ Expired(w)[m].status = "ambiguous" /\ Expired(w)[m].claimed = msg[m].claimed
            /\ msg[m].status = "sending" /\ \A v \in Workers : ~Busy(v, m)
<1>1. msg[m] \in Row /\ task[w].now = clock /\ clock \in Nat
  BY DEF DatedInv, QuietInv, AtOnce, Typed, TypeOK
<1>2. CASE m \in Lapsed(w)
  <2>1. ~(msg[m].lease > clock)
    BY <1>1, <1>2 DEF Lapsed, Row
  <2>2. \A v \in Workers : ~Busy(v, m)
    BY <2>1 DEF DatedInv, Dated
  <2> QED
    BY <1>1, <1>2, <2>2 DEF Expired, Lapsed, Row
<1> QED
  BY <1>2 DEF Expired

(* A message whose lease ran out, or that none holds, in a run's step.      *)
LEMMA DatedExpired ==
  ASSUME DatedInv, NEW m \in Messages, NEW w \in Workers, NEW t, Run(w, t), clock' = clock,
         task[w].pc # "idle", sent' = sent, msg'[m] = Expired(w)[m], ~(t.pc \in Holding /\ t.holds = m)
  PROVE  Dated(m)'
<1>0. Typed /\ Dated(m)
  BY DEF DatedInv, OnceInv
<1>1. CASE Expired(w)[m] = msg[m]
  BY <1>0, <1>1, DatedOn
<1>2. CASE /\ Expired(w)[m].status = "ambiguous" /\ Expired(w)[m].claimed = msg[m].claimed
           /\ msg[m].status = "sending" /\ \A v \in Workers : ~Busy(v, m)
  <2>1. \A v \in Workers : ~Busy(v, m)'
    BY <1>0, <1>2, RunEffect
  <2> QED
    BY <1>0, <1>2, <2>1 DEF Dated, Attempted
<1> QED
  BY <1>1, <1>2, ExpiredDated

(* The rows of a claim.                                                     *)
ClaimedRow(w, r) == [r EXCEPT !.status = "sending", !.owner = w,
                              !.lease = task[w].now + LeaseLen, !.claimed = task[w].now]

LEMMA DatedClaim ==
  ASSUME DatedInv, NEW m \in Messages, NEW w \in Workers, Claim(w)
  PROVE  Dated(m)'
<1>0. /\ Typed /\ msg \in [Messages -> Row] /\ task[w] \in RunState /\ task[w].pc = "claim" /\ clock \in Nat
      /\ task[w].now = clock /\ clock' = clock /\ sent' = sent /\ Once(m)
  BY DEF DatedInv, OnceInv, QuietInv, AtOnce, Typed, TypeOK, Claim
<1>1. CASE Run(w, IdleRun) /\ msg' = Expired(w)
  <2>1. IdleRun.pc \notin Holding
    BY DEF IdleRun, Holding
  <2> QED
    BY <1>0, <1>1, <2>1, DatedExpired
<1>2. ASSUME NEW n \in Due(w), msg' = [Expired(w) EXCEPT ![n] = ClaimedRow(w, @)],
             Run(w, [task[w] EXCEPT !.pc = "permission", !.holds = n])
      PROVE  Dated(m)'
  <2> DEFINE t == [task[w] EXCEPT !.pc = "permission", !.holds = n]
  <2>1. t.pc = "permission" /\ t.holds = n
    BY <1>0 DEF RunState
  <2>2. Expired(w) \in [Messages -> Row] /\ n \in Messages
    BY <1>0, ExpiredTyped DEF Due
  <2>3. CASE n # m
    <3>1. msg'[m] = Expired(w)[m]
      BY <1>2, <2>2, <2>3
    <3> HIDE DEF t
    <3>2. Run(w, t)
      BY <1>2 DEF t
    <3> QED
      BY <1>0, <2>1, <2>3, <3>1, <3>2, DatedExpired
  <2>4. CASE n = m
    <3>1. msg[m].status = "queued"
      BY <1>0, <2>4, ExpiredEffect DEF Due
    <3>2. sent[m] = <<>> /\ \A v \in Workers : ~Busy(v, m)
      BY <1>0, <3>1 DEF Once, Waiting
    <3>3. clock + LeaseLen > clock /\ clock # NoTime
      BY <1>0, TimeAssumption DEF NoTime
    <3>4. msg'[m].status = "sending" /\ msg'[m].lease = clock + LeaseLen /\ msg'[m].claimed = clock
      BY <1>0, <1>2, <2>2, <2>4 DEF Row, ClaimedRow
    <3> QED
      BY <1>0, <3>2, <3>3, <3>4 DEF Dated
  <2> QED
    BY <2>3, <2>4
<1> QED
  BY <1>1, <1>2 DEF Claim, ClaimedRow

LEMMA DatedSend ==
  ASSUME DatedInv, NEW m \in Messages, NEW w \in Workers, Send(w)
  PROVE  Dated(m)'
<1>0. /\ Typed /\ Dated(m) /\ Once(m) /\ task[w].pc = "send" /\ task[w].holds \in Messages
      /\ sent \in [Messages -> Seq(Nat)] /\ clock \in Nat /\ clock' = clock /\ msg' = msg
  BY DEF DatedInv, OnceInv, Typed, TypeOK, HoldsOne, Holding, Send
<1>1. PICK t : Run(w, t) /\ t.holds = task[w].holds
  <2>1. PICK t : Run(w, t) /\ (\/ \E d : t = [task[w] EXCEPT !.pc = "defer", !.until = d]
                               \/ \E r : t = [task[w] EXCEPT !.pc = "finish", !.result = r])
    BY DEF Send, Deferring, Finishing, Unknown
  <2> QED
    BY <1>0, <2>1, HeldOn
<1>2. t.pc \in Holding /\ t.holds = m => Busy(w, m)
  BY <1>0, <1>1 DEF Busy, Holding
<1>3. CASE sent'[m] = sent[m]
  BY <1>0, <1>1, <1>2, <1>3, DatedOn
<1>4. CASE sent'[m] # sent[m]
  <2>1. m = task[w].holds /\ sent'[m] = Append(sent[m], clock)
    BY <1>0, <1>4 DEF Send, Reached
  <2>2. Busy(w, m) /\ sent[m] = <<>>
    BY <1>0, <2>1 DEF Busy, Once, Holding
  <2>3. sent'[m] = <<msg[m].claimed>>
    BY <1>0, <2>1, <2>2 DEF Dated
  <2>4. \A v \in Workers : Busy(v, m)' => Busy(v, m)
    BY <1>0, <1>1, <1>2, RunEffect
  <2> QED
    BY <1>0, <2>3, <2>4 DEF Dated
<1> QED
  BY <1>3, <1>4

LEMMA DatedWritten ==
  ASSUME DatedInv, NEW m \in Messages, NEW w \in Workers, Finish(w) \/ Defer(w)
  PROVE  Dated(m)'
<1>0. /\ Typed /\ Dated(m) /\ Once(m) /\ task[w].pc \in {"finish", "defer"} /\ task[w].holds \in Messages
      /\ msg \in [Messages -> Row] /\ task[w].result \in Finished /\ clock \in Nat
      /\ sent' = sent /\ clock' = clock /\ Run(w, IdleRun) /\ IdleRun.pc \notin Holding
  BY DEF DatedInv, OnceInv, Typed, TypeOK, RunState, HoldsOne, Holding, Finish, Defer, IdleRun
<1>1. CASE msg'[m] = msg[m]
  BY <1>0, <1>1, DatedOn
<1>2. CASE msg'[m] # msg[m]
  <2>1. task[w].holds = m /\ Busy(w, m)
    BY <1>0, <1>2 DEF Finish, Defer, Busy, Holding
  <2>2. \A v \in Workers : ~Busy(v, m)'
    BY <1>0, <2>1, RunEffect DEF Once
  <2>3. msg[m].claimed # NoTime
    BY <2>1, <1>0 DEF Dated, Attempted
  <2>4. CASE Finish(w)
    <3>1. msg'[m] = [msg[m] EXCEPT !.status = task[w].result, !.owner = NoOne]
      BY <1>0, <1>2, <2>1, <2>4 DEF Finish
    <3>2. msg'[m].status \in Finished /\ msg'[m].claimed = msg[m].claimed
      BY <1>0, <3>1 DEF Row
    <3> QED
      BY <1>0, <2>2, <2>3, <3>2 DEF Dated, Finished
  <2>5. CASE Defer(w)
    <3>1. msg'[m] = [msg[m] EXCEPT !.status = "queued", !.avail = task[w].until,
                                   !.owner = NoOne, !.claimed = NoTime]
      BY <1>0, <1>2, <2>1, <2>5 DEF Defer
    <3>2. msg'[m].status = "queued"
      BY <1>0, <3>1 DEF Row
    <3>3. sent[m] = <<>>
      BY <2>1, <2>5, <1>0 DEF Once, Defer
    <3>4. msg'[m].claimed = NoTime /\ NoTime <= clock
      BY <1>0, <3>1 DEF Row, NoTime
    <3> QED
      BY <1>0, <2>2, <3>2, <3>3, <3>4 DEF Dated, Attempted
  <2> QED
    BY <2>4, <2>5
<1> QED
  BY <1>1, <1>2

LEMMA DatedNext ==
  ASSUME Prompt, ~Erasures, DatedInv, [Next]_vars, NEW m \in Messages
  PROVE  Dated(m)'
<1>0. Typed /\ Dated(m) /\ Once(m) /\ msg \in [Messages -> Row]
  BY DEF DatedInv, OnceInv, Typed, TypeOK
<1>1. CASE (\E n \in Messages : Submit(n) \/ Enqueue(n)) \/ Revoke \/ UNCHANGED vars
  <2>1. task' = task /\ sent' = sent /\ clock' = clock
    BY <1>1 DEF Submit, Enqueue, Revoke, vars
  <2>2. \/ msg'[m] = msg[m]
        \/ msg[m].status \in {"absent", "submitting"} /\ msg'[m].status \in {"submitting", "queued"}
    BY <1>0, <1>1, ZenonT(40) DEF Submit, Enqueue, Revoke, vars, Row
  <2>3. CASE msg'[m] = msg[m]
    BY <1>0, <2>1, <2>3 DEF Dated, Busy
  <2>4. CASE msg[m].status \in {"absent", "submitting"} /\ msg'[m].status \in {"submitting", "queued"}
    <3>1. sent[m] = <<>> /\ \A w \in Workers : ~Busy(w, m)
      BY <1>0, <2>4 DEF Once, Waiting
    <3>2. msg'[m].claimed = msg[m].claimed
      <4>1. ASSUME NEW n \in Messages, Submit(n) \/ Enqueue(n) PROVE msg'[m].claimed = msg[m].claimed
        BY <1>0, <4>1 DEF Submit, Enqueue, Row
      <4> QED
        BY <1>1, <4>1 DEF Revoke, vars
    <3> QED
      BY <1>0, <2>1, <2>4, <3>1, <3>2 DEF Dated, Busy, Attempted
  <2> QED
    BY <2>2, <2>3, <2>4
<1>2. CASE Tick
  <2>1. task' = task /\ sent' = sent /\ msg' = msg /\ \A w \in Workers : ~Busy(w, m)
    BY <1>2 DEF Tick, Busy, Holding
  <2>2. msg[m].claimed \in Int /\ clock \in Int /\ clock' = clock + 1
    BY <1>0, <1>2 DEF Typed, TypeOK, Row, NoTime, Tick
  <2>3. msg[m].claimed <= clock'
    BY <1>0, <2>2 DEF Dated
  <2> QED
    BY <1>0, <2>1, <2>3 DEF Dated, Busy
<1>3. ASSUME NEW w \in Workers, Step(w) \/ Crash(w) PROVE Dated(m)'
  <2>0. task[w] \in RunState
    BY <1>0 DEF Typed, TypeOK
  <2>1. CASE StartRun(w) \/ Crash(w)
    <3>1. [IdleRun EXCEPT !.pc = "expire", !.now = Now(w)].pc \notin Holding /\ IdleRun.pc \notin Holding
      BY DEF IdleRun, Holding
    <3> QED
      BY <1>0, <2>1, <3>1, DatedOn DEF StartRun, Crash
  <2>2. CASE ExpireLeases(w)
    <3>1. [task[w] EXCEPT !.pc = "claim"].pc \notin Holding
      BY <2>0 DEF RunState, Holding
    <3> QED
      BY <2>2, <3>1, DatedExpired DEF ExpireLeases, Goto
  <2>3. CASE CheckPermission(w) \/ Authorize(w) \/ GuardRecipient(w) \/ GuardRuntime(w)
    <3>1. task[w].pc \in Holding /\ msg' = msg /\ sent' = sent /\ clock' = clock
      BY <2>3 DEF CheckPermission, Authorize, GuardRecipient, GuardRuntime, Holding
    <3>2. PICK t : Run(w, t) /\ (\/ \E p : t = [task[w] EXCEPT !.pc = p]
                                 \/ \E d : t = [task[w] EXCEPT !.pc = "defer", !.until = d]
                                 \/ \E r : t = [task[w] EXCEPT !.pc = "finish", !.result = r])
      BY <2>3 DEF CheckPermission, Authorize, GuardRecipient, GuardRuntime, Goto, Deferring, Finishing
    <3>3. t.holds = task[w].holds
      BY <1>0, <3>2, HeldOn
    <3> QED
      BY <1>0, <3>1, <3>2, <3>3, DatedOn DEF Busy
  <2> QED
    BY <1>3, <2>1, <2>2, <2>3, DatedClaim, DatedSend, DatedWritten DEF Step
<1> QED
  BY <1>1, <1>2, <1>3 DEF Next, Purge, Delete

(* The messages that were sent or that a run with one of the states pcs has *)
(* in hand: at most these may reach the provider, each as of its claim.     *)
Sure(m, pcs) == sent[m] # <<>> \/ \E w \in Workers : Busy(w, m) /\ task[w].pc \in pcs
Tally(S, pcs, t, n) == {m \in S : Sure(m, pcs) /\ msg[m].claimed \in t - n .. t}
OfRecipient(r) == {m \in Messages : RecipientOf[m] = r}
PastRuntime == {"send"}
PastRecipient == {"runtime", "send"}
Touched == {m \in Messages : msg[m].claimed # NoTime}

(* The run w finds its message within a limit and goes on.                  *)
Passes(w, pcs) ==
  \/ pcs = PastRuntime /\ GuardRuntime(w) /\ ~(Used(w, PerRuntime.window, FALSE) >= PerRuntime.count)
  \/ /\ pcs = PastRecipient /\ GuardRecipient(w)
     /\ ~(Used(w, PerRecipient.window, TRUE) >= PerRecipient.count)

(* A run's step makes no message sure but the one whose limit it has found  *)
(* unused.                                                                  *)
LEMMA SureStep ==
  ASSUME Typed, NEW m \in Messages, Once(m), NEW w \in Workers, Step(w) \/ Crash(w),
         NEW pcs \in {PastRuntime, PastRecipient}, Sure(m, pcs)'
  PROVE  Sure(m, pcs) \/ (task[w].holds = m /\ Busy(w, m) /\ Passes(w, pcs))
<1>0. /\ task[w] \in RunState /\ sent \in [Messages -> Seq(Nat)]
      /\ pcs \subseteq {"runtime", "send"} /\ "send" \in pcs
  BY DEF Typed, TypeOK, PastRuntime, PastRecipient
<1>1. ASSUME NEW t, Run(w, t), sent'[m] = sent[m],
             t.pc \in pcs /\ t.holds = m => Sure(m, pcs) \/ (task[w].holds = m /\ Busy(w, m) /\ Passes(w, pcs))
      PROVE  Sure(m, pcs) \/ (task[w].holds = m /\ Busy(w, m) /\ Passes(w, pcs))
  <2>1. /\ task'[w] = t /\ (Busy(w, m)' <=> t.pc \in Holding /\ t.holds = m)
        /\ \A v \in Workers \ {w} : task'[v] = task[v] /\ (Busy(v, m)' <=> Busy(v, m))
    BY <1>1, RunEffect DEF Typed
  <2>2. CASE Busy(w, m)' /\ task'[w].pc \in pcs
    BY <1>1, <2>1, <2>2
  <2>3. CASE ~(Busy(w, m)' /\ task'[w].pc \in pcs)
    BY <1>1, <2>1, <2>3 DEF Sure
  <2> QED
    BY <2>2, <2>3
<1>2. ASSUME NEW t, Run(w, t), sent'[m] = sent[m], t.pc \notin {"runtime", "send"}
      PROVE  Sure(m, pcs) \/ (task[w].holds = m /\ Busy(w, m) /\ Passes(w, pcs))
  BY <1>0, <1>1, <1>2
<1>3. CASE StartRun(w) \/ ExpireLeases(w) \/ Crash(w) \/ Finish(w) \/ Defer(w) \/ Claim(w) \/ CheckPermission(w)
           \/ Authorize(w)
  <2>1. PICK t : Run(w, t) /\ (\/ t = IdleRun \/ t = [IdleRun EXCEPT !.pc = "expire", !.now = Now(w)]
                               \/ \E p \in {"claim", "recipient", "guard"} : t = [task[w] EXCEPT !.pc = p]
                               \/ \E n : t = [task[w] EXCEPT !.pc = "permission", !.holds = n]
                               \/ \E r : t = [task[w] EXCEPT !.pc = "finish", !.result = r])
    BY <1>3 DEF StartRun, ExpireLeases, Crash, Finish, Defer, Claim, CheckPermission, Authorize, Goto, Finishing
  <2>2. t.pc \notin {"runtime", "send"}
    <3>1. IdleRun.pc = "idle" /\ [IdleRun EXCEPT !.pc = "expire", !.now = Now(w)].pc = "expire"
      BY DEF IdleRun
    <3>2. /\ \A p : [task[w] EXCEPT !.pc = p].pc = p
          /\ \A n : [task[w] EXCEPT !.pc = "permission", !.holds = n].pc = "permission"
          /\ \A r : [task[w] EXCEPT !.pc = "finish", !.result = r].pc = "finish"
      BY <1>0 DEF RunState
    <3> QED
      BY <2>1, <3>1, <3>2
  <2> QED
    BY <1>2, <1>3, <2>1, <2>2 DEF StartRun, ExpireLeases, Crash, Finish, Defer, Claim, CheckPermission, Authorize
<1>4. CASE GuardRecipient(w)
  <2>1. CASE \E d : Deferring(w, d)
    <3>1. PICK d : Run(w, [task[w] EXCEPT !.pc = "defer", !.until = d])
      BY <2>1 DEF Deferring
    <3>2. [task[w] EXCEPT !.pc = "defer", !.until = d].pc = "defer"
      BY <1>0 DEF RunState
    <3> QED
      BY <1>2, <1>4, <3>1, <3>2 DEF GuardRecipient
  <2>2. CASE Goto(w, "runtime") /\ ~(Used(w, PerRecipient.window, TRUE) >= PerRecipient.count)
    <3> DEFINE t == [task[w] EXCEPT !.pc = "runtime"]
    <3>1. Run(w, t) /\ t.pc = "runtime" /\ t.holds = task[w].holds
      BY <1>0, <2>2 DEF RunState, Goto
    <3>2. t.pc \in pcs => Passes(w, pcs)
      BY <1>4, <2>2, <3>1 DEF Passes, PastRuntime, PastRecipient
    <3>3. t.holds = m => task[w].holds = m /\ Busy(w, m)
      BY <1>4, <3>1 DEF GuardRecipient, Busy, Holding
    <3> HIDE DEF t
    <3> QED
      BY <1>1, <1>4, <3>1, <3>2, <3>3 DEF GuardRecipient
  <2> QED
    BY <1>4, <2>1, <2>2 DEF GuardRecipient
<1>5. CASE GuardRuntime(w)
  <2>1. CASE \E d : Deferring(w, d)
    <3>1. PICK d : Run(w, [task[w] EXCEPT !.pc = "defer", !.until = d])
      BY <2>1 DEF Deferring
    <3>2. [task[w] EXCEPT !.pc = "defer", !.until = d].pc = "defer"
      BY <1>0 DEF RunState
    <3> QED
      BY <1>2, <1>5, <3>1, <3>2 DEF GuardRuntime
  <2>2. CASE Goto(w, "send") /\ ~(Used(w, PerRuntime.window, FALSE) >= PerRuntime.count)
    <3> DEFINE t == [task[w] EXCEPT !.pc = "send"]
    <3>1. Run(w, t) /\ t.pc = "send" /\ t.holds = task[w].holds
      BY <1>0, <2>2 DEF RunState, Goto
    <3>2. t.holds = m => task[w].holds = m /\ Busy(w, m)
      BY <1>5, <3>1 DEF GuardRuntime, Busy, Holding
    <3>3. pcs = PastRecipient /\ t.holds = m => Sure(m, pcs)
      BY <1>5, <3>2 DEF GuardRuntime, Sure, PastRecipient
    <3>4. pcs = PastRuntime => Passes(w, pcs)
      BY <1>5, <2>2 DEF Passes
    <3> HIDE DEF t
    <3> QED
      BY <1>1, <1>5, <3>1, <3>2, <3>3, <3>4 DEF GuardRuntime
  <2> QED
    BY <1>5, <2>1, <2>2 DEF GuardRuntime
<1>6. CASE Send(w)
  <2>1. CASE task[w].holds = m
    BY <1>0, <1>6, <2>1 DEF Send, Sure, Busy, Holding
  <2>2. CASE task[w].holds # m
    <3>1. PICK t : Run(w, t) /\ (\/ \E d : t = [task[w] EXCEPT !.pc = "defer", !.until = d]
                                 \/ \E r : t = [task[w] EXCEPT !.pc = "finish", !.result = r])
      BY <1>6 DEF Send, Deferring, Finishing, Unknown
    <3>2. t.pc \notin {"runtime", "send"}
      BY <1>0, <3>1 DEF RunState
    <3>3. sent'[m] = sent[m]
      BY <1>0, <1>6, <2>2 DEF Send, Reached
    <3> QED
      BY <1>2, <3>1, <3>2, <3>3
  <2> QED
    BY <2>1, <2>2
<1> QED
  BY <1>3, <1>4, <1>5, <1>6 DEF Step

(* The reading a message is counted by changes only when it is claimed or   *)
(* deferred, and then it is not sure.                                       *)
LEMMA ClaimedKept ==
  ASSUME Typed, [Next]_vars, NEW m \in Messages, Once(m), NEW pcs \in {PastRuntime, PastRecipient},
         Sure(m, pcs)'
  PROVE  msg'[m].claimed = msg[m].claimed
<1>0. msg \in [Messages -> Row] /\ msg[m] \in Row
  BY DEF Typed, TypeOK
<1>1. ASSUME NEW n \in Messages, Submit(n) \/ Enqueue(n) PROVE msg'[m].claimed = msg[m].claimed
  BY <1>0, <1>1 DEF Submit, Enqueue, Row
<1>2. ASSUME NEW S, Deleted(S) PROVE msg'[m].claimed = msg[m].claimed
  BY <1>0, <1>2 DEF Deleted, Row
<1>3. ASSUME NEW w \in Workers PROVE Expired(w)[m].claimed = msg[m].claimed
  BY <1>0, <1>3 DEF Expired, Row
<1>4. ASSUME NEW w \in Workers, Claim(w) PROVE msg'[m].claimed = msg[m].claimed
  <2>1. CASE msg' = Expired(w)
    BY <1>3, <2>1
  <2>2. ASSUME NEW n \in Due(w), msg' = [Expired(w) EXCEPT ![n] = ClaimedRow(w, @)],
               Run(w, [task[w] EXCEPT !.pc = "permission", !.holds = n])
        PROVE  msg'[m].claimed = msg[m].claimed
    <3>1. Expired(w) \in [Messages -> Row]
      BY <1>0, ExpiredTyped
    <3>2. CASE n # m
      BY <1>3, <2>2, <3>1, <3>2
    <3>3. CASE n = m
      <4>1. msg[m].status = "queued"
        BY <3>3, ExpiredEffect DEF Due
      <4>2. sent[m] = <<>> /\ \A v \in Workers : ~Busy(v, m)
        BY <4>1 DEF Once, Waiting
      <4>3. task[w] \in RunState
        BY DEF Typed, TypeOK
      <4> DEFINE t == [task[w] EXCEPT !.pc = "permission", !.holds = n]
      <4>4. t.pc \notin pcs /\ Run(w, t)
        BY <2>2, <4>3 DEF RunState, PastRuntime, PastRecipient
      <4> HIDE DEF t
      <4>5. task'[w].pc \notin pcs /\ \A v \in Workers \ {w} : ~Busy(v, m)'
        BY <4>2, <4>4, RunEffect
      <4> QED
        BY <1>4, <4>2, <4>5 DEF Sure, Claim
    <3> QED
      BY <3>2, <3>3
  <2> QED
    BY <1>4, <2>1, <2>2 DEF Claim, ClaimedRow
<1>5. ASSUME NEW w \in Workers, Finish(w) PROVE msg'[m].claimed = msg[m].claimed
  <2>1. msg'[m] = msg[m] \/ msg'[m] = [msg[m] EXCEPT !.status = task[w].result, !.owner = NoOne]
    BY <1>0, <1>5 DEF Finish
  <2> QED
    BY <1>0, <2>1 DEF Row
<1>6. ASSUME NEW w \in Workers, Defer(w) PROVE msg'[m].claimed = msg[m].claimed
  <2>1. CASE task[w].holds # m
    BY <1>0, <1>6, <2>1 DEF Defer
  <2>2. CASE task[w].holds = m
    <3>1. Busy(w, m) /\ task[w].pc = "defer" /\ IdleRun.pc \notin Holding
      BY <1>6, <2>2 DEF Defer, Busy, Holding, IdleRun
    <3>2. sent[m] = <<>> /\ \A v \in Workers : Busy(v, m) => v = w
      BY <3>1 DEF Once
    <3>3. \A v \in Workers : ~Busy(v, m)'
      BY <1>6, <3>1, <3>2, RunEffect DEF Defer
    <3> QED
      BY <1>6, <3>2, <3>3 DEF Sure, Defer
  <2> QED
    BY <2>1, <2>2
<1>7. ASSUME msg' = msg PROVE msg'[m].claimed = msg[m].claimed
  BY <1>7
<1> QED
  BY <1>1, <1>2, <1>3, <1>4, <1>5, <1>6, <1>7
     DEF Next, Purge, Delete, Revoke, Tick, vars, Step, Crash, StartRun, ExpireLeases, CheckPermission, Authorize,
         GuardRecipient, GuardRuntime, Send

(* At most one message is claimed at a time.                                *)
LEMMA TouchedStep ==
  ASSUME Typed, [Next]_vars
  PROVE  \E n : Touched' \subseteq Touched \cup {n}
<1>0. msg \in [Messages -> Row]
  BY DEF Typed, TypeOK
<1>a. ASSUME NEW n, \A m \in Messages : m = n \/ msg'[m].claimed \in {msg[m].claimed, NoTime}
      PROVE  \E k : Touched' \subseteq Touched \cup {k}
  BY <1>a DEF Touched
<1>1. ASSUME NEW w \in Workers, NEW m \in Messages PROVE Expired(w)[m].claimed = msg[m].claimed
  BY <1>0, <1>1 DEF Expired, Row
<1>2. ASSUME NEW k \in Messages, Submit(k) \/ Enqueue(k) PROVE \E n : Touched' \subseteq Touched \cup {n}
  BY <1>0, <1>2, <1>a DEF Submit, Enqueue, Row
<1>3. ASSUME NEW S, Deleted(S) PROVE \E n : Touched' \subseteq Touched \cup {n}
  BY <1>0, <1>3, <1>a DEF Deleted, Row
<1>4. ASSUME NEW w \in Workers, msg' = Expired(w) PROVE \E n : Touched' \subseteq Touched \cup {n}
  BY <1>1, <1>4, <1>a
<1>5. ASSUME NEW w \in Workers, NEW n \in Due(w), msg' = [Expired(w) EXCEPT ![n] = ClaimedRow(w, @)]
      PROVE  \E k : Touched' \subseteq Touched \cup {k}
  <2>1. Expired(w) \in [Messages -> Row]
    BY <1>0, ExpiredTyped
  <2>2. \A m \in Messages : m = n \/ msg'[m].claimed \in {msg[m].claimed, NoTime}
    BY <1>1, <1>5, <2>1
  <2> QED
    BY <1>a, <2>2
<1>6. ASSUME NEW w \in Workers, Finish(w) \/ Defer(w) PROVE \E n : Touched' \subseteq Touched \cup {n}
  <2>1. \A m \in Messages : m = task[w].holds \/ msg'[m].claimed \in {msg[m].claimed, NoTime}
    BY <1>0, <1>6 DEF Finish, Defer
  <2> QED
    BY <1>a, <2>1
<1>7. ASSUME msg' = msg PROVE \E n : Touched' \subseteq Touched \cup {n}
  BY <1>7, <1>a
<1> QED
  BY <1>2, <1>3, <1>4, <1>5, <1>6, <1>7
     DEF Next, Purge, Delete, Revoke, Tick, vars, Step, Crash, StartRun, ExpireLeases, Claim, ClaimedRow,
         CheckPermission, Authorize, GuardRecipient, GuardRuntime, Send

Within(S, pcs, limit) ==
  \A t \in 0 .. clock : Cardinality(Tally(S, pcs, t, limit.window)) <= limit.count

(* A sure message was claimed, and the limits count it.                     *)
LEMMA SureIsCounted ==
  ASSUME DatedInv, NEW m \in Messages, NEW pcs, Sure(m, pcs)
  PROVE  m \in Touched /\ Counted(m)
<1>1. msg[m].status \in Statuses /\ Dated(m) /\ Once(m)
  BY DEF DatedInv, OnceInv, Typed, TypeOK, Row
<1>2. msg[m].status \in Attempted
  BY <1>1 DEF Sure, Once, Dated, Statuses, Waiting, Attempted, Finished
<1> QED
  BY <1>1, <1>2 DEF Dated, Touched, Counted

LEMMA TallyFinite ==
  ASSUME DatedInv, IsFiniteSet(Touched), NEW S \in SUBSET Messages, NEW pcs, NEW t, NEW n
  PROVE  IsFiniteSet(Tally(S, pcs, t, n))
<1>1. Tally(S, pcs, t, n) \in SUBSET Touched
  BY SureIsCounted DEF Tally
<1> QED
  BY <1>1, FS_Subset

(* What a guard counts covers every other message that may have gone out    *)
(* within its window.                                                       *)
LEMMA UsedCovers ==
  ASSUME DatedInv, IsFiniteSet(Touched), NEW w \in Workers, task[w].pc # "idle", NEW same \in BOOLEAN,
         NEW pcs, NEW n \in Nat, NEW S \in SUBSET Messages,
         same => \A m \in S : RecipientOf[m] = RecipientOf[task[w].holds]
  PROVE  LET T == Tally(S, pcs, clock, n) \ {task[w].holds} IN
         IsFiniteSet(T) /\ Cardinality(T) \in Nat /\ Used(w, n, same) \in Nat /\ Cardinality(T) <= Used(w, n, same)
<1> DEFINE T == Tally(S, pcs, clock, n) \ {task[w].holds}
           U == {m \in Messages \ {task[w].holds} :
                   /\ Counted(m)
                   /\ msg[m].claimed >= task[w].now - n
                   /\ same => RecipientOf[m] = RecipientOf[task[w].holds]}
<1>1. task[w].now = clock /\ clock \in Nat /\ msg \in [Messages -> Row]
  BY DEF DatedInv, QuietInv, AtOnce, Typed, TypeOK
<1>2. U \in SUBSET Touched
  <2>1. \A m \in Messages : Counted(m) => m \in Touched
    BY DEF DatedInv, Dated, Counted, Touched
  <2> QED
    BY <2>1
<1>3. T \in SUBSET U
  <2> SUFFICES ASSUME NEW m \in T PROVE m \in U
    OBVIOUS
  <2>1. m \in S /\ m \in Messages /\ Sure(m, pcs) /\ msg[m].claimed \in clock - n .. clock /\ m # task[w].holds
    BY DEF Tally
  <2>2. Counted(m)
    BY <2>1, SureIsCounted
  <2>3. msg[m].claimed >= task[w].now - n
    BY <1>1, <2>1
  <2> QED
    BY <2>1, <2>2, <2>3
<1>4. IsFiniteSet(U)
  BY <1>2, FS_Subset
<1>5. Used(w, n, same) = Cardinality(U)
  BY DEF Used
<1> HIDE DEF T, U
<1>6. IsFiniteSet(T) /\ Cardinality(T) <= Cardinality(U)
  BY <1>3, <1>4, FS_Subset
<1>7. Cardinality(T) \in Nat /\ Cardinality(U) \in Nat
  BY <1>4, <1>6, FS_CardinalityType
<1> QED
  BY <1>5, <1>6, <1>7 DEF T

(* A limit stays kept: a message becomes sure only when, with the others    *)
(* that are, it is within the limit.                                        *)
LEMMA WithinStep ==
  ASSUME DatedInv, IsFiniteSet(Touched), [Next]_vars,
         NEW S \in SUBSET Messages, NEW pcs \in {PastRuntime, PastRecipient},
         NEW limit \in [count : Nat, window : Nat], Within(S, pcs, limit),
         \A w \in Workers : Passes(w, pcs) /\ task[w].holds \in S =>
           Cardinality(Tally(S, pcs, clock, limit.window) \ {task[w].holds}) < limit.count
  PROVE  Within(S, pcs, limit)'
<1> DEFINE n == limit.window
           k == limit.count
           Tl(t) == Tally(S, pcs, t, n)
<1>0. /\ Typed /\ msg \in [Messages -> Row] /\ clock \in Nat /\ n \in Nat /\ k \in Nat
      /\ \A m \in Messages : Once(m) /\ Dated(m)
  BY DEF DatedInv, OnceInv, Typed, TypeOK
<1>1. \A t : IsFiniteSet(Tl(t)) /\ Cardinality(Tl(t)) \in Nat
  BY TallyFinite, FS_CardinalityType
<1>2. \A t \in 0 .. clock : Cardinality(Tl(t)) <= k
  BY DEF Within
<1>3. \A m \in Messages : Sure(m, pcs)' => msg'[m].claimed = msg[m].claimed
  BY <1>0, ClaimedKept
<1>4. \A m \in Messages : msg[m].claimed \in Int /\ msg[m].claimed <= clock
  BY <1>0 DEF Row, NoTime, Dated
<1>5. ASSUME NEW t, NEW u \in 0 .. clock, Tl(t)' \subseteq Tl(u) PROVE Cardinality(Tl(t)') <= k
  <2>1. Cardinality(Tl(t)') <= Cardinality(Tl(u)) /\ IsFiniteSet(Tl(t)')
    BY <1>1, <1>5, FS_Subset
  <2>2. Cardinality(Tl(t)') \in Nat
    BY <2>1, FS_CardinalityType
  <2> QED
    BY <1>0, <1>1, <1>2, <2>1, <2>2
<1> SUFFICES ASSUME NEW t \in 0 .. clock' PROVE Cardinality(Tl(t)') <= k
  BY DEF Within
<1>6. CASE \A m \in Messages : Sure(m, pcs)' => Sure(m, pcs)
  <2>1. clock' = clock \/ clock' = clock + 1
    BY DEF Next, vars, Submit, Enqueue, Purge, Revoke, Delete, Tick, Step, Crash, StartRun, ExpireLeases, Claim,
           CheckPermission, Authorize, GuardRecipient, GuardRuntime, Send, Finish, Defer
  <2>2. PICK u \in 0 .. clock : t = u \/ (t = clock + 1 /\ u = clock)
    BY <1>0, <2>1
  <2>3. \A m \in S : msg[m].claimed \in t - n .. t => msg[m].claimed \in u - n .. u
    BY <1>0, <1>4, <2>2
  <2>4. Tl(t)' \subseteq Tl(u)
    BY <1>3, <1>6, <2>3 DEF Tally
  <2> QED
    BY <1>5, <2>4
<1>7. ASSUME NEW w \in Workers, Step(w) \/ Crash(w) PROVE Cardinality(Tl(t)') <= k
  <2> DEFINE h == task[w].holds
  <2>1. clock' = clock /\ \A m \in Messages :
          Sure(m, pcs)' => Sure(m, pcs) \/ (h = m /\ Busy(w, m) /\ Passes(w, pcs))
    BY <1>0, <1>7, SureStep
       DEF Step, Crash, StartRun, ExpireLeases, Claim,
           CheckPermission, Authorize, GuardRecipient, GuardRuntime, Send, Finish, Defer
  <2>2. CASE ~(h \in S /\ Busy(w, h) /\ Passes(w, pcs))
    <3>1. Tl(t)' \subseteq Tl(t)
      BY <1>3, <2>1, <2>2 DEF Tally
    <3> QED
      BY <1>5, <2>1, <3>1
  <2>3. CASE h \in S /\ Busy(w, h) /\ Passes(w, pcs)
    <3>1. msg[h].claimed = clock
      BY <1>0, <2>3 DEF Dated
    <3>2. Tl(t)' \subseteq Tl(t) \cup {h}
      BY <1>3, <2>1 DEF Tally
    <3>3. CASE t # clock
      <4>1. ~(clock \in t - n .. t)
        BY <1>0, <2>1, <3>3
      <4>2. h \notin Tl(t)'
        BY <1>3, <2>3, <3>1, <4>1 DEF Tally
      <4>3. Tl(t)' \subseteq Tl(t)
        BY <3>2, <4>2
      <4> QED
        BY <1>5, <2>1, <4>3
    <3>4. CASE t = clock
      <4> DEFINE T == Tl(clock) \ {h}
      <4>1. IsFiniteSet(T) /\ Cardinality(T) \in Nat /\ Cardinality(T) < k
        <5>1. IsFiniteSet(T)
          BY <1>1, FS_RemoveElement
        <5> QED
          BY <2>3, <5>1, FS_CardinalityType
      <4>2. h \notin T /\ Tl(t)' \subseteq T \cup {h}
        BY <3>2, <3>4
      <4> HIDE DEF T
      <4>3. IsFiniteSet(T \cup {h}) /\ Cardinality(T \cup {h}) = Cardinality(T) + 1
        BY <4>1, <4>2, FS_AddElement
      <4>4. Cardinality(Tl(t)') <= Cardinality(T \cup {h}) /\ IsFiniteSet(Tl(t)')
        BY <4>2, <4>3, FS_Subset
      <4>5. Cardinality(Tl(t)') \in Nat
        BY <4>4, FS_CardinalityType
      <4> QED
        BY <1>0, <4>1, <4>3, <4>4, <4>5
    <3> QED
      BY <3>3, <3>4
  <2> QED
    BY <2>2, <2>3
<1>8. CASE ~\E w \in Workers : Step(w) \/ Crash(w)
  <2>1. task' = task /\ sent' = sent
    BY <1>8 DEF Next, vars, Submit, Enqueue, Purge, Revoke, Delete, Tick
  <2> QED
    BY <1>6, <2>1 DEF Sure, Busy
<1> QED
  BY <1>7, <1>8

LimitInv ==
  /\ DatedInv /\ IsFiniteSet(Touched)
  /\ Within(Messages, PastRuntime, PerRuntime)
  /\ \A r \in Recipients : Within(OfRecipient(r), PastRecipient, PerRecipient)

LEMMA LimitStep ==
  ASSUME Prompt, ~Erasures, LimitInv, [Next]_vars
  PROVE  LimitInv'
<1>0. DatedInv /\ IsFiniteSet(Touched) /\ Typed
  BY DEF LimitInv, DatedInv, OnceInv
<1>a. PastRuntime # PastRecipient
  <2>1. "runtime" \in PastRecipient /\ "runtime" \notin PastRuntime
    BY DEF PastRuntime, PastRecipient
  <2> QED
    BY <2>1
<1>1. DatedInv'
  <2>1. OnceInv'
    <3>1. ASSUME NEW m \in Messages PROVE Once(m)'
      BY <1>0, OnceOutside, OnceStep DEF DatedInv, OnceInv, Next
    <3> QED
      BY <1>0, <3>1, TypedNext DEF OnceInv
  <2>2. QuietInv'
    BY <1>0, QuietStep DEF DatedInv
  <2> QED
    BY <1>0, <2>1, <2>2, DatedNext DEF DatedInv
<1>2. IsFiniteSet(Touched')
  <2>1. PICK n : Touched' \subseteq Touched \cup {n}
    BY <1>0, TouchedStep
  <2>2. IsFiniteSet(Touched \cup {n})
    BY <1>0, FS_AddElement
  <2> QED
    BY <2>1, <2>2, FS_Subset
<1>3. Within(Messages, PastRuntime, PerRuntime)'
  <2>1. ASSUME NEW w \in Workers, Passes(w, PastRuntime)
        PROVE  Cardinality(Tally(Messages, PastRuntime, clock, PerRuntime.window) \ {task[w].holds})
                 < PerRuntime.count
    <3>1. GuardRuntime(w) /\ ~(Used(w, PerRuntime.window, FALSE) >= PerRuntime.count)
      BY <1>a, <2>1 DEF Passes
    <3>2. PerRuntime.window \in Nat /\ PerRuntime.count \in Nat /\ task[w].pc # "idle" /\ FALSE \in BOOLEAN
      BY <3>1, LimitAssumption DEF GuardRuntime
    <3> DEFINE T == Tally(Messages, PastRuntime, clock, PerRuntime.window) \ {task[w].holds}
               U == Used(w, PerRuntime.window, FALSE)
    <3>3. Cardinality(T) \in Nat /\ U \in Nat /\ Cardinality(T) <= U
      BY <1>0, <3>2, UsedCovers
    <3>4. ~(U >= PerRuntime.count)
      BY <3>1
    <3> HIDE DEF T, U
    <3>5. Cardinality(T) < PerRuntime.count
      BY <3>2, <3>3, <3>4
    <3> QED
      BY <3>5 DEF T
  <2>2. Messages \in SUBSET Messages /\ PastRuntime \in {PastRuntime, PastRecipient}
    OBVIOUS
  <2> QED
    BY <1>0, <2>1, <2>2, WithinStep, LimitAssumption DEF LimitInv
<1>4. ASSUME NEW r \in Recipients PROVE Within(OfRecipient(r), PastRecipient, PerRecipient)'
  <2>1. ASSUME NEW w \in Workers, Passes(w, PastRecipient), task[w].holds \in OfRecipient(r)
        PROVE  Cardinality(Tally(OfRecipient(r), PastRecipient, clock, PerRecipient.window) \ {task[w].holds})
                 < PerRecipient.count
    <3>1. GuardRecipient(w) /\ ~(Used(w, PerRecipient.window, TRUE) >= PerRecipient.count)
      BY <1>a, <2>1 DEF Passes
    <3>2. PerRecipient.window \in Nat /\ PerRecipient.count \in Nat /\ task[w].pc # "idle" /\ TRUE \in BOOLEAN
      BY <3>1, LimitAssumption DEF GuardRecipient
    <3>3. OfRecipient(r) \in SUBSET Messages /\ \A m \in OfRecipient(r) : RecipientOf[m] = RecipientOf[task[w].holds]
      BY <2>1 DEF OfRecipient
    <3> DEFINE T == Tally(OfRecipient(r), PastRecipient, clock, PerRecipient.window) \ {task[w].holds}
               U == Used(w, PerRecipient.window, TRUE)
    <3>4. Cardinality(T) \in Nat /\ U \in Nat /\ Cardinality(T) <= U
      BY <1>0, <3>2, <3>3, UsedCovers
    <3>5. ~(U >= PerRecipient.count)
      BY <3>1
    <3> HIDE DEF T, U
    <3>6. Cardinality(T) < PerRecipient.count
      BY <3>2, <3>4, <3>5
    <3> QED
      BY <3>6 DEF T
  <2>2. OfRecipient(r) \in SUBSET Messages /\ PastRecipient \in {PastRuntime, PastRecipient}
    BY DEF OfRecipient
  <2> QED
    BY <1>0, <2>1, <2>2, WithinStep, LimitAssumption DEF LimitInv
<1> QED
  BY <1>1, <1>2, <1>3, <1>4 DEF LimitInv, OfRecipient

LEMMA LimitInit ==
  ASSUME Init
  PROVE  LimitInv
<1>0. /\ \A w \in Workers : task[w] = IdleRun
      /\ \A m \in Messages : msg[m] = NewRow /\ sent[m] = <<>>
      /\ clock = Start /\ IdleRun.pc = "idle" /\ NewRow.status = "absent" /\ NewRow.claimed = NoTime
  BY DEF Init, IdleRun, NewRow
<1>1. \A w \in Workers, m \in Messages : ~Busy(w, m)
  BY <1>0 DEF Busy, Holding
<1>2. OnceInv
  BY <1>0, <1>1, TypedInit DEF OnceInv, Once
<1>3. QuietInv
  BY <1>0, TypedInit DEF QuietInv, QuietIsKept, Judged, AtOnce
<1>4. \A m \in Messages : Dated(m)
  BY <1>0, <1>1, TimeAssumption DEF Dated, NoTime, Attempted
<1>5. Touched = {} /\ \A pcs, t, n : \A S \in SUBSET Messages : Tally(S, pcs, t, n) = {}
  BY <1>0, <1>1 DEF Touched, Tally, Sure
<1>6. IsFiniteSet({}) /\ Cardinality({}) = 0
  BY FS_EmptySet
<1>7. ASSUME NEW S \in SUBSET Messages, NEW pcs, NEW limit \in [count : Nat, window : Nat]
      PROVE  Within(S, pcs, limit)
  BY <1>5, <1>6 DEF Within
<1> QED
  BY <1>2, <1>3, <1>4, <1>5, <1>6, <1>7, LimitAssumption DEF LimitInv, DatedInv, OfRecipient

(* The delivery guard holds for any limits, windows, recipients and number  *)
(* of dispatchers that check and send at the same time, with either queue,  *)
(* when a run takes no time and no row is erased: the sends of a slow run   *)
(* are counted from its claim, and an erased row is no longer counted.      *)
THEOREM GuardAlwaysHolds ==
  ASSUME Prompt, ~Erasures
  PROVE  Spec => []GuardHolds
<1>1. ASSUME LimitInv PROVE GuardHolds
  <2>0. DatedInv /\ clock \in Nat /\ sent \in [Messages -> Seq(Nat)] /\ IsFiniteSet(Touched)
    BY <1>1 DEF LimitInv, DatedInv, OnceInv, Typed, TypeOK
  <2>1. ASSUME NEW S \in SUBSET Messages, NEW pcs \in {PastRuntime, PastRecipient},
               NEW limit \in [count : Nat, window : Nat], Within(S, pcs, limit), NEW t \in 0 .. clock
        PROVE  SentIn(S, t, limit.window) <= limit.count
    <3> DEFINE A == {m \in S : \E i \in DOMAIN sent[m] : sent[m][i] \in t - limit.window .. t}
               B == Tally(S, pcs, t, limit.window)
    <3>1. A \subseteq B
      <4> SUFFICES ASSUME NEW m \in A PROVE m \in B
        OBVIOUS
      <4>1. PICK i \in DOMAIN sent[m] : sent[m][i] \in t - limit.window .. t
        OBVIOUS
      <4>2. sent[m] # <<>>
        BY <4>1
      <4>3. sent[m] = <<msg[m].claimed>>
        BY <2>0, <4>2 DEF DatedInv, Dated
      <4>4. msg[m].claimed \in t - limit.window .. t
        BY <4>1, <4>3
      <4> QED
        BY <4>2, <4>4 DEF Tally, Sure
    <3>2. IsFiniteSet(B) /\ Cardinality(B) <= limit.count
      BY <2>0, <2>1, TallyFinite DEF Within
    <3>3. SentIn(S, t, limit.window) = Cardinality(A)
      BY DEF SentIn
    <3> HIDE DEF A, B
    <3>4. IsFiniteSet(A) /\ Cardinality(A) <= Cardinality(B)
      BY <3>1, <3>2, FS_Subset
    <3>5. Cardinality(A) \in Nat /\ Cardinality(B) \in Nat /\ limit.count \in Nat
      BY <3>2, <3>4, FS_CardinalityType
    <3> QED
      BY <3>2, <3>3, <3>4, <3>5
  <2>2. ASSUME NEW t \in 0 .. clock
        PROVE  /\ SentIn(Messages, t, PerRuntime.window) <= PerRuntime.count
               /\ \A r \in Recipients : SentIn(OfRecipient(r), t, PerRecipient.window) <= PerRecipient.count
    BY <1>1, <2>1, LimitAssumption DEF LimitInv, OfRecipient
  <2> QED
    BY <1>1, <2>2 DEF LimitInv, DatedInv, QuietInv, GuardHolds, WithinLimits, OfRecipient
<1> QED
  BY <1>1, LimitInit, LimitStep, PTL DEF Spec
=============================================================================

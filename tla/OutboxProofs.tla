---------------------------- MODULE OutboxProofs ----------------------------
(* Machine-checked theorems about Outbox, for any number of messages,       *)
(* conversations, workers and replies, and any caps and lease.              *)
EXTENDS OutboxDelivery, FiniteSetTheorems, TLAPS

-----------------------------------------------------------------------------
(* Type correctness.                                                        *)

(* The records the actions start from have their types.                     *)
LEMMA RecordTypes ==
  /\ NewRow \in Row
  /\ IdleTask \in Task
  /\ RetryableCondition \in Faults
  BY DEF NewRow, Row, IdleTask, Fresh, Task, RetryableCondition, Statuses, PCs,
         Faults, NoFault

(* The types of the record updates the actions make.                        *)
LEMMA OwnerUpdate ==
  ASSUME NEW r \in Row, NEW o \in Workers \cup {NoOwner}, NEW n \in Int
  PROVE  HeldBy(r, o, n) \in Row
  BY DEF Row, HeldBy

(* A row that an accepting transaction begins is a row.                     *)
LEMMA BeforeUpdate ==
  ASSUME NEW r \in Row, NEW s \in Statuses, NEW b \in SUBSET Messages
  PROVE  [r EXCEPT !.status = s, !.before = b] \in Row
  BY DEF Row

(* Rows stay rows when released, retried, aged or given a status or a body. *)
LEMMA RowUpdates ==
  ASSUME NEW r \in Row
  PROVE  /\ Unleased(r) \in Row
         /\ \A s \in Statuses : [r EXCEPT !.status = s] \in Row
         /\ \A d \in Nat : [r EXCEPT !.avail = d] \in Row
         /\ \A b \in Bodies \cup {NoBody} : [r EXCEPT !.body = b] \in Row
         /\ \A s \in SUBSET Messages : [r EXCEPT !.before = s] \in Row
         /\ Aged(r) \in Row
<1>1. Unleased(r) \in Row
  BY OwnerUpdate DEF Unleased
<1>2. /\ (IF r.owner # NoOwner /\ r.lease >= 0 THEN r.lease - 1 ELSE r.lease) \in Int
      /\ (IF r.avail > 0 THEN r.avail - 1 ELSE r.avail) \in Nat
  BY DEF Row
<1>3. Aged(r) \in Row
  BY <1>2 DEF Row, Aged
<1> QED
  BY <1>1, <1>3 DEF Row

(* Rows stay rows when a claim leases or terminalizes them.                 *)
LEMMA ClaimUpdates ==
  ASSUME NEW r \in Row
  PROVE  /\ Terminalized(r) \in Row
         /\ \A w \in Workers : Leased(w, r) \in Row
<1>1. Terminalized(r) \in Row
  BY RowUpdates DEF Terminalized, Statuses
<1>2. ASSUME NEW w \in Workers PROVE Leased(w, r) \in Row
  <2>1. HeldBy(r, w, Lease) \in Row
    BY OwnerUpdate, LeaseAssumption
  <2>2. ASSUME NEW q \in Row PROVE [q EXCEPT !.attempts = @ + 1] \in Row
    <3>1. q.attempts + 1 \in Nat
      BY DEF Row
    <3>2. \A n \in Nat : [q EXCEPT !.attempts = n] \in Row
      BY DEF Row
    <3> QED
      BY <3>1, <3>2
  <2> QED
    BY <2>1, <2>2 DEF Leased
<1> QED
  BY <1>1, <1>2

(* The rows after a claim transaction.                                      *)
LEMMA ClaimRowsTyped ==
  ASSUME row \in [Messages -> Row], NEW w \in Workers, NEW batch, ClaimRows(w, batch)
  PROVE  row' \in [Messages -> Row]
  BY ClaimUpdates DEF ClaimRows

(* The row after a recorded failure, and that no other row changes.         *)
LEMMA FailedRowEffect ==
  ASSUME row \in [Messages -> Row], NEW m \in Messages, NEW f \in Faults,
         FailedRow(m, f)
  PROVE  \E r \in Row :
           /\ row' = [row EXCEPT ![m] = r]
           /\ r.status = IF Terminal(m, f) THEN "failed" ELSE row[m].status
           /\ r.owner = NoOwner
           /\ r.attempts = row[m].attempts
           /\ r.before = row[m].before
           /\ r.body = IF Terminal(m, f) /\ FallbackDue(m, f) THEN Fallback
                       ELSE row[m].body
<1>0. row[m] \in Row
  OBVIOUS
<1>1. CASE Terminal(m, f)
  <2> DEFINE b == IF FallbackDue(m, f) THEN Fallback ELSE row[m].body
             r == [Terminalized(row[m]) EXCEPT !.body = b]
  <2>1. Terminalized(row[m]) \in Row /\ b \in Bodies \cup {NoBody}
    BY <1>0, ClaimUpdates DEF Row, Bodies
  <2>2. r \in Row
    BY <2>1, RowUpdates
  <2>3. row' = [row EXCEPT ![m] = r]
    BY <1>0, <1>1 DEF FailedRow, Terminalized, Unleased, HeldBy, Row
  <2>4. r.status = "failed" /\ r.owner = NoOwner /\ r.attempts = row[m].attempts
        /\ r.before = row[m].before /\ r.body = b
    BY <1>0 DEF Terminalized, Unleased, HeldBy, Row
  <2> QED
    BY <1>1, <2>2, <2>3, <2>4
<1>2. CASE ~Terminal(m, f)
  <2>1. PICK d \in 0 .. Backoff(row[m].attempts) :
           row' = [row EXCEPT ![m] = [Unleased(row[m]) EXCEPT !.avail = d]]
    BY <1>2 DEF FailedRow
  <2> DEFINE r == [Unleased(row[m]) EXCEPT !.avail = d]
  <2>2. d \in Nat
    OBVIOUS
  <2>3. r \in Row
    BY <1>0, <2>2, RowUpdates
  <2>4. r.status = row[m].status /\ r.owner = NoOwner /\ r.attempts = row[m].attempts
        /\ r.before = row[m].before /\ r.body = row[m].body
    BY <1>0 DEF Unleased, HeldBy, Row
  <2> QED
    BY <1>2, <2>1, <2>3, <2>4
<1> QED
  BY <1>1, <1>2

(* What replacing one task does.                                            *)
LEMMA PutEffect ==
  ASSUME task \in [Workers -> [Messages -> Task]],
         NEW w \in Workers, NEW m \in Messages, NEW t \in Task, Put(w, m, t)
  PROVE  /\ task' \in [Workers -> [Messages -> Task]]
         /\ task'[w][m] = t
         /\ \A v \in Workers, s \in Messages :
              v # w \/ s # m => task'[v][s] = task[v][s]
  BY DEF Put

(* The tasks that steps put are tasks.                                      *)
LEMMA TaskUpdates ==
  ASSUME NEW t \in Task
  PROVE  /\ \A pc \in PCs : /\ At(t, pc) \in Task
                             /\ At(t, pc).pc = pc
                             /\ At(t, pc).reply = t.reply
         /\ \A pc \in PCs, b \in Bodies \cup {NoBody} : Fresh(pc, b) \in Task
         /\ \A f \in Faults : [pc |-> "fail", reply |-> NoBody, fault |-> f] \in Task
         /\ IdleTask \in Task
<1>1. NoFault \in Faults /\ "fail" \in PCs
  BY DEF NoFault, Faults, PCs
<1>2. ASSUME NEW pc \in PCs
      PROVE  At(t, pc) \in Task /\ At(t, pc).pc = pc /\ At(t, pc).reply = t.reply
  BY DEF At, Task
<1> QED
  BY <1>1, <1>2, RecordTypes DEF Fresh, Task

(* What a fresh task is made of.                                            *)
LEMMA FreshFields ==
  ASSUME NEW pc, NEW b
  PROVE  Fresh(pc, b).pc = pc /\ Fresh(pc, b).reply = b
  BY DEF Fresh

(* A worker's steps keep its tasks typed.                                   *)
LEMMA TaskTyped ==
  ASSUME task \in [Workers -> [Messages -> Task]],
         NEW w \in Workers, NEW m \in Messages,
         \/ \E pc \in PCs : Goto(w, m, pc)
         \/ \E pc \in PCs, b \in Bodies \cup {NoBody} : Hand(w, m, pc, b)
         \/ \E f \in Faults : Fail(w, m, f)
         \/ Leave(w, m)
  PROVE  task' \in [Workers -> [Messages -> Task]]
<1>1. \E t \in Task : Put(w, m, t)
  <2>1. task[w][m] \in Task /\ "fail" \in PCs /\ NoBody \in Bodies \cup {NoBody}
    BY DEF PCs
  <2>2. CASE \E pc \in PCs : Goto(w, m, pc)
    BY <2>1, <2>2, TaskUpdates DEF Goto
  <2>3. CASE \E pc \in PCs, b \in Bodies \cup {NoBody} : Hand(w, m, pc, b)
    BY <2>1, <2>3, TaskUpdates DEF Hand
  <2>4. CASE \E f \in Faults : Fail(w, m, f)
    BY <2>1, <2>4, TaskUpdates DEF Fail
  <2>5. CASE Leave(w, m)
    BY <2>1, <2>5, TaskUpdates DEF Leave
  <2> QED
    BY <2>2, <2>3, <2>4, <2>5
<1> QED
  BY <1>1, PutEffect

(* A delivery is counted under its body and nowhere else.                   *)
LEMMA SendsTyped ==
  ASSUME sends \in [Messages -> [Bodies -> Nat]], NEW m \in Messages,
         NEW b \in Bodies \cup {NoBody}, Deliver(m, b)
  PROVE  /\ sends' \in [Messages -> [Bodies -> Nat]]
         /\ \A s \in Messages, c \in Bodies :
              s # m \/ c # b => sends'[s][c] = sends[s][c]
<1>1. sends' = [sends EXCEPT ![m] = [sends[m] EXCEPT ![b] = sends[m][b] + 1]]
  BY DEF Deliver
<1>2. [sends[m] EXCEPT ![b] = sends[m][b] + 1] \in [Bodies -> Nat]
  <2> DEFINE g == sends[m]
  <2>1. g \in [Bodies -> Nat]
    OBVIOUS
  <2>2. CASE b \in Bodies
    <3>1. g[b] + 1 \in Nat
      BY <2>1, <2>2
    <3> QED
      BY <2>1, <3>1
  <2>3. CASE b \notin Bodies
    BY <2>1, <2>3
  <2> QED
    BY <2>2, <2>3
<1>3. \A s \in Messages : s # m => sends'[s] = sends[s]
  BY <1>1
<1>4. \A c \in Bodies : c # b => sends'[m][c] = sends[m][c]
  BY <1>1
<1> QED
  BY <1>1, <1>2, <1>3, <1>4

(* Every step of one worker on one message preserves the types.             *)
LEMMA StepTyped ==
  ASSUME TypeOK, NEW w \in Workers, NEW m \in Messages, Step(w, m)
  PROVE  TypeOK'
<1> USE DEF TypeOK
<1>f. task[w][m] \in Task /\ row[m] \in Row
  OBVIOUS
<1>g. task[w][m].fault \in Faults /\ task[w][m].reply \in Bodies \cup {NoBody}
  BY <1>f DEF Task
<1>1. CASE Load(w, m)
  BY <1>1, TaskTyped DEF Load, BindingFaults, UnboundFaults, PCs
<1>2. CASE RunTurn(w, m)
  BY <1>2, TaskTyped DEF RunTurn, TurnFaults, PCs, Bodies
<1>3. CASE PersistIntent(w, m)
  <2>1. task' \in [Workers -> [Messages -> Task]]
    BY <1>3, TaskTyped DEF PersistIntent, TurnFaults, PCs
  <2>2. [row[m] EXCEPT !.body = task[w][m].reply] \in Row
    BY <1>f, <1>g, RowUpdates
  <2>3. row' \in [Messages -> Row]
    BY <1>3, <2>2 DEF PersistIntent, PersistedRow
  <2> QED
    BY <1>3, <2>1, <2>3 DEF PersistIntent
<1>4. CASE Send(w, m)
  <2>1. task' \in [Workers -> [Messages -> Task]]
    BY <1>4, TaskTyped DEF Send, BindingFaults, PCs
  <2>2. sends' \in [Messages -> [Bodies -> Nat]]
    BY <1>4, <1>g, SendsTyped DEF Send
  <2> QED
    BY <1>4, <2>1, <2>2 DEF Send
<1>5. CASE Complete(w, m)
  <2>1. task' \in [Workers -> [Messages -> Task]]
    BY <1>5, TaskTyped, RecordTypes DEF Complete
  <2>2. [Unleased(row[m]) EXCEPT !.status = "completed"] \in Row
    BY <1>f, RowUpdates DEF Statuses
  <2>3. row' \in [Messages -> Row]
    BY <1>5, <2>2 DEF Complete, CompletedRow
  <2> QED
    BY <1>5, <2>1, <2>3 DEF Complete
<1>6. CASE RecordFailure(w, m)
  <2>1. row' \in [Messages -> Row]
    BY <1>6, <1>g, FailedRowEffect DEF RecordFailure
  <2>2. task' \in [Workers -> [Messages -> Task]]
    BY <1>6, TaskTyped DEF RecordFailure, PCs, Bodies
  <2> QED
    BY <1>6, <2>1, <2>2 DEF RecordFailure
<1>7. CASE Notify(w, m)
  <2>1. task' \in [Workers -> [Messages -> Task]]
    <3>1. Goto(w, m, "fallback") \/ Leave(w, m)
      BY <1>7 DEF Notify
    <3>2. "fallback" \in PCs
      BY DEF PCs
    <3> QED
      BY <3>1, <3>2, TaskTyped
  <2>2. UNCHANGED <<row, sends, notice>> /\ alerts' \in [Messages -> Nat]
    BY <1>7 DEF Notify
  <2> QED
    BY <2>1, <2>2
<1>8. CASE SendFallback(w, m)
  <2>1. task' \in [Workers -> [Messages -> Task]]
    BY <1>8, TaskTyped DEF SendFallback, PCs
  <2>2. sends' \in [Messages -> [Bodies -> Nat]]
    BY <1>8, SendsTyped DEF SendFallback, Bodies
  <2> QED
    BY <1>8, <2>1, <2>2 DEF SendFallback
<1>9. CASE AuditFallback(w, m)
  <2>1. task' \in [Workers -> [Messages -> Task]]
    BY <1>9, TaskTyped DEF AuditFallback
  <2> QED
    BY <1>9, <2>1 DEF AuditFallback
<1> QED
  BY <1>1, <1>2, <1>3, <1>4, <1>5, <1>6, <1>7, <1>8, <1>9 DEF Step

(* Every step preserves the types.                                          *)
LEMMA NextTyped ==
  ASSUME TypeOK, [Next]_vars
  PROVE  TypeOK'
<1> USE DEF TypeOK
<1>0. \A m \in Messages : row[m] \in Row
  OBVIOUS
<1>1. ASSUME NEW m \in Messages, BeginAccept(m) PROVE TypeOK'
  <2> DEFINE r == [row[m] EXCEPT !.status = "inserting",
                     !.before = {s \in Messages : row[s].status # "absent"}]
  <2>1. {s \in Messages : row[s].status # "absent"} \in SUBSET Messages
        /\ "inserting" \in Statuses
    BY DEF Statuses
  <2>a. r \in Row
    BY <1>0, <2>1, BeforeUpdate
  <2>2. row' = [row EXCEPT ![m] = r] /\ UNCHANGED <<task, sends, alerts, notice>>
    BY <1>1 DEF BeginAccept
  <2> QED
    BY <2>a, <2>2
<1>2. ASSUME NEW m \in Messages, CommitAccept(m) PROVE TypeOK'
  <2>1. [row[m] EXCEPT !.status = "open"] \in Row
    BY <1>0, RowUpdates DEF Statuses
  <2> QED
    BY <1>2, <2>1 DEF CommitAccept
<1>3. ASSUME NEW m \in Messages, AbortAccept(m) PROVE TypeOK'
  <2>1. \A s \in Messages : row[s].before \ {m} \in SUBSET Messages
    BY <1>0 DEF Row
  <2>a. \A s \in Messages : [row[s] EXCEPT !.before = @ \ {m}] \in Row
    BY <1>0, <2>1, RowUpdates
  <2> QED
    BY <1>3, <2>a, RecordTypes DEF AbortAccept
<1>4. ASSUME NEW w \in Workers, NEW batch \in Batches,
             Claim(w, batch) \/ ClaimUnacknowledged(w, batch)
      PROVE TypeOK'
  <2>1. row' \in [Messages -> Row]
    BY <1>4, ClaimRowsTyped DEF Claim, ClaimUnacknowledged
  <2>2. \A m \in Messages :
          /\ Fresh("dead", NoBody) \in Task
          /\ Fresh("load", PersistedReply(m)) \in Task
    BY <1>0, RecordTypes, TaskUpdates DEF PersistedReply, Row, PCs
  <2>3. task' \in [Workers -> [Messages -> Task]]
    <3> DEFINE T(m) == IF m \notin batch THEN IdleTask
                ELSE IF Exhausted(m) THEN Fresh("dead", NoBody)
                ELSE Fresh("load", PersistedReply(m))
    <3>1. \A m \in Messages : T(m) \in Task
      BY <2>2, RecordTypes
    <3>2. task' = [task EXCEPT ![w] = [m \in Messages |-> T(m)]] \/ task' = task
      BY <1>4 DEF Claim, ClaimUnacknowledged
    <3> HIDE DEF T
    <3> QED
      BY <3>1, <3>2
  <2> QED
    BY <1>4, <2>1, <2>3 DEF Claim, ClaimUnacknowledged
<1>5. ASSUME NEW w \in Workers, NEW m \in Messages, Step(w, m) PROVE TypeOK'
  BY <1>5, StepTyped
<1>6. ASSUME NEW w \in Workers, Crash(w) PROVE TypeOK'
  BY <1>6, RecordTypes DEF Crash
<1>7. CASE Tick
  BY <1>0, <1>7, RowUpdates DEF Tick
<1>8. CASE UNCHANGED vars
  BY <1>8 DEF vars
<1> QED
  BY <1>1, <1>2, <1>3, <1>4, <1>5, <1>6, <1>7, <1>8 DEF Next

(* Every reachable state of the outbox and its workers is well typed.       *)
THEOREM TypeCorrect == Spec => []TypeOK
<1>1. Init => TypeOK
  BY RecordTypes DEF Init, TypeOK
<1>2. TypeOK /\ [Next]_vars => TypeOK'
  BY NextTyped
<1> QED
  BY <1>1, <1>2, PTL DEF Spec

-----------------------------------------------------------------------------
(* How the rows of a message may change in one step.                        *)

(* A body once committed stays, a settled row stays, and RowsOK holds       *)
(* afterwards: what a row that went from r to q must satisfy.               *)
RowStep(r, q) ==
  /\ r.body # NoBody => q.body = r.body
  /\ r.status \in Settled => /\ q.status = r.status
                             /\ q.owner = NoOwner
                             /\ q.attempts = r.attempts
                             /\ q.body = r.body
  /\ q.status # "open" => q.owner = NoOwner
  /\ q.status \in {"absent", "inserting"} => q.body = NoBody
  /\ q.body = Fallback => q.status = "failed"

RowGood(r) == RowStep(r, r)

(* RowsOK, row by row.                                                      *)
LEMMA RowsAreGood ==
  ASSUME TypeOK, RowsOK
  PROVE  \A m \in Messages : row[m] \in Row /\ RowGood(row[m])
  BY DEF TypeOK, RowsOK, RowGood, RowStep, Settled

(* An update that leaves the status, owner, attempts and body of a row.     *)
LEMMA SameRowStep ==
  ASSUME NEW r, NEW q, RowGood(r), q.status = r.status, q.owner = r.owner,
         q.attempts = r.attempts, q.body = r.body
  PROVE  RowStep(r, q)
  BY DEF RowGood, RowStep

(* A claim changes each row by a RowStep.                                   *)
LEMMA ClaimRowStep ==
  ASSUME NEW r \in Row, RowGood(r), r.status = "open", NEW w \in Workers
  PROVE  RowStep(r, Terminalized(r)) /\ RowStep(r, Leased(w, r))
<1> USE DEF Row, RowGood, RowStep, Settled
<1>1. /\ Terminalized(r).status = "failed" /\ Terminalized(r).owner = NoOwner
      /\ Terminalized(r).body = r.body
  BY DEF Terminalized, Unleased, HeldBy
<1>2. Leased(w, r).status = "open" /\ Leased(w, r).body = r.body
  BY DEF Leased, HeldBy
<1> QED
  BY <1>1, <1>2

(* A recorded failure changes its row by a RowStep.                         *)
LEMMA FailedRowStep ==
  ASSUME TypeOK, RowsOK, NEW m \in Messages, NEW f \in Faults, Open(m), FailedRow(m, f)
  PROVE  \A s \in Messages : RowStep(row[s], row'[s])
<1>1. PICK r \in Row :
           /\ row' = [row EXCEPT ![m] = r]
           /\ r.status = IF Terminal(m, f) THEN "failed" ELSE row[m].status
           /\ r.owner = NoOwner
           /\ r.body = IF Terminal(m, f) /\ FallbackDue(m, f) THEN Fallback
                       ELSE row[m].body
  BY FailedRowEffect DEF TypeOK
<1>2. RowStep(row[m], r)
  BY <1>1, RowsAreGood DEF RowStep, RowGood, Open, Settled, FallbackDue
<1> QED
  BY <1>1, <1>2, RowsAreGood DEF RowGood, TypeOK

(* A worker's step changes each row by a RowStep.                           *)
LEMMA StepRowStep ==
  ASSUME TypeOK, RowsOK, TasksOK, NEW w \in Workers, NEW m \in Messages, Step(w, m)
  PROVE  \A s \in Messages : RowStep(row[s], row'[s])
<1>0. /\ \A s \in Messages : row[s] \in Row /\ RowStep(row[s], row[s])
      /\ row \in [Messages -> Row] /\ task[w][m] \in Task
  BY RowsAreGood DEF RowGood, TypeOK
<1>1. CASE UNCHANGED row
  BY <1>0, <1>1
<1>2. CASE PersistedRow(w, m) /\ task[w][m].pc = "persist"
  <2> DEFINE q == [row[m] EXCEPT !.body = task[w][m].reply]
  <2>1. /\ row' = [row EXCEPT ![m] = q] /\ row[m].status = "open"
        /\ row[m].body \in {NoBody, task[w][m].reply} /\ task[w][m].reply \in Replies
    BY <1>2 DEF PersistedRow, LiveLease, Open, TasksOK
  <2>2. q.status = row[m].status /\ q.owner = row[m].owner
        /\ q.attempts = row[m].attempts /\ q.body = task[w][m].reply
    BY <1>0 DEF Row
  <2>3. RowStep(row[m], q)
    BY <1>0, <2>1, <2>2, BodyAssumption DEF RowStep, Settled
  <2> QED
    BY <1>0, <2>1, <2>3
<1>3. CASE LiveLease(w, m) /\ CompletedRow(m)
  <2> DEFINE q == [Unleased(row[m]) EXCEPT !.status = "completed"]
  <2>1. row' = [row EXCEPT ![m] = q] /\ row[m].status = "open"
    BY <1>3 DEF LiveLease, Open, CompletedRow
  <2>2. q.status = "completed" /\ q.owner = NoOwner /\ q.body = row[m].body
    BY <1>0 DEF Row, Unleased, HeldBy
  <2>3. RowStep(row[m], q)
    BY <1>0, <2>1, <2>2 DEF RowStep, Settled
  <2> QED
    BY <1>0, <2>1, <2>3
<1>4. CASE LiveLease(w, m) /\ FailedRow(m, task[w][m].fault)
  BY <1>0, <1>4, FailedRowStep DEF LiveLease, Task
<1> QED
  BY <1>1, <1>2, <1>3, <1>4 DEF Step, Load, RunTurn, PersistIntent, Send, Complete,
       RecordFailure, Notify, SendFallback, AuditFallback

(* Every step of the system changes each row by a RowStep.                  *)
LEMMA NextRowStep ==
  ASSUME TypeOK, RowsOK, TasksOK, [Next]_vars
  PROVE  \A s \in Messages : RowStep(row[s], row'[s])
<1>0. /\ \A s \in Messages : row[s] \in Row /\ RowGood(row[s]) /\ RowStep(row[s], row[s])
      /\ row \in [Messages -> Row]
  BY RowsAreGood DEF RowGood, TypeOK
<1>1. ASSUME NEW m \in Messages, BeginAccept(m) \/ CommitAccept(m) \/ AbortAccept(m),
             NEW s \in Messages
      PROVE RowStep(row[s], row'[s])
  <2>1. CASE BeginAccept(m)
    BY <1>0, <2>1 DEF BeginAccept, RowStep, RowGood, Row, Settled
  <2>2. CASE CommitAccept(m)
    BY <1>0, <2>2, BodyAssumption DEF CommitAccept, RowStep, RowGood, Row, Settled, Bodies
  <2>3. CASE AbortAccept(m)
    <3>1. CASE s = m
      <4>1. row'[m] = NewRow /\ row[m].status = "inserting" /\ row[m].body = NoBody
        BY <1>0, <2>3, RowsAreGood DEF AbortAccept, RowGood, RowStep
      <4> QED
        BY <3>1, <4>1, BodyAssumption DEF RowStep, NewRow, Settled, Bodies
    <3>2. CASE s # m
      <4> DEFINE q == [row[s] EXCEPT !.before = @ \ {m}]
      <4>1. row'[s] = q
        BY <2>3, <3>2 DEF AbortAccept
      <4>2. q.status = row[s].status /\ q.owner = row[s].owner
            /\ q.attempts = row[s].attempts /\ q.body = row[s].body
        BY <1>0 DEF Row
      <4> HIDE DEF q
      <4> QED
        BY <1>0, <4>1, <4>2, SameRowStep
    <3> QED
      BY <3>1, <3>2
  <2> QED
    BY <1>1, <2>1, <2>2, <2>3
<1>2. ASSUME NEW w \in Workers, NEW batch \in Batches, ClaimRows(w, batch),
             NEW s \in Messages
      PROVE RowStep(row[s], row'[s])
  <2>1. s \in batch => row[s].status = "open"
    BY DEF Batches, Claimable, Open
  <2>2. row'[s] \in {row[s], Terminalized(row[s]), Leased(w, row[s])}
        /\ (s \notin batch => row'[s] = row[s])
    BY <1>2 DEF ClaimRows
  <2> QED
    BY <1>0, <2>1, <2>2, ClaimRowStep
<1>3. ASSUME NEW w \in Workers, NEW m \in Messages, Step(w, m), NEW s \in Messages
      PROVE RowStep(row[s], row'[s])
  BY <1>3, StepRowStep
<1>4. ASSUME Tick, NEW s \in Messages PROVE RowStep(row[s], row'[s])
  <2>1. row'[s] = Aged(row[s])
    BY <1>4 DEF Tick
  <2>2. Aged(row[s]).status = row[s].status /\ Aged(row[s]).owner = row[s].owner
        /\ Aged(row[s]).attempts = row[s].attempts /\ Aged(row[s]).body = row[s].body
    BY <1>0 DEF Row, Aged
  <2> QED
    BY <1>0, <2>1, <2>2, SameRowStep
<1>5. CASE UNCHANGED row
  BY <1>0, <1>5
<1> QED
  BY <1>1, <1>2, <1>3, <1>4, <1>5 DEF Next, vars, Claim, ClaimUnacknowledged, Crash

-----------------------------------------------------------------------------
(* What the workers hold stays in agreement with the rows.                  *)

(* RowsOK is preserved.                                                     *)
LEMMA RowsOKStep ==
  ASSUME TypeOK, RowsOK, TasksOK, [Next]_vars
  PROVE  RowsOK'
  BY NextRowStep DEF RowStep, RowsOK

(* One task of TasksOK.                                                     *)
TaskGood(w, m) ==
  /\ task[w][m].pc = "load" => task[w][m].reply \in {NoBody, row[m].body} \ {Fallback}
  /\ task[w][m].pc = "persist" => task[w][m].reply \in Replies
  /\ task[w][m].pc = "send" => /\ task[w][m].reply \in Replies
                               /\ task[w][m].reply = row[m].body
  /\ Noticing(w, m) => /\ row[m].body = Fallback
                       /\ sends[m][Fallback] = 0
                       /\ \A v \in Workers : Noticing(v, m) => v = w

(* TasksOK, task by task.                                                   *)
LEMMA TasksAreGood == TasksOK <=> \A w \in Workers, m \in Messages : TaskGood(w, m)
  BY DEF TasksOK, TaskGood

(* A task that does not change stays good as long as the row's body, once   *)
(* set, is kept, no notice of the message is sent and nobody else starts    *)
(* noticing it.                                                             *)
LEMMA SameTaskGood ==
  ASSUME NEW w \in Workers, NEW m \in Messages, TypeOK, TaskGood(w, m),
         task'[w][m] = task[w][m],
         row[m].body # NoBody => row'[m].body = row[m].body,
         Noticing(w, m) => sends'[m][Fallback] = sends[m][Fallback],
         Noticing(w, m) => \A v \in Workers : Noticing(v, m)' => Noticing(v, m)
  PROVE  TaskGood(w, m)'
  BY BodyAssumption DEF TaskGood, Noticing, Bodies

(* A task that is idle, running, completing, failing or auditing.           *)
LEMMA PlainTaskGood ==
  ASSUME NEW w \in Workers, NEW m \in Messages,
         \/ task'[w][m].pc \in {"idle", "turn", "complete", "fail",
                               "audit_sent", "audit_lost"}
         \/ task'[w][m].pc \in {"dead", "alert"} /\ task'[w][m].reply = NoBody
         \/ task'[w][m].pc = "persist" /\ task'[w][m].reply \in Replies
  PROVE  TaskGood(w, m)' /\ ~Noticing(w, m)'
  BY BodyAssumption DEF TaskGood, Noticing, Bodies

(* When the stepping task ends up neither noticing nor delivering the       *)
(* notice, all the others stay good.                                        *)
LEMMA OtherTasksGood ==
  ASSUME TypeOK, RowsOK, TasksOK, [Next]_vars,
         NEW w \in Workers, NEW m \in Messages,
         NEW t \in Task, Put(w, m, t),
         Noticing(w, m)' => Noticing(w, m) \/ row[m].body = NoBody,
         \A s \in Messages : sends'[s][Fallback] = sends[s][Fallback]
                             \/ (s = m /\ Noticing(w, m)),
         NEW v \in Workers, NEW s \in Messages, v # w \/ s # m
  PROVE  TaskGood(v, s)'
<1>1. /\ TaskGood(v, s)
      /\ row[s].body # NoBody => row'[s].body = row[s].body
  BY NextRowStep, TasksAreGood DEF RowStep
<1>2. /\ task'[v][s] = task[v][s]
      /\ \A u \in Workers, n \in Messages :
           u # w \/ n # m => (Noticing(u, n)' <=> Noticing(u, n))
  BY PutEffect DEF TypeOK, Noticing
<1>3. ASSUME Noticing(v, s)
      PROVE  /\ sends'[s][Fallback] = sends[s][Fallback]
             /\ \A u \in Workers : Noticing(u, s)' => Noticing(u, s)
  <2>1. row[s].body # NoBody /\ \A u \in Workers : Noticing(u, s) => u = v
    BY <1>1, <1>3, BodyAssumption DEF TaskGood, Bodies
  <2>2. ~(s = m /\ Noticing(w, m))
    BY <2>1
  <2> QED
    BY <1>2, <2>1, <2>2
<1> QED
  BY <1>1, <1>2, <1>3, SameTaskGood

(* What a step on a message does to its task and to the sends.              *)
StepEffect(w, m) ==
  /\ \E t \in Task : Put(w, m, t)
  /\ TaskGood(w, m)'
  /\ Noticing(w, m)' => Noticing(w, m) \/ row[m].body = NoBody
  /\ \A s \in Messages : sends'[s][Fallback] = sends[s][Fallback]
                         \/ (s = m /\ Noticing(w, m))

(* A step to a plain task that sends nothing.                               *)
LEMMA PlainEffect ==
  ASSUME TypeOK, NEW w \in Workers, NEW m \in Messages, UNCHANGED sends,
         NEW t \in Task, Put(w, m, t),
         \/ t.pc \in {"idle", "turn", "complete", "fail", "audit_sent", "audit_lost"}
         \/ t.pc = "persist" /\ t.reply \in Replies
  PROVE  StepEffect(w, m)
<1>1. task'[w][m] = t
  BY PutEffect DEF TypeOK
<1> QED
  BY <1>1, PlainTaskGood DEF StepEffect

(* Each step of a worker puts a task that agrees with the row it leaves.    *)
LEMMA StepEffects ==
  ASSUME TypeOK, RowsOK, TasksOK, OneAnswerPerMessage,
         NEW w \in Workers, NEW m \in Messages, Step(w, m)
  PROVE  StepEffect(w, m)
<1> DEFINE t0 == task[w][m]
<1>0. /\ t0 \in Task /\ row[m] \in Row /\ t0.fault \in Faults
      /\ TaskGood(w, m) /\ task \in [Workers -> [Messages -> Task]]
      /\ sends \in [Messages -> [Bodies -> Nat]]
  BY TasksAreGood DEF TypeOK, Task
<1>f. ASSUME NEW f \in Faults, Fail(w, m, f), UNCHANGED sends PROVE StepEffect(w, m)
  BY <1>0, <1>f, TaskUpdates, PlainEffect DEF Fail
<1>l. ASSUME Leave(w, m), UNCHANGED sends PROVE StepEffect(w, m)
  BY <1>0, <1>l, TaskUpdates, FreshFields, PlainEffect DEF Leave, IdleTask
<1>c. ASSUME NEW pc \in {"turn", "complete", "audit_sent", "audit_lost"},
             Goto(w, m, pc), UNCHANGED sends
      PROVE StepEffect(w, m)
  <2>1. At(t0, pc) \in Task /\ At(t0, pc).pc = pc
    BY <1>0, TaskUpdates DEF PCs
  <2> QED
    BY <1>c, <2>1, PlainEffect DEF Goto
<1>s. ASSUME UNCHANGED sends \/ Deliver(m, t0.reply), t0.pc = "send"
      PROVE \A s \in Messages : sends'[s][Fallback] = sends[s][Fallback]
  <2>1. t0.reply \in Replies /\ t0.reply # Fallback
    BY <1>0, <1>s, BodyAssumption DEF TaskGood
  <2>2. t0.reply \in Bodies \cup {NoBody} /\ Fallback \in Bodies
    BY <2>1 DEF Bodies
  <2>3. CASE Deliver(m, t0.reply)
    BY <1>0, <2>1, <2>2, <2>3, SendsTyped
  <2> QED
    BY <1>s, <2>3
<1>1. CASE Load(w, m)
  <2>1. CASE Goto(w, m, "send") /\ t0.reply # NoBody
    <3>1. t0.reply \in Replies /\ t0.reply = row[m].body
      BY <1>0, <1>1, <2>1 DEF Load, TaskGood, Task, Bodies
    <3>2. UNCHANGED <<row, sends>>
      BY <1>1 DEF Load
    <3> DEFINE t == At(t0, "send")
    <3>3. t \in Task /\ t.pc = "send" /\ t.reply = t0.reply
      BY <1>0, TaskUpdates DEF PCs
    <3>4. Put(w, m, t) /\ task'[w][m] = t
      BY <1>0, <2>1, <3>3, PutEffect DEF Goto
    <3>5. TaskGood(w, m)' /\ ~Noticing(w, m)'
      BY <3>1, <3>2, <3>3, <3>4 DEF TaskGood, Noticing
    <3> QED
      BY <3>2, <3>3, <3>4, <3>5 DEF StepEffect
  <2> QED
    BY <1>1, <2>1, <1>f, <1>c DEF Load, BindingFaults, UnboundFaults
<1>2. CASE RunTurn(w, m)
  <2>1. ASSUME NEW r \in Replies, Hand(w, m, "persist", r) PROVE StepEffect(w, m)
    <3> DEFINE t == Fresh("persist", r)
    <3>1. "persist" \in PCs /\ r \in Bodies \cup {NoBody}
      BY DEF PCs, Bodies
    <3>2. t \in Task /\ t.pc = "persist" /\ t.reply = r
      BY <1>0, <3>1, TaskUpdates, FreshFields
    <3> QED
      BY <1>2, <2>1, <3>2, PlainEffect DEF Hand, RunTurn
  <2> QED
    BY <1>2, <2>1, <1>f, <1>c DEF RunTurn, TurnFaults
<1>3. CASE PersistIntent(w, m)
  <2>1. CASE PersistedRow(w, m) /\ Goto(w, m, "send")
    <3> DEFINE t == At(t0, "send")
    <3>1. t0.reply \in Replies /\ UNCHANGED sends
      BY <1>0, <1>3 DEF PersistIntent, TaskGood
    <3>2. row'[m].body = t0.reply
      BY <1>0, <2>1 DEF PersistedRow, Row, TypeOK
    <3>3. t \in Task /\ t.pc = "send" /\ t.reply = t0.reply
      BY <1>0, TaskUpdates DEF PCs
    <3>4. Put(w, m, t) /\ task'[w][m] = t
      BY <1>0, <2>1, <3>3, PutEffect DEF Goto
    <3>5. TaskGood(w, m)' /\ ~Noticing(w, m)'
      BY <3>1, <3>2, <3>3, <3>4 DEF TaskGood, Noticing
    <3> QED
      BY <3>1, <3>3, <3>4, <3>5 DEF StepEffect
  <2> QED
    BY <1>3, <2>1, <1>f, <1>l DEF PersistIntent, TurnFaults
<1>4. CASE Send(w, m)
  <2>1. \A s \in Messages : sends'[s][Fallback] = sends[s][Fallback]
    <3>1. UNCHANGED sends \/ Deliver(m, t0.reply)
      BY <1>4 DEF Send
    <3> QED
      BY <1>4, <1>s, <3>1 DEF Send
  <2>2. PICK t \in Task : Put(w, m, t) /\ t.pc \in {"complete", "fail"}
    <3>1. CASE Goto(w, m, "complete")
      <4>1. "complete" \in PCs
        BY DEF PCs
      <4>2. At(t0, "complete") \in Task /\ At(t0, "complete").pc = "complete"
        BY <1>0, <4>1, TaskUpdates
      <4> QED
        BY <3>1, <4>2 DEF Goto
    <3>2. CASE \E f \in Faults : Fail(w, m, f)
      BY <1>0, <3>2, TaskUpdates DEF Fail
    <3> QED
      BY <1>4, <3>1, <3>2 DEF Send, BindingFaults
  <2>3. task'[w][m] = t
    BY <1>0, <2>2, PutEffect
  <2> QED
    BY <2>1, <2>2, <2>3, PlainTaskGood DEF StepEffect
<1>5. CASE Complete(w, m)
  BY <1>5, <1>f, <1>l, RecordTypes DEF Complete
<1>6. CASE RecordFailure(w, m)
  <2> DEFINE f == t0.fault
             b == IF FallbackDue(m, f) THEN Fallback ELSE NoBody
             t == Fresh("alert", b)
  <2>1. CASE FailedRow(m, f) /\ Terminal(m, f) /\ Hand(w, m, "alert", b)
    <3>0. "alert" \in PCs /\ b \in Bodies \cup {NoBody}
      BY DEF PCs, Bodies
    <3>1. t \in Task /\ t.pc = "alert" /\ t.reply = b
      BY <1>0, <3>0, TaskUpdates, FreshFields
    <3>2. Put(w, m, t) /\ task'[w][m] = t /\ UNCHANGED sends
      BY <1>0, <1>6, <2>1, <3>1, PutEffect DEF Hand, RecordFailure
    <3>3. CASE FallbackDue(m, f)
      <4>1. row[m].body = NoBody
        BY <3>3 DEF FallbackDue
      <4>2. row'[m].body = Fallback
        BY <1>0, <2>1, <3>3, FailedRowEffect DEF TypeOK
      <4>3. sends[m][Fallback] = 0
        BY <1>0, <4>1, BodyAssumption DEF OneAnswerPerMessage, Bodies
      <4>4. \A v \in Workers : Noticing(v, m)' => v = w
        <5>1. \A v \in Workers : ~Noticing(v, m)
          BY <4>1, TasksAreGood, BodyAssumption DEF TaskGood, Bodies
        <5> QED
          BY <1>0, <3>1, <3>2, <5>1, PutEffect DEF Noticing
      <4>5. TaskGood(w, m)'
        BY <3>1, <3>2, <4>2, <4>3, <4>4 DEF TaskGood
      <4> HIDE DEF t
      <4> QED
        BY <3>1, <3>2, <4>1, <4>5 DEF StepEffect
    <3>4. CASE ~FallbackDue(m, f)
      <4>1. TaskGood(w, m)' /\ ~Noticing(w, m)'
        BY <3>1, <3>2, <3>4, PlainTaskGood
      <4> HIDE DEF t
      <4> QED
        BY <3>1, <3>2, <4>1 DEF StepEffect
    <3> QED
      BY <3>3, <3>4
  <2> QED
    BY <1>6, <2>1, <1>l DEF RecordFailure
<1>7. CASE Notify(w, m)
  <2>1. CASE t0.reply = Fallback /\ Goto(w, m, "fallback")
    <3> DEFINE t == At(t0, "fallback")
    <3>1. UNCHANGED <<row, sends>> /\ Noticing(w, m)
      BY <1>7, <2>1 DEF Notify, Noticing
    <3>2. t \in Task
      BY <1>0, TaskUpdates DEF PCs
    <3>3. Put(w, m, t)
      BY <2>1 DEF Goto
    <3>4. \A v \in Workers : Noticing(v, m)' => v = w
      <4>1. \A v \in Workers : v # w => (Noticing(v, m)' <=> Noticing(v, m))
        BY <1>0, <3>2, <3>3, PutEffect DEF Noticing
      <4> QED
        BY <1>0, <3>1, <4>1 DEF TaskGood
    <3>5. task'[w][m] = t /\ t.pc = "fallback"
      BY <1>0, <3>2, <3>3, PutEffect, TaskUpdates DEF PCs
    <3>6. TaskGood(w, m)'
      BY <1>0, <3>1, <3>4, <3>5 DEF TaskGood
    <3> QED
      BY <3>1, <3>2, <3>3, <3>6 DEF StepEffect
  <2> QED
    BY <1>7, <2>1, <1>l DEF Notify
<1>8. CASE SendFallback(w, m)
  <2>1. Noticing(w, m)
    BY <1>8 DEF SendFallback, Noticing
  <2>2. \A s \in Messages : s # m => sends'[s][Fallback] = sends[s][Fallback]
    <3>1. Deliver(m, Fallback) \/ UNCHANGED sends
      BY <1>8 DEF SendFallback
    <3>2. Fallback \in Bodies /\ sends \in [Messages -> [Bodies -> Nat]]
      BY <1>0 DEF Bodies, TypeOK
    <3>3. CASE Deliver(m, Fallback)
      BY <3>2, <3>3, SendsTyped
    <3> QED
      BY <3>1, <3>3
  <2>3. PICK t \in Task : Put(w, m, t) /\ t.pc \in {"audit_sent", "audit_lost"}
    <3>1. PICK pc \in {"audit_sent", "audit_lost"} : Goto(w, m, pc)
      BY <1>8 DEF SendFallback
    <3>2. pc \in PCs
      BY DEF PCs
    <3> QED
      BY <1>0, <3>1, <3>2, TaskUpdates DEF Goto
  <2>4. task'[w][m] = t
    BY <1>0, <2>3, PutEffect
  <2> QED
    BY <2>1, <2>2, <2>3, <2>4, PlainTaskGood DEF StepEffect
<1>9. CASE AuditFallback(w, m)
  BY <1>9, <1>l DEF AuditFallback
<1> QED
  BY <1>1, <1>2, <1>3, <1>4, <1>5, <1>6, <1>7, <1>8, <1>9 DEF Step

(* Every step keeps TasksOK.                                                *)
LEMMA TasksOKStep ==
  ASSUME TypeOK, AnswerInv, [Next]_vars
  PROVE  TasksOK'
<1> SUFFICES ASSUME NEW v \in Workers, NEW s \in Messages PROVE TaskGood(v, s)'
  BY TasksAreGood DEF TasksOK, TaskGood
<1> USE DEF AnswerInv
<1>0. /\ TaskGood(v, s) /\ task \in [Workers -> [Messages -> Task]]
      /\ row[s] \in Row /\ RowStep(row[s], row'[s])
  BY TasksAreGood, NextRowStep DEF TypeOK
<1>1. ASSUME NEW w \in Workers, NEW m \in Messages, Step(w, m) PROVE TaskGood(v, s)'
  <2>1. StepEffect(w, m)
    BY <1>1, StepEffects
  <2>2. PICK t \in Task : Put(w, m, t)
    BY <2>1 DEF StepEffect
  <2> QED
    BY <2>1, <2>2, OtherTasksGood DEF StepEffect
<1>2. CASE UNCHANGED <<task, sends>>
  BY <1>0, <1>2, SameTaskGood DEF RowStep, Noticing
<1>3. ASSUME NEW w \in Workers, NEW batch \in Batches, Claim(w, batch)
      PROVE TaskGood(v, s)'
  <2>1. UNCHANGED sends /\ \A u \in Workers : u # w => task'[u] = task[u]
    BY <1>0, <1>3 DEF Claim
  <2>2. \A n \in Messages :
          task'[w][n] = IF n \notin batch THEN IdleTask
                ELSE IF Exhausted(n) THEN Fresh("dead", NoBody)
                ELSE Fresh("load", PersistedReply(n))
    BY <1>0, <1>3 DEF Claim
  <2>3. /\ IdleTask.pc = "idle"
        /\ \A pc, b : Fresh(pc, b).pc = pc /\ Fresh(pc, b).reply = b
    BY FreshFields DEF IdleTask
  <2>4. \A n \in Messages : ~Noticing(w, n)'
    BY <2>2, <2>3, BodyAssumption DEF Noticing, Bodies
  <2>5. CASE v = w
    <3>1. CASE s \in batch /\ ~Exhausted(s)
      <4>1. task'[v][s].pc = "load" /\ task'[v][s].reply = row[s].body
        BY <2>2, <2>3, <2>5, <3>1 DEF PersistedReply
      <4>2. row[s].status = "open"
        BY <3>1 DEF Batches, Claimable, Open
      <4>3. row[s].body # Fallback
        BY <4>2 DEF RowsOK
      <4> QED
        BY <1>0, <2>4, <2>5, <4>1, <4>3 DEF TaskGood, RowStep
    <3>2. CASE ~(s \in batch /\ ~Exhausted(s))
      BY <2>2, <2>3, <2>5, <3>2, PlainTaskGood
    <3> QED
      BY <3>1, <3>2
  <2>6. CASE v # w
    <3>1. \A u \in Workers : Noticing(u, s)' => Noticing(u, s)
      BY <2>1, <2>4 DEF Noticing
    <3> QED
      BY <1>0, <2>1, <2>6, <3>1, SameTaskGood DEF RowStep
  <2> QED
    BY <2>5, <2>6
<1>4. ASSUME NEW w \in Workers, Crash(w) PROVE TaskGood(v, s)'
  <2>1. /\ UNCHANGED sends /\ \A u \in Workers : u # w => task'[u] = task[u]
        /\ \A n \in Messages : task'[w][n] = IdleTask
    BY <1>0, <1>4 DEF Crash
  <2>2. IdleTask.pc = "idle"
    BY FreshFields DEF IdleTask
  <2>3. \A u \in Workers : Noticing(u, s)' => Noticing(u, s)
    BY <2>1, <2>2 DEF Noticing
  <2> QED
    BY <1>0, <2>1, <2>2, <2>3, PlainTaskGood, SameTaskGood DEF RowStep
<1> QED
  BY <1>1, <1>2, <1>3, <1>4 DEF Next, vars, BeginAccept, CommitAccept, AbortAccept,
       ClaimUnacknowledged, Tick

-----------------------------------------------------------------------------
(* What is sent is what the row holds.                                      *)

(* Each step leaves the sends alone or counts one more of a body that the   *)
(* row holds; the notice is counted from zero.                              *)
LEMMA SendsStep ==
  ASSUME TypeOK, AnswerInv, [Next]_vars
  PROVE  \/ UNCHANGED sends
         \/ \E m \in Messages, b \in Bodies :
              /\ Deliver(m, b) /\ row[m].body = b /\ UNCHANGED row
              /\ b = Fallback => row[m].status = "failed" /\ sends[m][Fallback] = 0
<1> USE DEF AnswerInv
<1>1. ASSUME NEW w \in Workers, NEW m \in Messages, Send(w, m), ~UNCHANGED sends
      PROVE \E b \in Bodies :
              /\ Deliver(m, b) /\ row[m].body = b /\ UNCHANGED row /\ b # Fallback
  <2>1. /\ task[w][m].reply \in Replies /\ task[w][m].reply = row[m].body
        /\ UNCHANGED row /\ Deliver(m, task[w][m].reply)
    BY <1>1, TasksAreGood DEF Send, TaskGood
  <2> QED
    BY <2>1, BodyAssumption DEF Bodies
<1>2. ASSUME NEW w \in Workers, NEW m \in Messages, SendFallback(w, m), ~UNCHANGED sends
      PROVE /\ Deliver(m, Fallback) /\ row[m].body = Fallback /\ UNCHANGED row
            /\ row[m].status = "failed" /\ sends[m][Fallback] = 0
  <2>1. Noticing(w, m) /\ Deliver(m, Fallback) /\ UNCHANGED row
    BY <1>2 DEF SendFallback, Noticing
  <2> QED
    BY <2>1, TasksAreGood DEF TaskGood, RowsOK
<1>3. Fallback \in Bodies
  BY DEF Bodies
<1>4. \/ UNCHANGED sends
      \/ \E w \in Workers, m \in Messages : Send(w, m) \/ SendFallback(w, m)
  BY ZenonT(60) DEF Next, vars, BeginAccept, CommitAccept, AbortAccept, Claim,
     ClaimUnacknowledged, Crash, Tick, Step, Load, RunTurn, PersistIntent, Complete,
     RecordFailure, Notify, AuditFallback
<1> QED
  BY <1>1, <1>2, <1>3, <1>4

(* Every step keeps the strengthened answer invariant.                      *)
LEMMA AnswerInvStep ==
  ASSUME TypeOK, AnswerInv, [Next]_vars
  PROVE  AnswerInv'
<1> USE DEF AnswerInv
<1>1. RowsOK' /\ TasksOK'
  BY RowsOKStep, TasksOKStep
<1>2. \A m \in Messages : row[m].body # NoBody => row'[m].body = row[m].body
  BY NextRowStep DEF RowStep
<1>3. sends \in [Messages -> [Bodies -> Nat]] /\ NoBody \notin Bodies
  BY BodyAssumption DEF TypeOK
<1>4. CASE UNCHANGED sends
  BY <1>1, <1>2, <1>3, <1>4 DEF OneAnswerPerMessage, FallbackOnce
<1>5. ASSUME NEW m \in Messages, NEW b \in Bodies, Deliver(m, b),
             row[m].body = b, UNCHANGED row, b = Fallback => sends[m][Fallback] = 0
      PROVE AnswerInv'
  <2>1. \A s \in Messages, c \in Bodies : s # m \/ c # b => sends'[s][c] = sends[s][c]
    BY <1>3, <1>5, SendsTyped
  <2>2. sends'[m][b] = sends[m][b] + 1
    BY <1>3, <1>5 DEF Deliver
  <2>3. OneAnswerPerMessage'
    BY <1>2, <1>3, <1>5, <2>1 DEF OneAnswerPerMessage
  <2>4. Fallback \in Bodies
    BY DEF Bodies
  <2>5. FallbackOnce'
    BY <1>3, <1>5, <2>1, <2>2, <2>4 DEF FallbackOnce
  <2> QED
    BY <1>1, <2>3, <2>5
<1> QED
  BY <1>4, <1>5, SendsStep

(* The strengthened answer invariant holds initially.                       *)
LEMMA AnswerInvInit == Init => AnswerInv
<1> SUFFICES ASSUME Init PROVE AnswerInv
  OBVIOUS
<1>1. NewRow.status = "absent" /\ NewRow.owner = NoOwner /\ NewRow.body = NoBody
  BY DEF NewRow
<1>2. IdleTask.pc = "idle"
  BY FreshFields DEF IdleTask
<1> QED
  BY <1>1, <1>2, BodyAssumption DEF Init, AnswerInv, RowsOK, TasksOK, Noticing,
     OneAnswerPerMessage, FallbackOnce, Bodies

(* The strengthened invariant holds in every reachable state.               *)
THEOREM AnswersInvariant == Spec => [](TypeOK /\ AnswerInv)
<1>1. Init => AnswerInv
  BY AnswerInvInit
<1>2. TypeOK /\ AnswerInv /\ [Next]_vars => AnswerInv'
  BY AnswerInvStep
<1> QED
  BY <1>1, <1>2, TypeCorrect, PTL DEF Spec

(* Whatever is sent for a message is the body committed on its row: a reply *)
(* is committed before it is sent and never replaced, by any worker.        *)
THEOREM AnswersAreCommitted == Spec => []OneAnswerPerMessage
<1>1. AnswerInv => OneAnswerPerMessage
  BY DEF AnswerInv
<1> QED
  BY <1>1, AnswersInvariant, PTL

(* The fallback notice of a message is sent at most once in all.            *)
THEOREM FallbackSentOnce == Spec => []FallbackOnce
<1>1. AnswerInv => FallbackOnce
  BY DEF AnswerInv
<1> QED
  BY <1>1, AnswersInvariant, PTL

(* A completed or failed row never changes again.                           *)
THEOREM SettledForGood == Spec => SettledIsFinal
<1>1. TypeOK /\ AnswerInv /\ [Next]_vars =>
        [\A m \in Messages : row[m].status \in Settled =>
           /\ row'[m].status = row[m].status
           /\ row'[m].owner = NoOwner
           /\ row'[m].attempts = row[m].attempts
           /\ row'[m].body = row[m].body]_vars
  BY NextRowStep DEF RowStep, AnswerInv
<1> QED
  BY <1>1, AnswersInvariant, PTL DEF Spec, SettledIsFinal

-----------------------------------------------------------------------------
(* One lease per conversation.                                              *)

(* Working on a message or letting time pass releases leases at most.       *)
Releases(r, q) == /\ q.before = r.before
                  /\ q.status = "absent" <=> r.status = "absent"
                  /\ q.owner \in {r.owner, NoOwner}

(* A worker's step gives no row a lease and reorders none.                  *)
LEMMA StepReleases ==
  ASSUME TypeOK, NEW w \in Workers, NEW m \in Messages, Step(w, m)
  PROVE  \A s \in Messages : Releases(row[s], row'[s])
<1>0. row \in [Messages -> Row] /\ row[m] \in Row /\ task[w][m].fault \in Faults
  BY DEF TypeOK, Task
<1>1. CASE UNCHANGED row
  BY <1>1 DEF Releases
<1>2. CASE PersistedRow(w, m)
  BY <1>0, <1>2 DEF PersistedRow, Releases, Row
<1>3. CASE LiveLease(w, m) /\ CompletedRow(m)
  <2> DEFINE q == [Unleased(row[m]) EXCEPT !.status = "completed"]
  <2>1. row' = [row EXCEPT ![m] = q] /\ row[m].status = "open"
    BY <1>3 DEF LiveLease, Open, CompletedRow
  <2>2. q.status = "completed" /\ q.owner = NoOwner /\ q.before = row[m].before
    BY <1>0 DEF Row, Unleased, HeldBy
  <2> QED
    BY <1>0, <2>1, <2>2 DEF Releases
<1>4. CASE LiveLease(w, m) /\ FailedRow(m, task[w][m].fault)
  BY <1>0, <1>4, FailedRowEffect DEF LiveLease, Open, Releases
<1> QED
  BY <1>1, <1>2, <1>3, <1>4 DEF Step, Load, RunTurn, PersistIntent, Send, Complete,
       RecordFailure, Notify, SendFallback, AuditFallback

(* Time gives no row a lease and reorders none.                             *)
LEMMA TickReleases ==
  ASSUME TypeOK, Tick
  PROVE  \A s \in Messages : Releases(row[s], row'[s])
<1> SUFFICES ASSUME NEW s \in Messages PROVE Releases(row[s], row'[s])
  OBVIOUS
<1>1. row[s] \in Row /\ row'[s] = Aged(row[s])
  BY DEF TypeOK, Tick
<1>2. Aged(row[s]).before = row[s].before /\ Aged(row[s]).status = row[s].status
      /\ Aged(row[s]).owner = row[s].owner
  BY <1>1 DEF Row, Aged
<1> QED
  BY <1>1, <1>2 DEF Releases

(* Releasing leases keeps the lease invariant.                              *)
LEMMA ReleasesKeep ==
  ASSUME LeaseInv, \A s \in Messages : Releases(row[s], row'[s])
  PROVE  LeaseInv'
<1>1. \A s \in Messages : /\ row'[s].before = row[s].before
                          /\ row'[s].status = "absent" <=> row[s].status = "absent"
                          /\ row'[s].owner # NoOwner => row[s].owner # NoOwner
  BY DEF Releases
<1> QED
  BY <1>1 DEF LeaseInv, RowsOrdered, OneLeasePerConversation, SameConv

(* A claim takes at most the oldest open row of a conversation, and the     *)
(* index refuses it while another row of the conversation is leased.        *)
LEMMA ClaimKeepsLeases ==
  ASSUME TypeOK, RowsOK, LeaseInv, NEW w \in Workers, NEW batch \in Batches,
         ~LeaseConflict(batch), ClaimRows(w, batch)
  PROVE  LeaseInv'
<1>0. /\ \A s \in Messages : row[s] \in Row
      /\ \A s \in batch : s \in Messages /\ Claimable(s)
  BY DEF TypeOK, Batches
<1>1. ASSUME NEW s \in Messages
      PROVE /\ row'[s].before = row[s].before
            /\ row'[s].status = "absent" <=> row[s].status = "absent"
            /\ row'[s].owner # NoOwner =>
                 \/ s \notin batch /\ row[s].owner # NoOwner
                 \/ s \in batch /\ ~Exhausted(s)
  <2>1. row'[s] = IF s \notin batch THEN row[s]
                  ELSE IF Exhausted(s) THEN Terminalized(row[s]) ELSE Leased(w, row[s])
    BY DEF ClaimRows
  <2>2. s \in batch => row[s].status = "open"
    BY <1>0 DEF Claimable, Open
  <2>3. /\ Terminalized(row[s]).owner = NoOwner /\ Terminalized(row[s]).status = "failed"
        /\ Terminalized(row[s]).before = row[s].before
        /\ Leased(w, row[s]).status = row[s].status
        /\ Leased(w, row[s]).before = row[s].before
    BY <1>0 DEF Terminalized, Unleased, HeldBy, Leased, Row
  <2> QED
    BY <2>1, <2>2, <2>3
<1>2. RowsOrdered'
  BY <1>1 DEF LeaseInv, RowsOrdered
<1>3. ASSUME NEW m \in Messages, NEW s \in Messages, m # s, SameConv(m, s),
             row'[m].owner # NoOwner, row'[s].owner # NoOwner
      PROVE FALSE
  <2>1. SameConv(s, m)
    BY <1>3 DEF SameConv
  <2>2. ASSUME NEW x \in batch, NEW y \in Messages \ batch, SameConv(x, y), SameConv(y, x),
               ~Exhausted(x), row[y].owner # NoOwner
        PROVE FALSE
    BY <2>2 DEF LeaseConflict, RowsOK, Open
  <2>3. CASE m \in batch /\ s \in batch
    <3>1. Open(m) /\ Open(s) /\ ~OlderSibling(m) /\ ~OlderSibling(s)
      BY <1>0, <2>3 DEF Claimable
    <3>2. s \in row[m].before \/ m \in row[s].before
      BY <1>3, <3>1 DEF LeaseInv, RowsOrdered, Open
    <3> QED
      BY <1>3, <2>1, <3>1, <3>2 DEF OlderSibling
  <2>4. CASE m \notin batch /\ s \notin batch
    BY <1>1, <1>3, <2>4 DEF LeaseInv, OneLeasePerConversation
  <2> QED
    BY <1>1, <1>3, <2>1, <2>2, <2>3, <2>4
<1> QED
  BY <1>2, <1>3 DEF LeaseInv, OneLeasePerConversation, SameConv

(* An accepting transaction keeps the lease invariant.                      *)
LEMMA AcceptKeepsLeases ==
  ASSUME TypeOK, RowsOK, LeaseInv, NEW m \in Messages,
         BeginAccept(m) \/ CommitAccept(m) \/ AbortAccept(m)
  PROVE  LeaseInv'
<1>0. \A s \in Messages : row[s] \in Row
  BY DEF TypeOK
<1>1. \A s \in Messages : row'[s].owner # NoOwner => row[s].owner # NoOwner
  <2>1. CASE BeginAccept(m)
    BY <1>0, <2>1 DEF TypeOK, BeginAccept, Row
  <2>2. CASE CommitAccept(m)
    BY <1>0, <2>2 DEF TypeOK, CommitAccept, Row
  <2>3. CASE AbortAccept(m)
    BY <1>0, <2>3 DEF AbortAccept, Row, NewRow
  <2> QED
    BY <2>1, <2>2, <2>3
<1>2. CASE BeginAccept(m)
  <2> DEFINE B == {s \in Messages : row[s].status # "absent"}
  <2>1. /\ row'[m].before = B /\ row[m].status = "absent"
        /\ \A s \in Messages : s # m => row'[s] = row[s]
    BY <1>0, <1>2 DEF TypeOK, BeginAccept, Row
  <2>2. RowsOrdered'
    BY <2>1 DEF LeaseInv, RowsOrdered
  <2> QED
    BY <1>1, <2>2 DEF LeaseInv, OneLeasePerConversation, SameConv
<1>3. CASE CommitAccept(m)
  <2>1. \A s \in Messages : row'[s].before = row[s].before
                            /\ (row'[s].status = "absent" <=> row[s].status = "absent")
    BY <1>0, <1>3 DEF TypeOK, CommitAccept, Row
  <2> QED
    BY <1>1, <2>1 DEF LeaseInv, RowsOrdered, OneLeasePerConversation, SameConv
<1>4. CASE AbortAccept(m)
  <2>1. /\ row'[m].status = "absent"
        /\ \A s \in Messages : s # m => /\ row'[s].before = row[s].before \ {m}
                                         /\ row'[s].status = row[s].status
    BY <1>0, <1>4 DEF AbortAccept, Row, NewRow
  <2>2. RowsOrdered'
    BY <2>1 DEF LeaseInv, RowsOrdered
  <2> QED
    BY <1>1, <2>2 DEF LeaseInv, OneLeasePerConversation, SameConv
<1> QED
  BY <1>2, <1>3, <1>4

(* Two workers never hold leases on one conversation, even when accepting   *)
(* transactions commit out of order.                                        *)
THEOREM ConversationLeasedOnce == Spec => []OneLeasePerConversation
<1>1. Init => LeaseInv
  BY DEF Init, LeaseInv, RowsOrdered, OneLeasePerConversation, NewRow
<1>2. TypeOK /\ AnswerInv /\ LeaseInv /\ [Next]_vars => LeaseInv'
  <2> SUFFICES ASSUME TypeOK, AnswerInv, LeaseInv, [Next]_vars PROVE LeaseInv'
    OBVIOUS
  <2>1. RowsOK
    BY DEF AnswerInv
  <2>2. CASE UNCHANGED row
    BY <2>2 DEF LeaseInv, RowsOrdered, OneLeasePerConversation, SameConv
  <2> QED
    BY <2>1, <2>2, AcceptKeepsLeases, ClaimKeepsLeases, StepReleases, TickReleases,
       ReleasesKeep DEF Next, vars, Claim, ClaimUnacknowledged, Crash
<1>3. LeaseInv => OneLeasePerConversation
  BY DEF LeaseInv
<1> QED
  BY <1>1, <1>2, <1>3, AnswersInvariant, PTL DEF Spec

-----------------------------------------------------------------------------
(* The outbox implements ReplyDelivery.                                     *)

(* The initial state maps to the promise's initial state.                   *)
LEMMA DeliveryInit == Init => Delivery!Init
<1> SUFFICES ASSUME Init PROVE Delivery!Init
  OBVIOUS
<1>1. \A m \in Messages : row[m] = NewRow
  BY DEF Init
<1>2. NewRow.status = "absent" /\ NewRow.body = NoBody
  BY DEF NewRow
<1> QED
  BY <1>1, <1>2 DEF Delivery!Init, StateOf, SentOf

(* A step that ReplyDelivery cannot see.                                    *)
LEMMA DeliveryStutter ==
  ASSUME \A m \in Messages : StateOf(m)' = StateOf(m) /\ row'[m].body = row[m].body,
         UNCHANGED sends
  PROVE  UNCHANGED Delivery!deliveryVars
  BY DEF Delivery!deliveryVars, SentOf

(* A message without a body was never sent anything.                        *)
LEMMA UnsentWithoutBody ==
  ASSUME TypeOK, OneAnswerPerMessage, NEW m \in Messages, row[m].body = NoBody
  PROVE  \A b \in Bodies : sends[m][b] = 0
  BY BodyAssumption DEF TypeOK, OneAnswerPerMessage

(* What a step on the rows leaves alone for ReplyDelivery: every message    *)
(* keeps its body or gets its first one, and nothing is sent.               *)
LEMMA SentKept ==
  ASSUME TypeOK, OneAnswerPerMessage, UNCHANGED sends,
         \A m \in Messages : /\ row[m].body # NoBody => row'[m].body = row[m].body
                             /\ row'[m].body \in Bodies \cup {NoBody}
  PROVE  [m \in Messages |-> SentOf(m)]' = [m \in Messages |-> SentOf(m)]
<1> SUFFICES ASSUME NEW m \in Messages PROVE SentOf(m)' = SentOf(m)
  OBVIOUS
<1>1. CASE row[m].body = NoBody
  BY <1>1, UnsentWithoutBody, BodyAssumption DEF SentOf
<1>2. CASE row[m].body # NoBody
  BY <1>2 DEF SentOf
<1> QED
  BY <1>1, <1>2

(* An accepting transaction is a delivery step or invisible.                *)
LEMMA AcceptDelivery ==
  ASSUME TypeOK, AnswerInv, NEW m \in Messages,
         BeginAccept(m) \/ CommitAccept(m) \/ AbortAccept(m)
  PROVE  [Delivery!Next]_(Delivery!deliveryVars)
<1>0. \A s \in Messages : row[s] \in Row
  BY DEF TypeOK
<1>1. CASE BeginAccept(m)
  <2>1. \A s \in Messages : StateOf(s)' = StateOf(s) /\ row'[s].body = row[s].body
    BY <1>0, <1>1 DEF BeginAccept, StateOf, Row, TypeOK
  <2> QED
    BY <1>1, <2>1, DeliveryStutter DEF BeginAccept
<1>2. CASE CommitAccept(m)
  <2>1. /\ StateOf(m) = "absent" /\ StateOf(m)' = "open"
        /\ \A s \in Messages : s # m => StateOf(s)' = StateOf(s)
        /\ \A s \in Messages : row'[s].body = row[s].body
        /\ UNCHANGED sends
    BY <1>0, <1>2 DEF CommitAccept, StateOf, Row, TypeOK
  <2>2. \A s \in Messages : SentOf(s)' = SentOf(s)
    BY <2>1 DEF SentOf
  <2>3. Delivery!Accept(m)
    BY <2>1, <2>2 DEF Delivery!Accept
  <2> QED
    BY <2>3 DEF Delivery!Next
<1>3. CASE AbortAccept(m)
  <2>1. \A s \in Messages : StateOf(s)' = StateOf(s) /\ row'[s].body = row[s].body
    BY <1>0, <1>3 DEF AbortAccept, StateOf, Row, NewRow, AnswerInv, RowsOK
  <2> QED
    BY <1>3, <2>1, DeliveryStutter DEF AbortAccept
<1> QED
  BY <1>1, <1>2, <1>3

(* A claim gives up the exhausted rows it terminalizes, or is invisible.    *)
LEMMA ClaimDelivery ==
  ASSUME TypeOK, AnswerInv, NEW w \in Workers, NEW batch \in Batches,
         ClaimRows(w, batch), UNCHANGED sends
  PROVE  [Delivery!Next]_(Delivery!deliveryVars)
<1> DEFINE S == {m \in batch : Exhausted(m)}
<1>1. \A m \in Messages : row[m] \in Row
  BY DEF TypeOK
<1>2. \A m \in batch : m \in Messages /\ row[m].status = "open"
  BY DEF Batches, Claimable, Open
<1>3. ASSUME NEW m \in Messages
      PROVE  /\ row'[m].body = row[m].body
             /\ StateOf(m)' = IF m \in S THEN "failed" ELSE StateOf(m)
  <2>1. row'[m] = IF m \notin batch THEN row[m]
                  ELSE IF Exhausted(m) THEN Terminalized(row[m]) ELSE Leased(w, row[m])
    BY DEF ClaimRows
  <2>2. /\ Terminalized(row[m]).status = "failed"
        /\ Terminalized(row[m]).body = row[m].body
        /\ Leased(w, row[m]).status = row[m].status
        /\ Leased(w, row[m]).body = row[m].body
    BY <1>1 DEF Terminalized, Unleased, HeldBy, Leased, Row
  <2> QED
    BY <2>1, <2>2 DEF StateOf
<1>4. CASE S = {}
  BY <1>3, <1>4, DeliveryStutter
<1>5. CASE S # {}
  <2>1. \A m \in Messages : SentOf(m)' = SentOf(m)
    BY <1>3 DEF SentOf
  <2>2. S \in SUBSET Messages /\ \A m \in S : StateOf(m) = "open"
    BY <1>2 DEF StateOf
  <2>3. Delivery!Abandon(S)
    <3> HIDE DEF S
    <3> QED
      BY <1>3, <1>5, <2>1, <2>2 DEF Delivery!Abandon, Delivery!GiveUp
  <2> QED
    BY <2>2, <2>3 DEF Delivery!Next
<1> QED
  BY <1>4, <1>5

(* A provider call that goes through is a delivery of the message's answer. *)
LEMMA SendDelivery ==
  ASSUME TypeOK, AnswerInv, NEW m \in Messages, NEW b \in Bodies, Deliver(m, b),
         row[m].body = b, UNCHANGED row,
         b = Fallback => row[m].status = "failed" /\ sends[m][Fallback] = 0
  PROVE  [Delivery!Next]_(Delivery!deliveryVars)
<1>1. sends \in [Messages -> [Bodies -> Nat]] /\ b # NoBody
  BY BodyAssumption DEF TypeOK
<1>2. \A s \in Messages, c \in Bodies : s # m \/ c # b => sends'[s][c] = sends[s][c]
  BY <1>1, SendsTyped
<1>3. sends'[m][b] = sends[m][b] + 1
  BY <1>1 DEF Deliver
<1>4. \A s \in Messages : row[s].body \in Bodies \cup {NoBody}
  BY DEF TypeOK, Row
<1>5. \A s \in Messages : StateOf(s)' = StateOf(s) /\ row'[s].body = row[s].body
  BY DEF StateOf
<1>6. SentOf(m) = sends[m][b] /\ SentOf(m)' = sends[m][b] + 1
  BY <1>1, <1>3 DEF SentOf
<1>7. \A s \in Messages : s # m => SentOf(s)' = SentOf(s)
  BY <1>2, <1>4, <1>5 DEF SentOf
<1>8. b = Fallback => StateOf(m) = "failed" /\ SentOf(m) = 0
  BY <1>6 DEF StateOf
<1>9. Delivery!Deliver(m)
  BY <1>1, <1>5, <1>6, <1>7, <1>8 DEF Delivery!Deliver
<1> QED
  BY <1>9 DEF Delivery!Next

(* A step that changes only message m's status and body, and sends nothing. *)
LEMMA OneRowDelivery ==
  ASSUME TypeOK, AnswerInv, UNCHANGED sends, NEW m \in Messages, NEW q \in Row,
         row' = [row EXCEPT ![m] = q],
         row[m].status = "open",
         \/ q.status = "open" /\ q.body = row[m].body
         \/ q.status = "open" /\ row[m].body = NoBody /\ q.body \in Replies
         \/ q.status = "completed" /\ q.body = row[m].body
         \/ q.status = "failed" /\ q.body = row[m].body
         \/ q.status = "failed" /\ row[m].body = NoBody /\ q.body = Fallback
  PROVE  [Delivery!Next]_(Delivery!deliveryVars)
<1>1. /\ row'[m] = q /\ \A s \in Messages : s # m => row'[s] = row[s]
      /\ \A s \in Messages : row[s] \in Row
  BY DEF TypeOK
<1>2. /\ StateOf(m) = "open" /\ (q.status # "inserting" => StateOf(m)' = q.status)
      /\ \A s \in Messages : s # m => StateOf(s)' = StateOf(s)
  BY <1>1 DEF StateOf
<1>3. [s \in Messages |-> SentOf(s)]' = [s \in Messages |-> SentOf(s)]
  <2>1. \A s \in Messages : /\ row[s].body # NoBody => row'[s].body = row[s].body
                            /\ row'[s].body \in Bodies \cup {NoBody}
    BY <1>1 DEF Row
  <2> QED
    BY <2>1, SentKept DEF AnswerInv
<1>b. [s \in Messages |-> row[s].body]' =
        [[s \in Messages |-> row[s].body] EXCEPT ![m] = q.body]
  <2>1. \A s \in Messages : row'[s].body = IF s = m THEN q.body ELSE row[s].body
    BY <1>1
  <2>2. [s \in Messages |-> row'[s].body] =
          [s \in Messages |-> IF s = m THEN q.body ELSE row[s].body]
    BY <2>1
  <2>3. [[s \in Messages |-> row[s].body] EXCEPT ![m] = q.body] =
          [s \in Messages |-> IF s = m THEN q.body ELSE row[s].body]
    OBVIOUS
  <2> QED
    BY <2>2, <2>3
<1>4. CASE q.status = "open" /\ q.body = row[m].body
  <2>1. StateOf(m)' = StateOf(m)
    BY <1>2, <1>4
  <2>2. \A s \in Messages : StateOf(s)' = StateOf(s) /\ row'[s].body = row[s].body
    BY <1>1, <1>2, <1>4, <2>1
  <2> QED
    BY <2>2, DeliveryStutter
<1>5. CASE q.status = "open" /\ row[m].body = NoBody /\ q.body \in Replies
  <2>0. [s \in Messages |-> StateOf(s)]' = [s \in Messages |-> StateOf(s)]
    BY <1>2, <1>5
  <2>1. Delivery!Answer(m, q.body)
    BY <1>2, <1>3, <1>5, <1>b, <2>0 DEF Delivery!Answer
  <2>2. \E x \in Messages : \E r \in Replies : Delivery!Answer(x, r)
    BY <1>5, <2>1
  <2> QED
    BY <2>2 DEF Delivery!Next
<1>6. CASE q.status = "completed" /\ q.body = row[m].body
  <2>a. [s \in Messages |-> row[s].body]' = [s \in Messages |-> row[s].body]
    <3>1. \A s \in Messages : row'[s].body = row[s].body
      BY <1>1, <1>6
    <3> QED
      BY <3>1
  <2>b. [s \in Messages |-> StateOf(s)]' =
          [[s \in Messages |-> StateOf(s)] EXCEPT ![m] = "completed"]
    <3>1. \A s \in Messages : StateOf(s)' = IF s = m THEN "completed" ELSE StateOf(s)
      BY <1>2, <1>6
    <3>2. [s \in Messages |-> StateOf(s)]' =
            [s \in Messages |-> IF s = m THEN "completed" ELSE StateOf(s)]
      BY <3>1
    <3> QED
      BY <3>2
  <2>c. [s \in Messages |-> StateOf(s)][m] = "open"
    BY <1>2
  <2>1. Delivery!Finish(m)
    BY <1>3, <2>a, <2>b, <2>c DEF Delivery!Finish
  <2> QED
    BY <2>1 DEF Delivery!Next
<1>7. CASE q.status = "failed"
  <2>1. Delivery!GiveUp({m})
    BY <1>1, <1>2, <1>3, <1>7 DEF Delivery!GiveUp
  <2>2. CASE q.body = row[m].body
    <3>1. Delivery!Abandon({m})
      BY <1>1, <2>1, <2>2 DEF Delivery!Abandon
    <3>2. {m} \in SUBSET Messages
      OBVIOUS
    <3> QED
      BY <3>1, <3>2 DEF Delivery!Next
  <2>3. CASE row[m].body = NoBody /\ q.body = Fallback
    <3>1. Delivery!Apologize(m)
      BY <1>b, <2>1, <2>3 DEF Delivery!Apologize
    <3> QED
      BY <3>1 DEF Delivery!Next
  <2> QED
    BY <1>7, <2>2, <2>3
<1> QED
  BY <1>4, <1>5, <1>6, <1>7

(* A worker's step is a delivery step or invisible.                         *)
LEMMA StepDelivery ==
  ASSUME TypeOK, AnswerInv, NEW w \in Workers, NEW m \in Messages, Step(w, m)
  PROVE  [Delivery!Next]_(Delivery!deliveryVars)
<1>0. /\ row[m] \in Row /\ row \in [Messages -> Row] /\ task[w][m] \in Task
      /\ task[w][m].fault \in Faults
  BY DEF TypeOK, Task
<1>1. CASE UNCHANGED <<row, sends>>
  <2>1. \A s \in Messages : StateOf(s)' = StateOf(s) /\ row'[s].body = row[s].body
    BY <1>1 DEF StateOf
  <2> QED
    BY <1>1, <2>1, DeliveryStutter
<1>2. CASE PersistedRow(w, m) /\ task[w][m].pc = "persist" /\ UNCHANGED sends
  <2> DEFINE q == [row[m] EXCEPT !.body = task[w][m].reply]
  <2>1. /\ row' = [row EXCEPT ![m] = q] /\ row[m].status = "open"
        /\ row[m].body \in {NoBody, task[w][m].reply} /\ task[w][m].reply \in Replies
    BY <1>2, TasksAreGood DEF PersistedRow, LiveLease, Open, AnswerInv, TaskGood
  <2>2. q \in Row
    BY <1>0, <2>1, RowUpdates DEF Bodies
  <2>3. q.status = "open" /\ q.body = task[w][m].reply
    BY <1>0, <2>1 DEF Row
  <2> HIDE DEF q
  <2> QED
    BY <1>2, <2>1, <2>2, <2>3, OneRowDelivery
<1>3. CASE LiveLease(w, m) /\ CompletedRow(m) /\ UNCHANGED sends
  <2> DEFINE q == [Unleased(row[m]) EXCEPT !.status = "completed"]
  <2>1. row' = [row EXCEPT ![m] = q] /\ row[m].status = "open"
    BY <1>3 DEF LiveLease, Open, CompletedRow
  <2>2. q \in Row
    BY <1>0, RowUpdates DEF Statuses
  <2>3. q.status = "completed" /\ q.body = row[m].body
    BY <1>0 DEF Row, Unleased, HeldBy
  <2> HIDE DEF q
  <2> QED
    BY <1>3, <2>1, <2>2, <2>3, OneRowDelivery
<1>4. CASE LiveLease(w, m) /\ FailedRow(m, task[w][m].fault) /\ UNCHANGED sends
  <2> DEFINE f == task[w][m].fault
  <2>1. PICK q \in Row :
           /\ row' = [row EXCEPT ![m] = q]
           /\ q.status = IF Terminal(m, f) THEN "failed" ELSE row[m].status
           /\ q.body = IF Terminal(m, f) /\ FallbackDue(m, f) THEN Fallback
                       ELSE row[m].body
    BY <1>0, <1>4, FailedRowEffect
  <2>2. row[m].status = "open"
    BY <1>4 DEF LiveLease, Open
  <2> QED
    BY <1>4, <2>1, <2>2, OneRowDelivery DEF FallbackDue
<1>5. CASE UNCHANGED row /\ ~UNCHANGED sends
  <2>1. Next
    BY DEF Next
  <2> QED
    BY <1>5, <2>1, SendsStep, SendDelivery
<1> QED
  BY <1>1, <1>2, <1>3, <1>4, <1>5 DEF Step, Load, RunTurn, PersistIntent, Send,
       Complete, RecordFailure, Notify, SendFallback, AuditFallback

(* The outbox, its workers, their crashes and lost acknowledgements promise *)
(* each message what ReplyDelivery promises it.                             *)
THEOREM ImplementsDelivery == Spec => DeliverySpec
<1>1. Init => Delivery!Init
  BY DeliveryInit
<1>2. TypeOK /\ AnswerInv /\ [Next]_vars => [Delivery!Next]_(Delivery!deliveryVars)
  <2> SUFFICES ASSUME TypeOK, AnswerInv, [Next]_vars
               PROVE  [Delivery!Next]_(Delivery!deliveryVars)
    OBVIOUS
  <2>1. CASE UNCHANGED <<row, sends>>
    <3>1. \A s \in Messages : StateOf(s)' = StateOf(s) /\ row'[s].body = row[s].body
      BY <2>1 DEF StateOf
    <3> QED
      BY <2>1, <3>1, DeliveryStutter
  <2>2. CASE Tick
    <3>1. \A s \in Messages : row'[s] = Aged(row[s]) /\ row[s] \in Row
      BY <2>2 DEF Tick, TypeOK
    <3>2. \A s \in Messages : Aged(row[s]).status = row[s].status
                              /\ Aged(row[s]).body = row[s].body
      BY <3>1, ZenonT(40) DEF Row, Aged
    <3>3. \A s \in Messages : StateOf(s)' = StateOf(s) /\ row'[s].body = row[s].body
      BY <3>1, <3>2 DEF StateOf
    <3> QED
      BY <2>2, <3>3, DeliveryStutter DEF Tick
  <2> QED
    BY <2>1, <2>2, AcceptDelivery, ClaimDelivery, StepDelivery
       DEF Next, vars, Claim, ClaimUnacknowledged, Crash
<1> QED
  BY <1>1, <1>2, AnswersInvariant, PTL DEF Spec, DeliverySpec, Delivery!Spec

-----------------------------------------------------------------------------
(* No second turn.  The worker that owns a row knows its reply from the     *)
(* claim on: only the owner commits one, and it claims nothing more before  *)
(* its batch is done.  A worker whose lease was taken may know less.        *)
Knows(w, m) ==
  row[m].status = "open" /\ row[m].owner = w =>
    /\ task[w][m].pc = "load" => task[w][m].reply = row[m].body
    /\ task[w][m].pc = "turn" => row[m].body = NoBody
KnowsInv == \A w \in Workers, m \in Messages : Knows(w, m)

(* A row that is not given to anyone, with its body and its holder's task   *)
(* left alone.                                                              *)
LEMMA KnowsKept ==
  ASSUME NEW w \in Workers, NEW m \in Messages, Knows(w, m),
         row'[m].status = "open" /\ row'[m].owner = w =>
           /\ row[m].status = "open" /\ row[m].owner = w /\ row'[m].body = row[m].body
           /\ task'[w][m].pc = task[w][m].pc /\ task'[w][m].reply = task[w][m].reply
  PROVE  Knows(w, m)'
  BY DEF Knows

(* A task that is neither about to load nor to run its turn.                *)
LEMMA KnowsNothing ==
  ASSUME NEW w \in Workers, NEW m \in Messages, task'[w][m].pc \notin {"load", "turn"}
  PROVE  Knows(w, m)'
  BY DEF Knows

(* A worker's step changes the body only of a row it owns, past its turn.   *)
LEMMA StepBodies ==
  ASSUME TypeOK, NEW w \in Workers, NEW m \in Messages, Step(w, m)
  PROVE  /\ \A s \in Messages : s # m => row'[s] = row[s]
         /\ \A v \in Workers, s \in Messages : v # w \/ s # m => task'[v][s] = task[v][s]
         /\ row'[m] = row[m] \/ row[m].owner = w
         /\ row'[m].owner \in {row[m].owner, NoOwner}
         /\ row'[m].status = "open" => row[m].status = "open"
<1> DEFINE Rows == /\ \A s \in Messages : s # m => row'[s] = row[s]
                   /\ row'[m] = row[m] \/ row[m].owner = w
                   /\ row'[m].owner \in {row[m].owner, NoOwner}
                   /\ row'[m].status = "open" => row[m].status = "open"
<1>0. row \in [Messages -> Row] /\ row[m] \in Row /\ task[w][m].fault \in Faults
  BY DEF TypeOK, Task
<1>1. ASSUME UNCHANGED row PROVE Rows
  BY <1>1
<1>2. ASSUME PersistedRow(w, m) PROVE Rows
  <2> DEFINE q == [row[m] EXCEPT !.body = task[w][m].reply]
  <2>1. row' = [row EXCEPT ![m] = q] /\ row[m].owner = w
    BY <1>2 DEF PersistedRow, LiveLease
  <2>2. q.status = row[m].status /\ q.owner = row[m].owner
    BY <1>0 DEF Row
  <2> HIDE DEF q
  <2> QED
    BY <1>0, <2>1, <2>2
<1>3. ASSUME LiveLease(w, m), CompletedRow(m) PROVE Rows
  <2> DEFINE q == [Unleased(row[m]) EXCEPT !.status = "completed"]
  <2>1. row' = [row EXCEPT ![m] = q] /\ row[m].owner = w
    BY <1>3 DEF LiveLease, CompletedRow
  <2>2. q.status = "completed" /\ q.owner = NoOwner
    BY <1>0 DEF Row, Unleased, HeldBy
  <2> HIDE DEF q
  <2> QED
    BY <1>0, <2>1, <2>2
<1>4. ASSUME LiveLease(w, m), FailedRow(m, task[w][m].fault) PROVE Rows
  <2>1. PICK q \in Row : row' = [row EXCEPT ![m] = q] /\ q.owner = NoOwner
    BY <1>0, <1>4, FailedRowEffect
  <2>2. row[m].owner = w /\ row[m].status = "open"
    BY <1>4 DEF LiveLease, Open
  <2> QED
    BY <1>0, <2>1, <2>2
<1>5. \/ UNCHANGED row
      \/ PersistedRow(w, m)
      \/ LiveLease(w, m) /\ CompletedRow(m)
      \/ LiveLease(w, m) /\ FailedRow(m, task[w][m].fault)
  BY DEF Step, Load, RunTurn, PersistIntent, Send, Complete, RecordFailure, Notify,
         SendFallback, AuditFallback
<1>6. Rows
  BY <1>1, <1>2, <1>3, <1>4, <1>5
<1>7. \A v \in Workers, s \in Messages : v # w \/ s # m => task'[v][s] = task[v][s]
  <2>1. \E t : Put(w, m, t)
    BY ZenonT(60) DEF Step, Load, RunTurn, PersistIntent, Send, Complete, RecordFailure,
           Notify, SendFallback, AuditFallback, Goto, Hand, Fail, Leave
  <2> QED
    BY <2>1 DEF Put, TypeOK
<1> QED
  BY <1>6, <1>7

(* A worker's step keeps what it knows.                                     *)
LEMMA StepKnows ==
  ASSUME TypeOK, KnowsInv, NEW w \in Workers, NEW m \in Messages, Step(w, m)
  PROVE  KnowsInv'
<1>0. task \in [Workers -> [Messages -> Task]] /\ task[w][m] \in Task /\ row[m] \in Row
  BY DEF TypeOK
<1>1. ASSUME NEW v \in Workers, NEW s \in Messages, v # w \/ s # m PROVE Knows(v, s)'
  <2>1. Knows(v, s) /\ task'[v][s] = task[v][s]
    BY <1>1, StepBodies DEF KnowsInv
  <2>2. CASE s # m
    BY <2>1, <2>2, StepBodies, KnowsKept
  <2>3. CASE s = m
    <3>1. v # w /\ v # NoOwner
      BY <1>1, <2>3, OwnerAssumption
    <3>2. row'[m].owner = v => row'[m] = row[m]
      BY <3>1, StepBodies
    <3> QED
      BY <2>1, <2>3, <3>2, KnowsKept
  <2> QED
    BY <2>2, <2>3
<1>2. ASSUME NEW pc, Goto(w, m, pc), pc \notin {"load", "turn"} PROVE Knows(w, m)'
  <2>1. task'[w][m] = At(task[w][m], pc) /\ At(task[w][m], pc).pc = pc
    BY <1>0, <1>2 DEF Goto, Put, At, Task
  <2> QED
    BY <1>2, <2>1, KnowsNothing
<1>3. ASSUME NEW pc, NEW b, Hand(w, m, pc, b), pc \notin {"load", "turn"} PROVE Knows(w, m)'
  <2>1. task'[w][m] = Fresh(pc, b)
    BY <1>0, <1>3 DEF Hand, Put
  <2> QED
    BY <1>3, <2>1, FreshFields, KnowsNothing
<1>4. ASSUME NEW f, Fail(w, m, f) PROVE Knows(w, m)'
  <2>1. task'[w][m].pc = "fail"
    BY <1>0, <1>4 DEF Fail, Put
  <2> QED
    BY <2>1, KnowsNothing
<1>5. ASSUME Leave(w, m) PROVE Knows(w, m)'
  <2>1. task'[w][m].pc = "idle"
    BY <1>0, <1>5, FreshFields DEF Leave, Put, IdleTask
  <2> QED
    BY <2>1, KnowsNothing
<1>6. ASSUME Load(w, m) PROVE Knows(w, m)'
  <2>1. ASSUME Goto(w, m, "turn"), task[w][m].reply = NoBody PROVE Knows(w, m)'
    <3>1. task[w][m].pc = "load" /\ row' = row /\ Knows(w, m)
      BY <1>6 DEF Load, KnowsInv
    <3>2. task'[w][m] = At(task[w][m], "turn") /\ At(task[w][m], "turn").pc = "turn"
      BY <1>0, <2>1 DEF Goto, Put, At, Task
    <3> QED
      BY <2>1, <3>1, <3>2 DEF Knows
  <2>2. \/ Goto(w, m, "turn") /\ task[w][m].reply = NoBody
        \/ Goto(w, m, "send") \/ Goto(w, m, "complete")
        \/ \E f : Fail(w, m, f)
    BY <1>6 DEF Load
  <2> QED
    BY <1>2, <1>4, <2>1, <2>2
<1>7. ASSUME RunTurn(w, m) PROVE Knows(w, m)'
  <2>1. \/ Goto(w, m, "complete") \/ \E b : Hand(w, m, "persist", b)
        \/ \E f : Fail(w, m, f)
    BY <1>7 DEF RunTurn
  <2> QED
    BY <1>2, <1>3, <1>4, <2>1
<1>8. ASSUME PersistIntent(w, m) \/ Send(w, m) \/ Complete(w, m) PROVE Knows(w, m)'
  <2>1. \/ Goto(w, m, "send") \/ Goto(w, m, "complete")
        \/ Leave(w, m) \/ \E f : Fail(w, m, f)
    BY <1>8 DEF PersistIntent, Send, Complete
  <2> QED
    BY <1>2, <1>4, <1>5, <2>1
<1>9. ASSUME RecordFailure(w, m) PROVE Knows(w, m)'
  <2>1. Leave(w, m) \/ \E b : Hand(w, m, "alert", b)
    BY <1>9 DEF RecordFailure
  <2> QED
    BY <1>3, <1>5, <2>1
<1>10. ASSUME Notify(w, m) \/ SendFallback(w, m) \/ AuditFallback(w, m) PROVE Knows(w, m)'
  <2>1. \/ Goto(w, m, "fallback") \/ Goto(w, m, "audit_sent") \/ Goto(w, m, "audit_lost")
        \/ Leave(w, m)
    BY <1>10 DEF Notify, SendFallback, AuditFallback
  <2> QED
    BY <1>2, <1>5, <2>1
<1>11. Knows(w, m)'
  BY <1>6, <1>7, <1>8, <1>9, <1>10 DEF Step
<1> QED
  BY <1>1, <1>11 DEF KnowsInv

(* A claim tells its worker the reply of each row it leases.                *)
LEMMA ClaimKnows ==
  ASSUME TypeOK, KnowsInv, NEW w \in Workers, NEW batch \in Batches,
         Claim(w, batch) \/ ClaimUnacknowledged(w, batch)
  PROVE  KnowsInv'
<1>0. row \in [Messages -> Row] /\ task \in [Workers -> [Messages -> Task]]
  BY DEF TypeOK
<1> SUFFICES ASSUME NEW v \in Workers, NEW s \in Messages PROVE Knows(v, s)'
  BY DEF KnowsInv
<1>1. row'[s] = IF s \notin batch THEN row[s]
                ELSE IF Exhausted(s) THEN Terminalized(row[s]) ELSE Leased(w, row[s])
  BY DEF Claim, ClaimUnacknowledged, ClaimRows
<1>2. row[s] \in Row /\ Knows(v, s)
  BY <1>0 DEF KnowsInv
<1>3. CASE v # w
  <2>1. task'[v] = task[v]
    BY <1>0, <1>3 DEF Claim, ClaimUnacknowledged
  <2>2. /\ Terminalized(row[s]).owner = NoOwner
        /\ Leased(w, row[s]).owner = w
    BY <1>2 DEF Terminalized, Unleased, Leased, HeldBy, Row
  <2>3. row'[s].owner = v => row'[s] = row[s]
    BY <1>1, <1>3, <2>2, OwnerAssumption
  <2> QED
    BY <1>2, <2>1, <2>3, KnowsKept
<1>4. CASE v = w /\ ClaimUnacknowledged(w, batch)
  <2>1. task'[w][s] = task[w][s] /\ task[w][s].pc = "idle"
    BY <1>4 DEF ClaimUnacknowledged, Idle
  <2> QED
    BY <1>4, <2>1, KnowsNothing
<1>5. CASE v = w /\ Claim(w, batch)
  <2>1. task'[w][s] = IF s \notin batch THEN IdleTask
                      ELSE IF Exhausted(s) THEN Fresh("dead", NoBody)
                      ELSE Fresh("load", PersistedReply(s))
    BY <1>0, <1>5 DEF Claim
  <2>2. CASE s \notin batch \/ Exhausted(s)
    <3>1. task'[w][s].pc \in {"idle", "dead"}
      BY <2>1, <2>2, FreshFields DEF IdleTask
    <3> QED
      BY <1>5, <3>1, KnowsNothing
  <2>3. CASE s \in batch /\ ~Exhausted(s)
    <3>1. row'[s].body = row[s].body
      BY <1>1, <1>2, <2>3 DEF Leased, HeldBy, Row
    <3>2. task'[w][s].pc = "load" /\ task'[w][s].reply = row[s].body
      BY <2>1, <2>3, FreshFields DEF PersistedReply
    <3> QED
      BY <1>5, <3>1, <3>2 DEF Knows
  <2> QED
    BY <2>2, <2>3
<1> QED
  BY <1>3, <1>4, <1>5

(* The other steps leave the owners' tasks and the bodies alone.            *)
LEMMA KnowsStep ==
  ASSUME TypeOK, KnowsInv, RowsOK, [Next]_vars
  PROVE  KnowsInv'
<1>0. row \in [Messages -> Row] /\ task \in [Workers -> [Messages -> Task]]
  BY DEF TypeOK
<1>1. ASSUME NEW m \in Messages, BeginAccept(m) \/ CommitAccept(m) \/ AbortAccept(m)
      PROVE  KnowsInv'
  <2>1. row[m].status \in {"absent", "inserting"} /\ row[m].owner = NoOwner /\ UNCHANGED task
    BY <1>1 DEF BeginAccept, CommitAccept, AbortAccept, RowsOK
  <2>2. \A s \in Messages : row[s] \in Row
    BY <1>0
  <2>3. CASE BeginAccept(m)
    <3> DEFINE q == [row[m] EXCEPT !.status = "inserting",
                       !.before = {s \in Messages : row[s].status # "absent"}]
    <3>1. row' = [row EXCEPT ![m] = q]
      BY <2>3 DEF BeginAccept
    <3>2. q.owner = NoOwner
      BY <2>1, <2>2 DEF Row
    <3> HIDE DEF q
    <3> QED
      BY <1>0, <2>1, <3>1, <3>2, OwnerAssumption DEF KnowsInv, Knows
  <2>4. CASE CommitAccept(m)
    <3> DEFINE q == [row[m] EXCEPT !.status = "open"]
    <3>1. row' = [row EXCEPT ![m] = q]
      BY <2>4 DEF CommitAccept
    <3>2. q.owner = NoOwner
      BY <2>1, <2>2 DEF Row
    <3> HIDE DEF q
    <3> QED
      BY <1>0, <2>1, <3>1, <3>2, OwnerAssumption DEF KnowsInv, Knows
  <2>5. CASE AbortAccept(m)
    <3> DEFINE q(s) == [row[s] EXCEPT !.before = @ \ {m}]
    <3>1. \A s \in Messages : row'[s] = IF s = m THEN NewRow ELSE q(s)
      BY <2>5 DEF AbortAccept
    <3>2. \A s \in Messages : q(s).status = row[s].status /\ q(s).owner = row[s].owner
                              /\ q(s).body = row[s].body
      BY <2>2 DEF Row
    <3>3. NewRow.owner = NoOwner
      BY DEF NewRow
    <3> HIDE DEF q
    <3> QED
      BY <2>1, <3>1, <3>2, <3>3, OwnerAssumption DEF KnowsInv, Knows
  <2> QED
    BY <1>1, <2>3, <2>4, <2>5
<1>2. CASE Tick
  <2>1. \A s \in Messages : /\ row'[s].status = row[s].status /\ row'[s].owner = row[s].owner
                            /\ row'[s].body = row[s].body
    <3>1. \A r \in Row : Aged(r).status = r.status /\ Aged(r).owner = r.owner
                         /\ Aged(r).body = r.body
      BY DEF Aged, Row
    <3>2. \A s \in Messages : row'[s] = Aged(row[s]) /\ row[s] \in Row
      BY <1>0, <1>2 DEF Tick
    <3> QED
      BY <3>1, <3>2
  <2> QED
    BY <1>2, <2>1 DEF Tick, KnowsInv, Knows
<1>3. ASSUME NEW w \in Workers, Crash(w) PROVE KnowsInv'
  <2>1. IdleTask.pc = "idle" /\ row' = row
    BY <1>3, FreshFields DEF IdleTask, Crash
  <2>2. \A v \in Workers, s \in Messages :
          task'[v][s] = IdleTask \/ task'[v][s] = task[v][s]
    BY <1>0, <1>3 DEF Crash
  <2> QED
    BY <2>1, <2>2 DEF KnowsInv, Knows
<1>4. CASE UNCHANGED vars
  BY <1>4 DEF vars, KnowsInv, Knows
<1> QED
  BY <1>1, <1>2, <1>3, <1>4, StepKnows, ClaimKnows DEF Next

(* A reply once committed is replayed (process_claimed_work and             *)
(* _persisted_reply): a worker that holds the live lease never runs the     *)
(* agent on a message that has one, whatever was lost, late or claimed      *)
(* twice.                                                                   *)
THEOREM ReplyNeverRecomputed == Spec => []NoRerunAfterCommit
<1> DEFINE RInv == TypeOK /\ AnswerInv /\ KnowsInv
<1>1. Init => KnowsInv
  <2> SUFFICES ASSUME Init PROVE KnowsInv
    OBVIOUS
  <2>1. NewRow.status = "absent"
    BY DEF NewRow
  <2> QED
    BY <2>1 DEF Init, KnowsInv, Knows
<1>2. TypeOK /\ AnswerInv /\ KnowsInv /\ [Next]_vars => KnowsInv'
  BY KnowsStep DEF AnswerInv
<1>3. KnowsInv => NoRerunAfterCommit
  BY DEF KnowsInv, Knows, NoRerunAfterCommit, LiveLease, Open
<1> QED
  BY <1>1, <1>2, <1>3, AnswersInvariant, PTL DEF Spec

-----------------------------------------------------------------------------
(* How often a reply is sent.  Every worker between its claim and its send  *)
(* of a message may still send once, and each of them took an attempt.      *)
Sending == {"load", "turn", "persist", "send"}
MaySend(m) == {w \in Workers : task[w][m].pc \in Sending}

Numbered(m) ==
  /\ row[m].attempts <= ClaimMax
  /\ row[m].status \in {"absent", "inserting"} => row[m].attempts = 0
  /\ row[m].owner # NoOwner \/ row[m].body = Fallback => row[m].attempts > 0
  /\ \A b \in Replies : sends[m][b] + Cardinality(MaySend(m)) <= row[m].attempts
SendsInv == \A m \in Messages : Numbered(m)

(* Fewer workers may send, or one more.                                     *)
LEMMA Fewer ==
  ASSUME NEW S \in SUBSET Workers, NEW T \in SUBSET Workers, NEW w \in Workers
  PROVE  /\ Cardinality(S) \in Nat /\ Cardinality(T) \in Nat
         /\ T \subseteq S => Cardinality(T) <= Cardinality(S)
         /\ T \subseteq S \cup {w} => Cardinality(T) <= Cardinality(S) + 1
         /\ T \subseteq S \ {w} /\ w \in S => Cardinality(T) + 1 <= Cardinality(S)
<1>1. IsFiniteSet(S) /\ IsFiniteSet(T)
  BY OwnerAssumption, FS_Subset
<1>2. Cardinality(S) \in Nat /\ Cardinality(T) \in Nat
  BY <1>1, FS_CardinalityType
<1>3. ASSUME T \subseteq S PROVE Cardinality(T) <= Cardinality(S)
  BY <1>1, <1>3, FS_Subset
<1>4. ASSUME T \subseteq S \cup {w} PROVE Cardinality(T) <= Cardinality(S) + 1
  <2>1. IsFiniteSet(S \cup {w}) /\ Cardinality(S \cup {w}) \in {Cardinality(S), Cardinality(S) + 1}
    BY <1>1, FS_AddElement
  <2>2. Cardinality(T) <= Cardinality(S \cup {w})
    BY <1>4, <2>1, FS_Subset
  <2> QED
    BY <1>2, <2>1, <2>2
<1>5. ASSUME T \subseteq S \ {w}, w \in S PROVE Cardinality(T) + 1 <= Cardinality(S)
  <2>1. IsFiniteSet(S \ {w}) /\ Cardinality(S \ {w}) = Cardinality(S) - 1
    BY <1>1, <1>5, FS_RemoveElement
  <2>2. Cardinality(T) <= Cardinality(S \ {w})
    BY <1>5, <2>1, FS_Subset
  <2> QED
    BY <1>2, <2>1, <2>2
<1> QED
  BY <1>2, <1>3, <1>4, <1>5

(* A step after which no more workers may send, nothing more was sent and   *)
(* the attempts are the same.                                               *)
LEMMA NumberedKept ==
  ASSUME TypeOK, NEW m \in Messages, Numbered(m),
         \A b \in Replies : sends'[m][b] = sends[m][b],
         MaySend(m)' \subseteq MaySend(m),
         row'[m].attempts = row[m].attempts,
         row'[m].status \in {"absent", "inserting"} => row[m].status \in {"absent", "inserting"},
         row'[m].owner # NoOwner \/ row'[m].body = Fallback =>
           row[m].owner # NoOwner \/ row[m].body = Fallback
  PROVE  Numbered(m)'
<1>1. MaySend(m) \in SUBSET Workers /\ MaySend(m)' \in SUBSET Workers
  BY DEF MaySend
<1>2. /\ Cardinality(MaySend(m)) \in Nat /\ Cardinality(MaySend(m)') \in Nat
      /\ Cardinality(MaySend(m)') <= Cardinality(MaySend(m))
  <2>1. CASE Workers = {}
    <3>1. MaySend(m) = {} /\ MaySend(m)' = {}
      BY <1>1, <2>1
    <3> QED
      BY <3>1, FS_EmptySet
  <2>2. CASE Workers # {}
    BY <1>1, <2>2, Fewer
  <2> QED
    BY <2>1, <2>2
<1>3. row[m].attempts \in Nat /\ \A b \in Replies : sends[m][b] \in Nat
  BY DEF TypeOK, Row, Bodies
<1>4. \A b \in Replies : sends'[m][b] + Cardinality(MaySend(m)') <= row'[m].attempts
  BY <1>2, <1>3 DEF Numbered
<1>5. row'[m].owner # NoOwner \/ row'[m].body = Fallback => row'[m].attempts > 0
  BY DEF Numbered
<1> HIDE DEF MaySend
<1> QED
  BY <1>4, <1>5 DEF Numbered

(* A worker's step keeps its row's attempts, and gives a row the fallback   *)
(* body only under a lease.                                                 *)
LEMMA StepAttempts ==
  ASSUME TypeOK, AnswerInv, NEW w \in Workers, NEW m \in Messages, Step(w, m)
  PROVE  /\ row'[m].attempts = row[m].attempts
         /\ row'[m].status \in {"absent", "inserting"} => row[m].status \in {"absent", "inserting"}
         /\ row'[m].body = Fallback => row[m].owner # NoOwner \/ row[m].body = Fallback
<1> DEFINE Kept == /\ row'[m].attempts = row[m].attempts
                   /\ row'[m].status \in {"absent", "inserting"} =>
                        row[m].status \in {"absent", "inserting"}
                   /\ row'[m].body = Fallback =>
                        row[m].owner # NoOwner \/ row[m].body = Fallback
<1>0. row \in [Messages -> Row] /\ row[m] \in Row /\ task[w][m].fault \in Faults
  BY DEF TypeOK, Task
<1>1. ASSUME UNCHANGED row PROVE Kept
  BY <1>1
<1>2. ASSUME PersistedRow(w, m) PROVE Kept
  <2> DEFINE q == [row[m] EXCEPT !.body = task[w][m].reply]
  <2>1. row' = [row EXCEPT ![m] = q] /\ row[m].owner = w
    BY <1>2 DEF PersistedRow, LiveLease
  <2>2. q.status = row[m].status /\ q.attempts = row[m].attempts
    BY <1>0 DEF Row
  <2> HIDE DEF q
  <2> QED
    BY <1>0, <2>1, <2>2, OwnerAssumption
<1>3. ASSUME LiveLease(w, m), CompletedRow(m) PROVE Kept
  <2> DEFINE q == [Unleased(row[m]) EXCEPT !.status = "completed"]
  <2>1. row' = [row EXCEPT ![m] = q] /\ row[m].owner = w
    BY <1>3 DEF LiveLease, CompletedRow
  <2>2. q.status = "completed" /\ q.attempts = row[m].attempts
    BY <1>0 DEF Row, Unleased, HeldBy
  <2> HIDE DEF q
  <2> QED
    BY <1>0, <2>1, <2>2, OwnerAssumption
<1>4. ASSUME LiveLease(w, m), FailedRow(m, task[w][m].fault) PROVE Kept
  <2>1. PICK q \in Row : /\ row' = [row EXCEPT ![m] = q] /\ q.attempts = row[m].attempts
                         /\ q.status \in {"failed", row[m].status}
    BY <1>0, <1>4, FailedRowEffect
  <2>2. row[m].owner = w
    BY <1>4 DEF LiveLease
  <2> QED
    BY <1>0, <2>1, <2>2, OwnerAssumption
<1>5. \/ UNCHANGED row
      \/ PersistedRow(w, m)
      \/ LiveLease(w, m) /\ CompletedRow(m)
      \/ LiveLease(w, m) /\ FailedRow(m, task[w][m].fault)
  BY DEF Step, Load, RunTurn, PersistIntent, Send, Complete, RecordFailure, Notify,
         SendFallback, AuditFallback
<1> QED
  BY <1>1, <1>2, <1>3, <1>4, <1>5

(* A step other than the send leaves the count of the replies alone, and no *)
(* worker that could not send before it can after it.                       *)
LEMMA StepSending ==
  ASSUME TypeOK, NEW w \in Workers, NEW m \in Messages, Step(w, m), ~Send(w, m)
  PROVE  /\ task'[w][m].pc \in Sending => task[w][m].pc \in Sending
         /\ \A s \in Messages, b \in Replies : sends'[s][b] = sends[s][b]
<1>0. task \in [Workers -> [Messages -> Task]] /\ task[w][m] \in Task
  BY DEF TypeOK
<1>1. ASSUME NEW pc, Goto(w, m, pc) PROVE task'[w][m].pc = pc
  BY <1>0, <1>1 DEF Goto, Put, At, Task
<1>2. ASSUME NEW pc, NEW b, Hand(w, m, pc, b) PROVE task'[w][m].pc = pc
  BY <1>0, <1>2, FreshFields DEF Hand, Put
<1>3. ASSUME NEW f, Fail(w, m, f) PROVE task'[w][m].pc = "fail"
  BY <1>0, <1>3 DEF Fail, Put
<1>4. ASSUME Leave(w, m) PROVE task'[w][m].pc = "idle"
  BY <1>0, <1>4, FreshFields DEF Leave, Put, IdleTask
<1>5. CASE Load(w, m) \/ RunTurn(w, m) \/ PersistIntent(w, m)
  BY <1>5 DEF Load, RunTurn, PersistIntent, Sending
<1>6. CASE Complete(w, m)
  BY <1>3, <1>4, <1>6 DEF Complete, Sending
<1>7. CASE RecordFailure(w, m)
  BY <1>2, <1>4, <1>7 DEF RecordFailure, Sending
<1>8. CASE Notify(w, m) \/ AuditFallback(w, m)
  BY <1>1, <1>4, <1>8 DEF Notify, AuditFallback, Sending
<1>9. CASE SendFallback(w, m)
  <2>1. task'[w][m].pc \in {"audit_sent", "audit_lost"}
    BY <1>1, <1>9 DEF SendFallback
  <2>2. Deliver(m, Fallback) \/ UNCHANGED sends
    BY <1>9 DEF SendFallback
  <2>3. \A s \in Messages, b \in Replies : sends'[s][b] = sends[s][b]
    <3>1. CASE UNCHANGED sends
      BY <3>1
    <3>2. CASE Deliver(m, Fallback)
      <4>1. Fallback \in Bodies /\ \A b \in Replies : b \in Bodies /\ b # Fallback
        BY BodyAssumption DEF Bodies
      <4>2. \A s \in Messages, c \in Bodies : c # Fallback => sends'[s][c] = sends[s][c]
        BY <3>2, <4>1, SendsTyped DEF TypeOK
      <4> QED
        BY <4>1, <4>2
    <3> QED
      BY <2>2, <3>1, <3>2
  <2> QED
    BY <2>1, <2>3 DEF Sending
<1> QED
  BY <1>5, <1>6, <1>7, <1>8, <1>9 DEF Step

(* A worker's step keeps the count of every row.                            *)
LEMMA StepNumbered ==
  ASSUME TypeOK, AnswerInv, SendsInv, NEW w \in Workers, NEW m \in Messages, Step(w, m)
  PROVE  SendsInv'
<1> SUFFICES ASSUME NEW s \in Messages PROVE Numbered(s)'
  BY DEF SendsInv
<1>0. Numbered(s) /\ Numbered(m)
  BY DEF SendsInv
<1>1. CASE ~Send(w, m)
  <2>1. \A b \in Replies : sends'[s][b] = sends[s][b]
    BY <1>1, StepSending
  <2>2. MaySend(s)' \subseteq MaySend(s)
    BY <1>1, StepSending, StepBodies DEF MaySend
  <2>3. CASE s # m
    <3>1. row'[s] = row[s]
      BY <2>3, StepBodies
    <3> QED
      BY <1>0, <2>1, <2>2, <3>1, NumberedKept
  <2>4. CASE s = m
    <3>1. row'[m].owner # NoOwner => row[m].owner # NoOwner
      BY StepBodies
    <3> QED
      BY <1>0, <2>1, <2>2, <2>4, <3>1, StepAttempts, NumberedKept
  <2> QED
    BY <2>3, <2>4
<1>2. CASE Send(w, m)
  <2> DEFINE b == task[w][m].reply
  <2>1. /\ task[w][m].pc = "send" /\ row' = row /\ b \in Bodies \cup {NoBody}
        /\ Deliver(m, b) \/ UNCHANGED sends
    BY <1>2 DEF Send, TypeOK, Task
  <2>2. task'[w][m].pc \in {"complete", "fail"}
    BY <1>2 DEF Send, Goto, Fail, Put, At, TypeOK, Task
  <2>3. \A c \in Replies : sends'[s][c] = sends[s][c] \/ (s = m /\ sends'[s][c] = sends[s][c] + 1)
    <3>1. \A c \in Bodies : s # m \/ c # b => sends'[s][c] = sends[s][c]
      BY <2>1, SendsTyped DEF TypeOK
    <3>2. b \in Bodies => sends'[m][b] \in {sends[m][b], sends[m][b] + 1}
      BY <2>1 DEF Deliver, TypeOK
    <3> HIDE DEF b
    <3> QED
      BY <3>1, <3>2 DEF Bodies
  <2>4. CASE s # m
    <3>1. MaySend(s)' \subseteq MaySend(s)
      BY <2>4, StepBodies DEF MaySend
    <3> QED
      BY <1>0, <2>1, <2>3, <2>4, <3>1, NumberedKept
  <2>5. CASE s = m
    <3>1. w \in MaySend(m) /\ MaySend(m)' \subseteq MaySend(m) \ {w}
      BY <2>1, <2>2, StepBodies DEF MaySend, Sending
    <3>2. /\ Cardinality(MaySend(m)) \in Nat /\ Cardinality(MaySend(m)') \in Nat
          /\ Cardinality(MaySend(m)') + 1 <= Cardinality(MaySend(m))
      <4>1. MaySend(m) \in SUBSET Workers /\ MaySend(m)' \in SUBSET Workers
        BY DEF MaySend
      <4> QED
        BY <3>1, <4>1, Fewer
    <3>3. row[m].attempts \in Nat /\ \A c \in Replies : sends[m][c] \in Nat
      BY DEF TypeOK, Row, Bodies
    <3>4. \A c \in Replies : sends'[m][c] + Cardinality(MaySend(m)') <= row[m].attempts
      BY <1>0, <2>3, <2>5, <3>2, <3>3 DEF Numbered
    <3> QED
      BY <1>0, <2>1, <2>5, <3>4 DEF Numbered
  <2> QED
    BY <2>4, <2>5
<1> QED
  BY <1>1, <1>2

(* A claim counts an attempt for the send it makes possible.                *)
LEMMA ClaimNumbered ==
  ASSUME TypeOK, AnswerInv, SendsInv, NEW w \in Workers, NEW batch \in Batches,
         Claim(w, batch) \/ ClaimUnacknowledged(w, batch)
  PROVE  SendsInv'
<1> SUFFICES ASSUME NEW s \in Messages PROVE Numbered(s)'
  BY DEF SendsInv
<1>0. /\ Numbered(s) /\ row[s] \in Row /\ sends' = sends
      /\ task \in [Workers -> [Messages -> Task]]
  BY DEF SendsInv, TypeOK, Claim, ClaimUnacknowledged
<1>1. row'[s] = IF s \notin batch THEN row[s]
                ELSE IF Exhausted(s) THEN Terminalized(row[s]) ELSE Leased(w, row[s])
  BY DEF Claim, ClaimUnacknowledged, ClaimRows
<1>2. \A v \in Workers : v # w => task'[v] = task[v]
  BY <1>0 DEF Claim, ClaimUnacknowledged
<1>3. task'[w][s].pc \in Sending => s \in batch /\ ~Exhausted(s)
  <2>1. CASE ClaimUnacknowledged(w, batch)
    BY <2>1 DEF ClaimUnacknowledged, Idle, Sending
  <2>2. CASE Claim(w, batch)
    <3>1. task'[w][s] = IF s \notin batch THEN IdleTask
                        ELSE IF Exhausted(s) THEN Fresh("dead", NoBody)
                        ELSE Fresh("load", PersistedReply(s))
      BY <1>0, <2>2 DEF Claim
    <3>2. IdleTask.pc = "idle" /\ Fresh("dead", NoBody).pc = "dead"
      BY FreshFields DEF IdleTask
    <3> QED
      BY <3>1, <3>2 DEF Sending
  <2> QED
    BY <2>1, <2>2
<1>4. CASE s \notin batch \/ Exhausted(s)
  <2>1. MaySend(s)' \subseteq MaySend(s)
    BY <1>2, <1>3, <1>4 DEF MaySend
  <2>2. /\ Terminalized(row[s]).attempts = row[s].attempts
        /\ Terminalized(row[s]).status = "failed" /\ Terminalized(row[s]).owner = NoOwner
        /\ Terminalized(row[s]).body = row[s].body
    BY <1>0 DEF Terminalized, Unleased, HeldBy, Row
  <2> QED
    BY <1>0, <1>1, <1>4, <2>1, <2>2, NumberedKept
<1>5. CASE s \in batch /\ ~Exhausted(s)
  <2> DEFINE q == Leased(w, row[s])
  <2>1. /\ q.attempts = row[s].attempts + 1 /\ q.status = row[s].status
    BY <1>0 DEF Leased, HeldBy, Row
  <2>2. row'[s] = q /\ row[s].status = "open"
    BY <1>1, <1>5 DEF Batches, Claimable, Open
  <2>3. row[s].attempts \in Nat /\ row[s].attempts < ClaimMax /\ ClaimMax \in Nat
    BY <1>0, <1>5, PolicyAssumption DEF Exhausted, Row
  <2>4. MaySend(s)' \subseteq MaySend(s) \cup {w}
    BY <1>2 DEF MaySend
  <2>5. /\ Cardinality(MaySend(s)) \in Nat /\ Cardinality(MaySend(s)') \in Nat
        /\ Cardinality(MaySend(s)') <= Cardinality(MaySend(s)) + 1
    <3>1. MaySend(s) \in SUBSET Workers /\ MaySend(s)' \in SUBSET Workers
      BY DEF MaySend
    <3> QED
      BY <2>4, <3>1, Fewer
  <2>6. \A b \in Replies : sends[s][b] \in Nat
    BY DEF TypeOK, Bodies
  <2> HIDE DEF q
  <2>7. \A b \in Replies : sends'[s][b] + Cardinality(MaySend(s)') <= row'[s].attempts
    BY <1>0, <2>1, <2>2, <2>3, <2>5, <2>6 DEF Numbered
  <2> QED
    BY <2>1, <2>2, <2>3, <2>7 DEF Numbered
<1> QED
  BY <1>4, <1>5

(* Every step keeps the counts.                                             *)
LEMMA NextNumbered ==
  ASSUME TypeOK, AnswerInv, SendsInv, [Next]_vars
  PROVE  SendsInv'
<1>0. row \in [Messages -> Row] /\ task \in [Workers -> [Messages -> Task]]
  BY DEF TypeOK
<1>1. ASSUME NEW m \in Messages, BeginAccept(m) \/ CommitAccept(m) \/ AbortAccept(m),
             NEW s \in Messages
      PROVE  Numbered(s)'
  <2>0. /\ Numbered(s) /\ row[s] \in Row /\ UNCHANGED <<task, sends>>
        /\ row[m].status \in {"absent", "inserting"} /\ Numbered(m)
    BY <1>0, <1>1 DEF SendsInv, BeginAccept, CommitAccept, AbortAccept
  <2>1. MaySend(s)' = MaySend(s)
    BY <2>0 DEF MaySend
  <2>2. CASE s # m \/ ~AbortAccept(m)
    <3>1. /\ row'[s].attempts = row[s].attempts /\ row'[s].owner = row[s].owner
          /\ row'[s].body = row[s].body
          /\ row'[s].status \in {"absent", "inserting"} =>
               row[s].status \in {"absent", "inserting"}
      <4>1. CASE row'[s] = row[s]
        BY <4>1
      <4>2. CASE s = m /\ row'[s] = [row[s] EXCEPT !.status = "open"]
        <5>1. \A r \in Row : LET q == [r EXCEPT !.status = "open"]
                             IN  /\ q.attempts = r.attempts /\ q.owner = r.owner
                                 /\ q.body = r.body /\ q.status = "open"
          BY DEF Row
        <5> QED
          BY <2>0, <4>2, <5>1
      <4>3. ASSUME NEW d, row'[s] = [row[s] EXCEPT !.before = d]
            PROVE  /\ row'[s].attempts = row[s].attempts /\ row'[s].owner = row[s].owner
                   /\ row'[s].body = row[s].body /\ row'[s].status = row[s].status
        BY <2>0, <4>3 DEF Row
      <4>4. ASSUME NEW d, s = m, row'[s] = [row[s] EXCEPT !.status = "inserting", !.before = d]
            PROVE  /\ row'[s].attempts = row[s].attempts /\ row'[s].owner = row[s].owner
                   /\ row'[s].body = row[s].body
        BY <2>0, <4>4 DEF Row
      <4>5. CASE BeginAccept(m)
        <5>1. row' = [row EXCEPT ![m] = [row[m] EXCEPT
                !.status = "inserting",
                !.before = {n \in Messages : row[n].status # "absent"}]]
          BY <4>5 DEF BeginAccept
        <5> QED
          BY <1>0, <2>0, <4>1, <4>4, <5>1
      <4>6. CASE CommitAccept(m)
        BY <1>0, <4>1, <4>2, <4>6 DEF CommitAccept
      <4>7. CASE AbortAccept(m) /\ s # m
        BY <4>3, <4>7 DEF AbortAccept
      <4> QED
        BY <1>1, <2>2, <4>5, <4>6, <4>7
    <3> QED
      BY <2>0, <2>1, <3>1, NumberedKept
  <2>3. CASE s = m /\ AbortAccept(m)
    <3>1. row'[s] = NewRow
      BY <2>3 DEF AbortAccept
    <3>2. /\ NewRow.attempts = 0 /\ NewRow.owner = NoOwner /\ NewRow.body = NoBody
          /\ NewRow.status = "absent"
      BY DEF NewRow
    <3>3. row[s].attempts = 0
      BY <2>0, <2>3 DEF Numbered
    <3>4. /\ row'[s].attempts = row[s].attempts
          /\ row[s].status \in {"absent", "inserting"}
          /\ ~(row'[s].owner # NoOwner \/ row'[s].body = Fallback)
      BY <2>0, <2>3, <3>1, <3>2, <3>3, BodyAssumption DEF Bodies
    <3> QED
      BY <2>0, <2>1, <3>4, NumberedKept
  <2> QED
    BY <2>2, <2>3
<1>2. ASSUME Tick, NEW s \in Messages PROVE Numbered(s)'
  <2>1. \A r \in Row : /\ Aged(r).status = r.status /\ Aged(r).owner = r.owner
                       /\ Aged(r).body = r.body /\ Aged(r).attempts = r.attempts
    BY DEF Aged, Row
  <2>2. row'[s] = Aged(row[s]) /\ row[s] \in Row /\ UNCHANGED <<task, sends>>
    BY <1>0, <1>2 DEF Tick
  <2>3. MaySend(s)' = MaySend(s) /\ Numbered(s)
    BY <2>2 DEF MaySend, SendsInv
  <2> QED
    BY <2>1, <2>2, <2>3, NumberedKept
<1>3. ASSUME NEW w \in Workers, Crash(w), NEW s \in Messages PROVE Numbered(s)'
  <2>1. row' = row /\ sends' = sends /\ Numbered(s)
    BY <1>3 DEF Crash, SendsInv
  <2>2. \A v \in Workers : task'[v][s] = task[v][s] \/ task'[v][s] = IdleTask
    BY <1>0, <1>3 DEF Crash
  <2>3. MaySend(s)' \subseteq MaySend(s)
    BY <2>2, FreshFields DEF MaySend, Sending, IdleTask
  <2> QED
    BY <2>1, <2>3, NumberedKept
<1>4. ASSUME UNCHANGED vars PROVE SendsInv'
  BY <1>4 DEF vars, SendsInv, Numbered, MaySend
<1> QED
  BY <1>1, <1>2, <1>3, <1>4, StepNumbered, ClaimNumbered DEF Next, SendsInv

(* A message is claimed ClaimMax times at most (claim_available_outbox_work *)
(* terminalizes an exhausted row), each attempt sends its reply at most     *)
(* once, and the fallback is sent once at most, for any number of workers,  *)
(* whatever crashes, expires or goes unacknowledged.                        *)
THEOREM SendsAreBounded == Spec => []SendsBounded
<1>1. Init => SendsInv
  <2> SUFFICES ASSUME Init, NEW m \in Messages PROVE Numbered(m)
    BY DEF SendsInv
  <2>1. /\ row[m].attempts = 0 /\ row[m].owner = NoOwner /\ row[m].body = NoBody
        /\ \A b \in Replies : sends[m][b] = 0
    BY DEF Init, NewRow, Bodies
  <2>2. MaySend(m) = {}
    BY FreshFields DEF Init, MaySend, Sending, IdleTask
  <2>3. Cardinality(MaySend(m)) = 0
    BY <2>2, FS_EmptySet
  <2> QED
    BY <2>1, <2>3, BodyAssumption, PolicyAssumption DEF Numbered, Bodies
<1>2. TypeOK /\ AnswerInv /\ SendsInv /\ [Next]_vars => SendsInv'
  BY NextNumbered
<1>3. TypeOK /\ AnswerInv /\ SendsInv => SendsBounded
  <2> SUFFICES ASSUME TypeOK, AnswerInv, SendsInv, NEW m \in Messages
               PROVE  /\ row[m].attempts <= ClaimMax
                      /\ \A b \in Bodies : sends[m][b] <= row[m].attempts
                      /\ sends[m][Fallback] <= 1
    BY DEF SendsBounded
  <2>1. /\ Numbered(m) /\ sends[m][Fallback] <= 1 /\ row[m].attempts \in Nat
        /\ \A b \in Bodies : sends[m][b] \in Nat
    BY DEF SendsInv, AnswerInv, FallbackOnce, TypeOK, Row
  <2>2. Cardinality(MaySend(m)) \in Nat
    <3>1. IsFiniteSet(MaySend(m))
      BY OwnerAssumption, FS_Subset DEF MaySend
    <3> QED
      BY <3>1, FS_CardinalityType
  <2>3. \A b \in Replies : sends[m][b] <= row[m].attempts
    BY <2>1, <2>2 DEF Numbered, Bodies
  <2>4. sends[m][Fallback] <= row[m].attempts
    BY <2>1 DEF AnswerInv, OneAnswerPerMessage, Numbered, Bodies
  <2> QED
    BY <2>1, <2>3, <2>4 DEF Numbered, Bodies
<1> QED
  BY <1>1, <1>2, <1>3, AnswersInvariant, PTL DEF Spec

-----------------------------------------------------------------------------
(* Order.  When accepting transactions of a conversation do not overlap,    *)
(* whatever began earlier has committed, and a claim finds it settled.      *)
Arrived(m) ==
  \A s \in row[m].before : s \in Messages /\ SameConv(s, m) =>
    /\ row[s].status \notin {"absent", "inserting"}
    /\ row[m].owner # NoOwner => row[s].status \in Settled
OrderInv == \A m \in Messages : Arrived(m)

(* A step that leaves what came before a row, gives it no owner and takes   *)
(* no row back.                                                             *)
LEMMA ArrivedKept ==
  ASSUME OrderInv, NEW m \in Messages,
         row'[m].before \subseteq row[m].before,
         row'[m].owner # NoOwner => row[m].owner # NoOwner,
         \A s \in Messages : /\ row[s].status \in Settled => row'[s].status \in Settled
                             /\ row'[s].status \in {"absent", "inserting"} =>
                                  row[s].status \in {"absent", "inserting"}
  PROVE  Arrived(m)'
<1>1. Arrived(m)
  BY DEF OrderInv
<1> QED
  BY <1>1 DEF Arrived, SameConv

(* A claim gives an owner to a row only when its elder siblings are settled.*)
LEMMA ClaimOrdered ==
  ASSUME TypeOK, AnswerInv, OrderInv, NEW w \in Workers, NEW batch \in Batches,
         ClaimRows(w, batch)
  PROVE  OrderInv'
<1>0. \A s \in Messages : row[s] \in Row
  BY DEF TypeOK
<1>1. \A s \in Messages :
        row'[s] = IF s \notin batch THEN row[s]
                  ELSE IF Exhausted(s) THEN Terminalized(row[s]) ELSE Leased(w, row[s])
  BY DEF ClaimRows
<1>2. \A r \in Row :
        /\ Terminalized(r).before = r.before /\ Terminalized(r).status = "failed"
        /\ Leased(w, r).before = r.before /\ Leased(w, r).status = r.status
  BY DEF Terminalized, Leased, Unleased, HeldBy, Row
<1>3. \A r \in Row : Terminalized(r).owner = NoOwner
  BY DEF Terminalized, Unleased, HeldBy, Row
<1>4. \A s \in Messages :
        /\ row'[s].before = row[s].before
        /\ row'[s].status = row[s].status \/ row'[s].status = "failed"
  BY <1>0, <1>1, <1>2
<1>5. ASSUME NEW m \in Messages PROVE Arrived(m)'
  <2>1. CASE m \notin batch \/ Exhausted(m)
    <3>1. row'[m].owner # NoOwner => row[m].owner # NoOwner
      BY <1>0, <1>1, <1>3, <2>1
    <3> QED
      BY <1>4, <3>1, ArrivedKept DEF Settled
  <2>2. CASE m \in batch
    <3>1. ~OlderSibling(m) /\ Arrived(m)
      BY <2>2 DEF Batches, Claimable, OrderInv
    <3>2. ASSUME NEW s \in row[m].before, s \in Messages, SameConv(s, m)
          PROVE  row[s].status \in Settled
      <4>1. row[s].status # "open" /\ row[s].status \notin {"absent", "inserting"}
        BY <3>1, <3>2 DEF OlderSibling, Open, Arrived
      <4>2. row[s].status \in Statuses
        BY <1>0, <3>2 DEF Row
      <4> QED
        BY <4>1, <4>2 DEF Statuses, Settled
    <3> QED
      BY <1>4, <3>2 DEF Arrived, SameConv, Settled
  <2> QED
    BY <2>1, <2>2
<1> QED
  BY <1>5 DEF OrderInv

(* Order is kept by every step.                                             *)
LEMMA OrderStep ==
  ASSUME ~Overlap, TypeOK, AnswerInv, OrderInv, [Next]_vars
  PROVE  OrderInv'
<1>0. /\ row \in [Messages -> Row]
      /\ \A s \in Messages : row[s].status # "open" => row[s].owner = NoOwner
  BY DEF TypeOK, AnswerInv, RowsOK
<1>1. ASSUME NEW m \in Messages, BeginAccept(m) PROVE OrderInv'
  <2> DEFINE q == [row[m] EXCEPT !.status = "inserting",
                     !.before = {s \in Messages : row[s].status # "absent"}]
  <2>1. row' = [row EXCEPT ![m] = q] /\ row[m].status = "absent"
    BY <1>1 DEF BeginAccept
  <2>2. /\ q.status = "inserting" /\ q.owner = NoOwner
        /\ q.before = {s \in Messages : row[s].status # "absent"}
    BY <1>0, <2>1 DEF Row
  <2> HIDE DEF q
  <2>3. \A s \in Messages : SameConv(s, m) => row[s].status # "inserting"
    BY <1>1 DEF BeginAccept
  <2>4. ASSUME NEW s \in Messages PROVE Arrived(s)'
    <3>1. CASE s = m
      <4>1. m \notin q.before
        BY <2>1, <2>2
      <4>2. \A k \in Messages : k # m => row'[k] = row[k]
        BY <1>0, <2>1
      <4>3. row'[m].owner = NoOwner /\ row'[m].before = q.before
        BY <1>0, <2>1, <2>2
      <4> QED
        BY <2>2, <2>3, <3>1, <4>1, <4>2, <4>3 DEF Arrived, SameConv
    <3>2. CASE s # m
      <4>1. row'[s] = row[s] /\ Arrived(s)
        BY <2>1, <3>2 DEF OrderInv
      <4>2. m \in row[s].before => ~SameConv(m, s)
        BY <2>1, <4>1 DEF Arrived
      <4>3. \A k \in Messages : k # m => row'[k] = row[k]
        BY <1>0, <2>1
      <4> QED
        BY <4>1, <4>2, <4>3 DEF Arrived, SameConv
    <3> QED
      BY <3>1, <3>2
  <2> QED
    BY <2>4 DEF OrderInv
<1>2. ASSUME NEW m \in Messages, CommitAccept(m) PROVE OrderInv'
  <2> DEFINE q == [row[m] EXCEPT !.status = "open"]
  <2>1. row' = [row EXCEPT ![m] = q] /\ row[m].status = "inserting"
    BY <1>2 DEF CommitAccept
  <2>2. q.status = "open" /\ q.owner = row[m].owner /\ q.before = row[m].before
    BY <1>0 DEF Row
  <2> HIDE DEF q
  <2>3. ASSUME NEW s \in Messages PROVE Arrived(s)'
    BY <1>0, <2>1, <2>2, ArrivedKept DEF Settled
  <2> QED
    BY <2>3 DEF OrderInv
<1>3. ASSUME NEW m \in Messages, AbortAccept(m) PROVE OrderInv'
  <2>1. /\ \A s \in Messages : row'[s] = IF s = m THEN NewRow
                                         ELSE [row[s] EXCEPT !.before = @ \ {m}]
        /\ row[m].status = "inserting"
    BY <1>3 DEF AbortAccept
  <2>2. \A r \in Row : LET q == [r EXCEPT !.before = @ \ {m}]
                       IN  /\ q.status = r.status /\ q.owner = r.owner
                           /\ q.before = r.before \ {m}
    BY DEF Row
  <2>3. \A s \in Messages : s # m => /\ row'[s].status = row[s].status
                                     /\ row'[s].owner = row[s].owner
                                     /\ row'[s].before = row[s].before \ {m}
    BY <1>0, <2>1, <2>2
  <2>4. row'[m].before = {}
    <3>1. NewRow.before = {}
      BY DEF NewRow
    <3>2. row'[m] = NewRow
      BY <2>1
    <3> QED
      BY <3>1, <3>2
  <2>5. ASSUME NEW s \in Messages PROVE Arrived(s)'
    <3>1. CASE s = m
      BY <2>4, <3>1 DEF Arrived
    <3>2. CASE s # m
      <4>1. Arrived(s)
        BY DEF OrderInv
      <4> QED
        BY <2>3, <3>2, <4>1 DEF Arrived, SameConv
    <3> QED
      BY <3>1, <3>2
  <2> QED
    BY <2>5 DEF OrderInv
<1>4. ASSUME NEW w \in Workers, NEW m \in Messages, Step(w, m) PROVE OrderInv'
  <2>1. \A s \in Messages : Releases(row[s], row'[s]) /\ RowStep(row[s], row'[s])
    BY <1>4, StepReleases, StepRowStep DEF AnswerInv
  <2>2. \A s \in Messages : row'[s].status \in {"absent", "inserting"} =>
                              row[s].status \in {"absent", "inserting"}
    BY <1>4, StepAttempts, StepBodies
  <2>3. ASSUME NEW s \in Messages PROVE Arrived(s)'
    BY <2>1, <2>2, ArrivedKept DEF Releases, RowStep
  <2> QED
    BY <2>3 DEF OrderInv
<1>5. ASSUME NEW w \in Workers, NEW batch \in Batches,
             Claim(w, batch) \/ ClaimUnacknowledged(w, batch)
      PROVE  OrderInv'
  BY <1>5, ClaimOrdered DEF Claim, ClaimUnacknowledged
<1>6. CASE Tick
  <2>1. \A r \in Row : /\ Aged(r).status = r.status /\ Aged(r).owner = r.owner
                       /\ Aged(r).before = r.before
    BY DEF Aged, Row
  <2>2. \A s \in Messages : row'[s] = Aged(row[s]) /\ row[s] \in Row
    BY <1>0, <1>6 DEF Tick
  <2>3. ASSUME NEW s \in Messages PROVE Arrived(s)'
    BY <2>1, <2>2, ArrivedKept
  <2> QED
    BY <2>3 DEF OrderInv
<1>7. CASE UNCHANGED row
  <2>1. ASSUME NEW s \in Messages PROVE Arrived(s)'
    BY <1>7, ArrivedKept
  <2> QED
    BY <2>1 DEF OrderInv
<1> QED
  BY <1>1, <1>2, <1>3, <1>4, <1>5, <1>6, <1>7 DEF Next, Crash, vars

-----------------------------------------------------------------------------
(* When attempts end within their lease, a worker keeps the lease of what   *)
(* it works on until its reply is sent.                                     *)
AttemptPCs == {"load", "turn", "persist", "send"}
InHand(w, m) ==
  task[w][m].pc \in AttemptPCs => row[m].owner = w /\ row[m].lease > 0
TimelyInv == \A w \in Workers, m \in Messages : InHand(w, m)

(* A row and a task that a step leaves alone, or a task that is done.       *)
LEMMA InHandKept ==
  ASSUME NEW w \in Workers, NEW m \in Messages, InHand(w, m),
         task'[w][m].pc \in AttemptPCs =>
           /\ task[w][m].pc \in AttemptPCs
           /\ row'[m].owner = row[m].owner /\ row'[m].lease = row[m].lease
  PROVE  InHand(w, m)'
  BY DEF InHand

(* A worker's own step keeps its lease until the reply is sent.             *)
LEMMA OwnStepInHand ==
  ASSUME TypeOK, TimelyInv, NEW w \in Workers, NEW m \in Messages, Step(w, m)
  PROVE  InHand(w, m)'
<1>0. InHand(w, m) /\ row \in [Messages -> Row] /\ row[m] \in Row
  BY DEF TimelyInv, TypeOK
<1>1. CASE Send(w, m)
  <2>1. task'[w][m].pc \in {"complete", "fail"}
    BY <1>1 DEF Send, Goto, Fail, Put, At, TypeOK, Task
  <2> QED
    BY <2>1 DEF InHand, AttemptPCs
<1>2. CASE ~Send(w, m) /\ row' = row
  <2>1. task'[w][m].pc \in AttemptPCs => task[w][m].pc \in AttemptPCs
    BY <1>2, StepSending DEF AttemptPCs, Sending
  <2> QED
    BY <1>0, <1>2, <2>1, InHandKept
<1>3. CASE PersistIntent(w, m) /\ PersistedRow(w, m)
  <2> DEFINE q == [row[m] EXCEPT !.body = task[w][m].reply]
  <2>1. row' = [row EXCEPT ![m] = q] /\ task[w][m].pc = "persist"
    BY <1>3 DEF PersistedRow, PersistIntent
  <2>2. q.owner = row[m].owner /\ q.lease = row[m].lease
    BY <1>0 DEF Row
  <2> HIDE DEF q
  <2>3. row'[m] = q
    BY <1>0, <2>1
  <2> QED
    BY <1>0, <2>1, <2>2, <2>3, InHandKept DEF AttemptPCs
<1>4. CASE Complete(w, m) \/ RecordFailure(w, m)
  <2>1. task[w][m].pc \notin Sending /\ ~Send(w, m)
    BY <1>4 DEF Complete, RecordFailure, Send, Sending
  <2>2. task'[w][m].pc \notin AttemptPCs
    BY <2>1, StepSending DEF AttemptPCs, Sending
  <2> QED
    BY <2>2 DEF InHand
<1>5. \/ Send(w, m) \/ row' = row \/ Complete(w, m) \/ RecordFailure(w, m)
      \/ PersistIntent(w, m) /\ PersistedRow(w, m)
  BY DEF Step, Load, RunTurn, PersistIntent, Notify, SendFallback, AuditFallback
<1> QED
  BY <1>1, <1>2, <1>3, <1>4, <1>5

(* A claim takes no row from a worker that is within its lease.             *)
LEMMA ClaimInHand ==
  ASSUME TypeOK, TimelyInv, NEW w \in Workers, NEW batch \in Batches,
         Claim(w, batch) \/ ClaimUnacknowledged(w, batch),
         NEW v \in Workers, NEW s \in Messages
  PROVE  InHand(v, s)'
<1>0. /\ InHand(v, s) /\ row[s] \in Row /\ task \in [Workers -> [Messages -> Task]]
      /\ \A u \in Workers, n \in Messages : InHand(u, n)
  BY DEF TimelyInv, TypeOK
<1>1. row'[s] = IF s \notin batch THEN row[s]
                ELSE IF Exhausted(s) THEN Terminalized(row[s]) ELSE Leased(w, row[s])
  BY DEF Claim, ClaimUnacknowledged, ClaimRows
<1>2. s \in batch => row[s].owner = NoOwner \/ row[s].lease < 0
  BY DEF Batches, Claimable, LeaseFree
<1>3. s \in batch => task[v][s].pc \notin AttemptPCs
  <2>1. row[s].lease \in Int
    BY <1>0 DEF Row
  <2> QED
    BY <1>0, <1>2, <2>1, OwnerAssumption DEF InHand
<1>4. CASE task'[v][s] = task[v][s]
  BY <1>0, <1>1, <1>3, <1>4, InHandKept
<1>5. CASE v = w /\ Claim(w, batch)
  <2>1. task'[w][s] = IF s \notin batch THEN IdleTask
                      ELSE IF Exhausted(s) THEN Fresh("dead", NoBody)
                      ELSE Fresh("load", PersistedReply(s))
    BY <1>0, <1>5 DEF Claim
  <2>2. CASE s \notin batch \/ Exhausted(s)
    <3>1. task'[w][s].pc \in {"idle", "dead"}
      BY <2>1, <2>2, FreshFields DEF IdleTask
    <3> QED
      BY <1>5, <3>1 DEF InHand, AttemptPCs
  <2>3. CASE s \in batch /\ ~Exhausted(s)
    <3>1. Leased(w, row[s]).owner = w /\ Leased(w, row[s]).lease = Lease
      BY <1>0 DEF Leased, HeldBy, Row
    <3> QED
      BY <1>1, <1>5, <2>3, <3>1, LeaseAssumption DEF InHand
  <2> QED
    BY <2>2, <2>3
<1>6. task'[v][s] = task[v][s] \/ (v = w /\ Claim(w, batch))
  BY <1>0 DEF Claim, ClaimUnacknowledged
<1> QED
  BY <1>4, <1>5, <1>6

(* Every step keeps the leases of those at work.                            *)
LEMMA TimelyStep ==
  ASSUME Timely, TypeOK, AnswerInv, TimelyInv, [Next]_vars
  PROVE  TimelyInv'
<1>0. /\ row \in [Messages -> Row] /\ task \in [Workers -> [Messages -> Task]]
      /\ \A s \in Messages : row[s].status # "open" => row[s].owner = NoOwner
  BY DEF TypeOK, AnswerInv, RowsOK
<1> SUFFICES ASSUME NEW v \in Workers, NEW s \in Messages PROVE InHand(v, s)'
  BY DEF TimelyInv
<1>00. InHand(v, s) /\ row[s] \in Row
  BY <1>0 DEF TimelyInv
<1>1. ASSUME NEW m \in Messages, BeginAccept(m) \/ CommitAccept(m) \/ AbortAccept(m)
      PROVE  InHand(v, s)'
  <2>1. UNCHANGED task /\ row[m].owner = NoOwner
    BY <1>0, <1>1 DEF BeginAccept, CommitAccept, AbortAccept
  <2>2. CASE s = m
    BY <1>00, <2>1, <2>2, InHandKept, OwnerAssumption DEF InHand
  <2>3. CASE s # m
    <3>1. row'[s] = row[s] \/ row'[s] = [row[s] EXCEPT !.before = @ \ {m}]
      BY <1>0, <1>1, <2>3 DEF BeginAccept, CommitAccept, AbortAccept
    <3>2. row'[s].owner = row[s].owner /\ row'[s].lease = row[s].lease
      BY <1>00, <3>1 DEF Row
    <3> QED
      BY <1>00, <2>1, <3>2, InHandKept
  <2> QED
    BY <2>2, <2>3
<1>2. ASSUME NEW w \in Workers, NEW m \in Messages, Step(w, m) PROVE InHand(v, s)'
  <2>1. CASE v = w /\ s = m
    BY <1>2, <2>1, OwnStepInHand
  <2>2. CASE s # m
    BY <1>00, <1>2, <2>2, StepBodies, InHandKept
  <2>3. CASE v # w /\ s = m
    <3>1. task'[v][s] = task[v][s] /\ (row'[s] = row[s] \/ row[s].owner = w)
      BY <1>2, <2>3, StepBodies
    <3> QED
      BY <1>00, <2>3, <3>1, InHandKept DEF InHand
  <2> QED
    BY <2>1, <2>2, <2>3
<1>3. ASSUME NEW w \in Workers, NEW batch \in Batches,
             Claim(w, batch) \/ ClaimUnacknowledged(w, batch)
      PROVE  InHand(v, s)'
  BY <1>3, ClaimInHand
<1>4. ASSUME NEW w \in Workers, Crash(w) PROVE InHand(v, s)'
  <2>1. row' = row /\ (task'[v][s] = IdleTask \/ task'[v][s] = task[v][s])
    BY <1>0, <1>4 DEF Crash
  <2>2. IdleTask.pc = "idle"
    BY FreshFields DEF IdleTask
  <2> QED
    BY <1>00, <2>1, <2>2, InHandKept DEF AttemptPCs
<1>5. CASE Tick
  <2>1. InTime /\ row'[s] = Aged(row[s]) /\ task' = task
    BY <1>5 DEF Tick
  <2>2. task[v][s].pc \in AttemptPCs => row[s].owner = v /\ row[s].lease > 1
    BY <1>00, <2>1 DEF InTime, Working, AttemptPCs, InHand
  <2>3. \A r \in Row : /\ Aged(r).owner = r.owner
                       /\ r.lease > 1 => Aged(r).lease > 0
    BY DEF Aged, Row
  <2> QED
    BY <1>00, <2>1, <2>2, <2>3 DEF InHand
<1>6. CASE UNCHANGED vars
  BY <1>00, <1>6, InHandKept DEF vars
<1> QED
  BY <1>1, <1>2, <1>3, <1>4, <1>5, <1>6 DEF Next

(* Messages of a conversation are served in the order they arrived, one     *)
(* turn and send at a time (pending_outbox_statement, the live lease index  *)
(* and the lease that outlasts an attempt), for any number of workers and   *)
(* conversations, when their accepting transactions do not overlap and      *)
(* attempts end within their lease.                                         *)
THEOREM ServedInArrivalOrder ==
  ASSUME ~Overlap, Timely
  PROVE  Spec => []ServedInOrder
<1>1. Init => OrderInv /\ TimelyInv
  <2> HAVE Init
  <2>1. ASSUME NEW m \in Messages PROVE Arrived(m)
    <3>1. NewRow.before = {}
      BY DEF NewRow
    <3>2. row[m] = NewRow
      BY DEF Init
    <3> QED
      BY <3>1, <3>2 DEF Arrived
  <2>2. ASSUME NEW m \in Messages, NEW w \in Workers PROVE InHand(w, m)
    BY FreshFields DEF Init, IdleTask, InHand, AttemptPCs
  <2> QED
    BY <2>1, <2>2 DEF OrderInv, TimelyInv
<1>2. TypeOK /\ AnswerInv /\ OrderInv /\ TimelyInv /\ [Next]_vars => OrderInv' /\ TimelyInv'
  BY OrderStep, TimelyStep
<1>3. OrderInv /\ TypeOK => ArrivalOrder
  BY DEF OrderInv, Arrived, ArrivalOrder, TypeOK, Row
<1>4. TimelyInv /\ OneLeasePerConversation => OneTurnPerConversation
  <2> SUFFICES ASSUME TimelyInv, OneLeasePerConversation,
                      NEW m \in Messages, NEW s \in Messages, NEW w \in Workers, NEW v \in Workers,
                      Answering(w, m), Answering(v, s), SameConv(m, s)
               PROVE  w = v /\ m = s
    BY DEF OneTurnPerConversation
  <2>1. row[m].owner = w /\ row[s].owner = v
    BY DEF TimelyInv, InHand, Answering, AttemptPCs
  <2> QED
    BY <2>1, OwnerAssumption DEF OneLeasePerConversation
<1> QED
  BY <1>1, <1>2, <1>3, <1>4, AnswersInvariant, ConversationLeasedOnce, PTL
     DEF Spec, ServedInOrder

-----------------------------------------------------------------------------
(* The fence of a lease.                                                    *)

(* A step that changes a row is one of an attempt, and moves it on.         *)
LEMMA StepMovesOn ==
  ASSUME TypeOK, NEW w \in Workers, NEW m \in Messages, Step(w, m), row' # row
  PROVE  Working(w, m) /\ task'[w][m] # task[w][m]
<1>0. task \in [Workers -> [Messages -> Task]] /\ task[w][m] \in Task
  BY DEF TypeOK
<1>1. \/ task[w][m].pc = "persist" /\ \E t : Put(w, m, t) /\ t.pc \in {"send", "fail", "idle"}
      \/ task[w][m].pc = "complete" /\ \E t : Put(w, m, t) /\ t.pc \in {"fail", "idle"}
      \/ task[w][m].pc = "fail" /\ \E t : Put(w, m, t) /\ t.pc \in {"alert", "idle"}
  <2>1. CASE PersistIntent(w, m)
    <3>1. (\E f \in TurnFaults : Fail(w, m, f)) \/ Goto(w, m, "send") \/ Leave(w, m)
      BY <2>1 DEF PersistIntent
    <3>2. At(task[w][m], "send").pc = "send" /\ IdleTask.pc = "idle"
      BY <1>0, FreshFields DEF At, Task, IdleTask
    <3>3. \A f : Fail(w, m, f) => \E t : Put(w, m, t) /\ t.pc = "fail"
      BY DEF Fail
    <3>4. \E t : Put(w, m, t) /\ t.pc \in {"send", "fail", "idle"}
      BY <3>1, <3>2, <3>3 DEF Goto, Leave
    <3> QED
      BY <2>1, <3>4 DEF PersistIntent
  <2>2. CASE Complete(w, m)
    <3>1. Leave(w, m) \/ Fail(w, m, RetryableCondition)
      BY <2>2 DEF Complete
    <3>2. IdleTask.pc = "idle"
      BY FreshFields DEF IdleTask
    <3> QED
      BY <2>2, <3>1, <3>2 DEF Complete, Fail, Leave
  <2>3. CASE RecordFailure(w, m)
    <3>1. Leave(w, m) \/ \E b : Hand(w, m, "alert", b)
      BY <2>3 DEF RecordFailure
    <3>2. IdleTask.pc = "idle" /\ \A b : Fresh("alert", b).pc = "alert"
      BY FreshFields DEF IdleTask, Fresh
    <3> QED
      BY <2>3, <3>1, <3>2 DEF RecordFailure, Hand, Leave
  <2> QED
    BY <2>1, <2>2, <2>3 DEF Step, Load, RunTurn, Send, Notify, SendFallback, AuditFallback
<1>2. \A t : Put(w, m, t) => task'[w][m] = t
  BY <1>0 DEF Put
<1> QED
  BY <1>1, <1>2 DEF Working

(* While a lease has not expired, only its owner's attempt at that row      *)
(* changes it: not a stale worker, not a second claim, not a late           *)
(* acknowledgement, for any number of workers.                              *)
THEOREM LeaseFences == Spec => FencedByLease
<1> DEFINE Kept(m) == /\ row'[m].status = row[m].status /\ row'[m].owner = row[m].owner
                      /\ row'[m].attempts = row[m].attempts /\ row'[m].body = row[m].body
<1>1. ASSUME TypeOK, RowsOK, Next, NEW w \in Workers, NEW m \in Messages,
             row[m].owner = w, row[m].lease >= 0, ~Kept(m)
      PROVE  Working(w, m) /\ task'[w][m] # task[w][m]
  <2>0. row \in [Messages -> Row] /\ row[m] \in Row /\ row[m].status = "open" /\ w # NoOwner
    BY <1>1, OwnerAssumption DEF TypeOK, RowsOK
  <2>1. ASSUME NEW s \in Messages, BeginAccept(s) \/ CommitAccept(s) \/ AbortAccept(s)
        PROVE  Kept(m)
    <3>1. s # m
      BY <2>0, <2>1 DEF BeginAccept, CommitAccept, AbortAccept
    <3>2. row'[m] = row[m] \/ row'[m] = [row[m] EXCEPT !.before = @ \ {s}]
      BY <2>0, <2>1, <3>1 DEF BeginAccept, CommitAccept, AbortAccept
    <3> QED
      BY <2>0, <3>2 DEF Row
  <2>2. ASSUME NEW v \in Workers, NEW batch \in Batches,
               Claim(v, batch) \/ ClaimUnacknowledged(v, batch)
        PROVE  Kept(m)
    <3>1. m \notin batch
      <4>1. ~(row[m].lease < 0)
        BY <1>1, <2>0 DEF Row
      <4> QED
        BY <1>1, <2>0, <4>1 DEF Batches, Claimable, LeaseFree
    <3> QED
      BY <2>0, <2>2, <3>1 DEF Claim, ClaimUnacknowledged, ClaimRows
  <2>3. ASSUME NEW v \in Workers, NEW s \in Messages, Step(v, s)
        PROVE  Working(w, m) /\ task'[w][m] # task[w][m]
    <3>1. row'[m] # row[m]
      BY <1>1
    <3>2. s = m /\ v = w
      BY <1>1, <2>3, <3>1, StepBodies
    <3> QED
      BY <1>1, <2>3, <3>1, <3>2, StepMovesOn
  <2>4. CASE Tick
    <3>1. row'[m] = Aged(row[m])
      BY <2>4 DEF Tick
    <3> QED
      BY <1>1, <2>0, <3>1 DEF Aged, Row
  <2>5. ASSUME NEW v \in Workers, Crash(v) PROVE Kept(m)
    BY <2>5 DEF Crash
  <2> QED
    BY <1>1, <2>1, <2>2, <2>3, <2>4, <2>5 DEF Next
<1>2. TypeOK /\ AnswerInv /\ [Next]_vars =>
        [\A w \in Workers, m \in Messages :
           /\ row[m].owner = w /\ row[m].lease >= 0
           /\ <<row'[m].status, row'[m].owner, row'[m].attempts, row'[m].body>>
                # <<row[m].status, row[m].owner, row[m].attempts, row[m].body>>
           => Working(w, m) /\ task'[w][m] # task[w][m]]_vars
  BY <1>1 DEF AnswerInv
<1> QED
  BY <1>2, AnswersInvariant, PTL DEF Spec, FencedByLease
-----------------------------------------------------------------------------
(* What the operator and the audit are told.                                *)

(* A task that has yet to notify the operator of a durable failure.         *)
Alerting(w, m) == task[w][m].pc \in {"dead", "alert"}

(* A message whose failure is not durable has told the operator nothing and *)
(* nobody is about to; one worker at most will, and only if none has.       *)
AlertGood(m) ==
  /\ alerts[m] <= 1
  /\ row[m].status # "failed" => alerts[m] = 0 /\ \A w \in Workers : ~Alerting(w, m)
  /\ \A w \in Workers : Alerting(w, m) => alerts[m] = 0
  /\ \A w, v \in Workers : Alerting(w, m) /\ Alerting(v, m) => w = v

(* Whoever is about to audit a delivery, or has, speaks of a notice sent.   *)
NoticeGood(m) ==
  /\ \A w \in Workers : task[w][m].pc = "audit_sent" => sends[m][Fallback] = 1
  /\ notice[m] = "delivered" => sends[m][Fallback] = 1

AlertInv == \A m \in Messages : AlertGood(m) /\ NoticeGood(m)

(* Where a worker's step leaves its task: it is about to alert only if it   *)
(* has just made the failure durable, and to audit a delivery only if it    *)
(* has just delivered.                                                      *)
LEMMA StepTask ==
  ASSUME TypeOK, NEW w \in Workers, NEW m \in Messages, Step(w, m)
  PROVE  \E t \in Task : /\ Put(w, m, t)
                         /\ t.pc # "dead"
                         /\ t.pc = "alert" => Open(m) /\ row'[m].status = "failed"
                         /\ t.pc = "audit_sent" => Deliver(m, Fallback)
<1> DEFINE Plain == \E t \in Task : Put(w, m, t) /\ t.pc \notin {"dead", "alert", "audit_sent"}
<1>0. /\ task[w][m] \in Task /\ row[m] \in Row /\ row \in [Messages -> Row]
      /\ task[w][m].fault \in Faults
  BY DEF TypeOK, Task
<1>p. ASSUME NEW t \in Task, Put(w, m, t), t.pc \notin {"dead", "alert", "audit_sent"}
      PROVE Plain
  BY <1>p
<1>l. ASSUME Leave(w, m) PROVE Plain
  <2>1. IdleTask \in Task /\ IdleTask.pc = "idle"
    BY RecordTypes, FreshFields DEF IdleTask
  <2> QED
    BY <1>l, <1>p, <2>1 DEF Leave
<1>f. ASSUME NEW f \in Faults, Fail(w, m, f) PROVE Plain
  <2> DEFINE t == [pc |-> "fail", reply |-> NoBody, fault |-> f]
  <2>1. t \in Task
    BY <1>0, TaskUpdates
  <2>2. t.pc = "fail" /\ Put(w, m, t)
    BY <1>f DEF Fail
  <2> HIDE DEF t
  <2> QED
    BY <1>p, <2>1, <2>2
<1>g. ASSUME NEW pc \in {"turn", "send", "complete", "fallback", "audit_lost"}, Goto(w, m, pc)
      PROVE Plain
  <2>1. pc \in PCs
    BY DEF PCs
  <2>2. At(task[w][m], pc) \in Task /\ At(task[w][m], pc).pc = pc
    BY <1>0, <2>1, TaskUpdates
  <2> QED
    BY <1>g, <1>p, <2>2 DEF Goto
<1>1. CASE Load(w, m)
  BY <1>1, <1>f, <1>g DEF Load, BindingFaults, UnboundFaults
<1>2. CASE RunTurn(w, m)
  <2>1. ASSUME NEW r \in Replies, Hand(w, m, "persist", r) PROVE Plain
    <3>1. "persist" \in PCs /\ r \in Bodies \cup {NoBody}
      BY DEF PCs, Bodies
    <3>2. Fresh("persist", r) \in Task /\ Fresh("persist", r).pc = "persist"
      BY <1>0, <3>1, TaskUpdates, FreshFields
    <3> QED
      BY <1>p, <2>1, <3>2 DEF Hand
  <2> QED
    BY <1>2, <1>f, <1>g, <2>1 DEF RunTurn, TurnFaults
<1>3. CASE PersistIntent(w, m)
  BY <1>3, <1>f, <1>g, <1>l DEF PersistIntent, TurnFaults
<1>4. CASE Send(w, m)
  BY <1>4, <1>f, <1>g DEF Send, BindingFaults
<1>5. CASE Complete(w, m)
  BY <1>5, <1>f, <1>l, RecordTypes DEF Complete
<1>6. CASE RecordFailure(w, m)
  <2> DEFINE f == task[w][m].fault
             b == IF FallbackDue(m, f) THEN Fallback ELSE NoBody
  <2>1. CASE LiveLease(w, m) /\ FailedRow(m, f) /\ Terminal(m, f) /\ Hand(w, m, "alert", b)
    <3>1. row'[m].status = "failed"
      BY <1>0, <2>1, FailedRowEffect
    <3>2. "alert" \in PCs /\ b \in Bodies \cup {NoBody}
      BY DEF PCs, Bodies
    <3>3. Fresh("alert", b) \in Task /\ Fresh("alert", b).pc = "alert"
      BY <1>0, <3>2, TaskUpdates, FreshFields
    <3> QED
      BY <2>1, <3>1, <3>3 DEF Hand, LiveLease
  <2>2. CASE Leave(w, m)
    BY <2>2, <1>l
  <2> QED
    BY <1>6, <2>1, <2>2 DEF RecordFailure
<1>7. CASE Notify(w, m)
  BY <1>7, <1>g, <1>l DEF Notify
<1>8. CASE SendFallback(w, m)
  <2>1. CASE Deliver(m, Fallback) /\ Goto(w, m, "audit_sent")
    <3>1. "audit_sent" \in PCs
      BY DEF PCs
    <3>2. At(task[w][m], "audit_sent") \in Task /\ At(task[w][m], "audit_sent").pc = "audit_sent"
      BY <1>0, <3>1, TaskUpdates
    <3> QED
      BY <2>1, <3>2 DEF Goto
  <2>2. CASE Goto(w, m, "audit_lost")
    BY <2>2, <1>g
  <2> QED
    BY <1>8, <2>1, <2>2 DEF SendFallback
<1>9. CASE AuditFallback(w, m)
  BY <1>9, <1>l DEF AuditFallback
<1> QED
  BY <1>1, <1>2, <1>3, <1>4, <1>5, <1>6, <1>7, <1>8, <1>9 DEF Step

(* How one step bears on the alerts of a message: it leaves them be; or it  *)
(* makes an open row's failure durable, for one worker to tell; or a worker *)
(* that was to tell the operator does.                                      *)
LEMMA AlertStep ==
  ASSUME TypeOK, [Next]_vars, NEW m \in Messages
  PROVE  \/ /\ alerts'[m] = alerts[m]
            /\ \A v \in Workers : Alerting(v, m)' => Alerting(v, m)
         \/ /\ alerts'[m] = alerts[m]
            /\ Open(m) /\ row'[m].status = "failed"
            /\ \E w \in Workers : \A v \in Workers : v # w /\ Alerting(v, m)' => Alerting(v, m)
         \/ /\ alerts'[m] = alerts[m] + 1
            /\ \E w \in Workers : Alerting(w, m) /\ ~Alerting(w, m)'
            /\ \A v \in Workers : Alerting(v, m)' => Alerting(v, m)
<1>0. /\ task \in [Workers -> [Messages -> Task]] /\ alerts \in [Messages -> Nat]
      /\ row \in [Messages -> Row]
  BY DEF TypeOK
<1>1. CASE UNCHANGED <<task, alerts>>
  BY <1>1 DEF Alerting
<1>2. ASSUME NEW w \in Workers, NEW batch \in Batches, Claim(w, batch)
      PROVE  /\ alerts' = alerts
             /\ \A v \in Workers : v # w => task'[v] = task[v]
             /\ \/ ~Alerting(w, m)'
                \/ Open(m) /\ row'[m].status = "failed"
  <2>1. /\ alerts' = alerts
        /\ \A v \in Workers : v # w => task'[v] = task[v]
        /\ task'[w][m] = IF m \notin batch THEN IdleTask
                         ELSE IF Exhausted(m) THEN Fresh("dead", NoBody)
                         ELSE Fresh("load", PersistedReply(m))
    BY <1>0, <1>2 DEF Claim
  <2>2. CASE m \in batch /\ Exhausted(m)
    <3>1. Open(m) /\ row'[m] = Terminalized(row[m])
      BY <1>2, <2>2 DEF Batches, Claimable, Claim, ClaimRows
    <3>2. Terminalized(row[m]).status = "failed"
      BY <1>0 DEF Terminalized, Unleased, HeldBy, Row
    <3> QED
      BY <2>1, <3>1, <3>2
  <2>3. CASE ~(m \in batch /\ Exhausted(m))
    <3>1. task'[w][m].pc \in {"idle", "load"}
      BY <2>1, <2>3, FreshFields DEF IdleTask
    <3> QED
      BY <2>1, <3>1 DEF Alerting
  <2> QED
    BY <2>2, <2>3
<1>3. ASSUME NEW w \in Workers, NEW s \in Messages, Step(w, s), s # m
      PROVE  /\ alerts'[m] = alerts[m]
             /\ \A v \in Workers : task'[v][m] = task[v][m]
  <2>1. \A v \in Workers : task'[v][m] = task[v][m]
    BY <1>0, <1>3, StepTask, PutEffect
  <2>2. alerts' = alerts \/ alerts' = [alerts EXCEPT ![s] = @ + 1]
    BY <1>3 DEF Step, Load, RunTurn, PersistIntent, Send, Complete, RecordFailure,
       Notify, SendFallback, AuditFallback
  <2> QED
    BY <1>0, <1>3, <2>1, <2>2
<1>4. ASSUME NEW w \in Workers, Step(w, m)
      PROVE  /\ \A v \in Workers : v # w => task'[v][m] = task[v][m]
             /\ Alerting(w, m)' => Open(m) /\ row'[m].status = "failed" /\ alerts' = alerts
             /\ \/ alerts' = alerts
                \/ alerts'[m] = alerts[m] + 1 /\ Alerting(w, m) /\ ~Alerting(w, m)'
  <2>1. PICK t \in Task : /\ Put(w, m, t) /\ t.pc # "dead"
                          /\ t.pc = "alert" => Open(m) /\ row'[m].status = "failed"
    BY <1>4, StepTask
  <2>2. task'[w][m] = t /\ \A v \in Workers : v # w => task'[v][m] = task[v][m]
    BY <1>0, <2>1, PutEffect
  <2>3. alerts' = alerts
        \/ /\ alerts'[m] = alerts[m] + 1 /\ UNCHANGED row /\ Alerting(w, m)
           /\ ~(Open(m) /\ row'[m].status = "failed")
    BY <1>0, <1>4 DEF Step, Load, RunTurn, PersistIntent, Send, Complete, RecordFailure,
       Notify, SendFallback, AuditFallback, Alerting, Open
  <2> QED
    BY <2>1, <2>2, <2>3 DEF Alerting
<1>5. ASSUME NEW w \in Workers, Crash(w)
      PROVE  /\ alerts' = alerts /\ ~Alerting(w, m)'
             /\ \A v \in Workers : v # w => task'[v] = task[v]
  BY <1>0, <1>5, FreshFields DEF Crash, IdleTask, Alerting
<1>6. CASE \E w \in Workers, batch \in Batches : Claim(w, batch)
  BY <1>2, <1>6 DEF Alerting
<1>7. CASE \E w \in Workers, s \in Messages : Step(w, s)
  BY <1>3, <1>4, <1>7 DEF Alerting
<1>8. CASE \E w \in Workers : Crash(w)
  BY <1>5, <1>8 DEF Alerting
<1> QED
  BY <1>1, <1>6, <1>7, <1>8 DEF Next, vars, BeginAccept, CommitAccept, AbortAccept,
     ClaimUnacknowledged, Tick

(* A step keeps what is known of the alerts of a message.                   *)
LEMMA AlertGoodStep ==
  ASSUME TypeOK, AnswerInv, [Next]_vars, NEW m \in Messages, AlertGood(m)
  PROVE  AlertGood(m)'
<1>0. alerts[m] \in Nat /\ (row[m].status = "failed" => row'[m].status = "failed")
  BY NextRowStep DEF TypeOK, AnswerInv, RowStep, Settled
<1>1. CASE /\ alerts'[m] = alerts[m]
           /\ \A v \in Workers : Alerting(v, m)' => Alerting(v, m)
  BY <1>0, <1>1 DEF AlertGood
<1>2. CASE /\ alerts'[m] = alerts[m]
           /\ Open(m) /\ row'[m].status = "failed"
           /\ \E w \in Workers : \A v \in Workers : v # w /\ Alerting(v, m)' => Alerting(v, m)
  <2>1. alerts[m] = 0 /\ \A v \in Workers : ~Alerting(v, m)
    BY <1>2 DEF AlertGood, Open
  <2> QED
    BY <1>2, <2>1 DEF AlertGood
<1>3. CASE /\ alerts'[m] = alerts[m] + 1
           /\ \E w \in Workers : Alerting(w, m) /\ ~Alerting(w, m)'
           /\ \A v \in Workers : Alerting(v, m)' => Alerting(v, m)
  <2>1. PICK w \in Workers : Alerting(w, m) /\ ~Alerting(w, m)'
    BY <1>3
  <2>2. alerts[m] = 0 /\ row[m].status = "failed" /\ \A v \in Workers : ~Alerting(v, m)'
    BY <1>3, <2>1 DEF AlertGood
  <2> QED
    BY <1>0, <1>3, <2>2 DEF AlertGood
<1> QED
  BY <1>1, <1>2, <1>3, AlertStep

(* A step audits the delivery of a fallback notice only after its send.     *)
LEMMA NoticeGoodStep ==
  ASSUME TypeOK, AnswerInv, [Next]_vars, NEW m \in Messages, NoticeGood(m)
  PROVE  NoticeGood(m)'
<1>0. /\ task \in [Workers -> [Messages -> Task]] /\ notice \in [Messages -> {"none", "delivered", "lost"}]
      /\ sends \in [Messages -> [Bodies -> Nat]] /\ Fallback \in Bodies
  BY DEF TypeOK, Bodies
<1>1. sends'[m][Fallback] \in Nat /\ sends'[m][Fallback] <= 1
  BY <1>0, AnswerInvStep, NextTyped DEF AnswerInv, FallbackOnce, TypeOK
<1>2. sends[m][Fallback] = 1 => sends'[m][Fallback] = 1
  BY <1>0, <1>1, SendsStep DEF Deliver
<1>3. Deliver(m, Fallback) => sends'[m][Fallback] = 1
  BY <1>0, <1>1 DEF Deliver
<1>4. ASSUME NEW v \in Workers, task'[v][m].pc = "audit_sent"
      PROVE  task[v][m].pc = "audit_sent" \/ Deliver(m, Fallback)
  <2>1. ASSUME NEW w \in Workers, NEW s \in Messages, Step(w, s)
        PROVE  task[v][m].pc = "audit_sent" \/ Deliver(m, Fallback)
    BY <1>0, <1>4, <2>1, StepTask, PutEffect
  <2>2. ASSUME NEW w \in Workers, NEW batch \in Batches, Claim(w, batch)
        PROVE  task[v][m].pc = "audit_sent"
    BY <1>0, <1>4, <2>2, FreshFields DEF Claim, IdleTask
  <2>3. ASSUME NEW w \in Workers, Crash(w) PROVE task[v][m].pc = "audit_sent"
    BY <1>0, <1>4, <2>3, FreshFields DEF Crash, IdleTask
  <2> QED
    BY <1>4, <2>1, <2>2, <2>3 DEF Next, vars, BeginAccept, CommitAccept, AbortAccept,
       ClaimUnacknowledged, Tick
<1>5. ASSUME notice'[m] = "delivered"
      PROVE  notice[m] = "delivered" \/ \E w \in Workers : task[w][m].pc = "audit_sent"
  <2>1. ASSUME NEW w \in Workers, NEW s \in Messages, Step(w, s)
        PROVE  UNCHANGED notice \/ AuditFallback(w, s)
    BY <2>1 DEF Step, Load, RunTurn, PersistIntent, Send, Complete, RecordFailure,
       Notify, SendFallback
  <2>2. UNCHANGED notice \/ \E w \in Workers, s \in Messages : Step(w, s)
    BY DEF Next, vars, BeginAccept, CommitAccept, AbortAccept, Claim,
       ClaimUnacknowledged, Crash, Tick
  <2> QED
    BY <1>0, <1>5, <2>1, <2>2 DEF AuditFallback
<1> QED
  BY <1>2, <1>3, <1>4, <1>5 DEF NoticeGood

(* The operator is told of a message at most once, and only of a failure    *)
(* that is durable (the terminal outcome commits before                     *)
(* _notify_terminal_failure runs), and record_fallback_delivery never       *)
(* claims a delivery that did not happen, whatever crashes or is claimed    *)
(* twice, for any number of workers and messages.                           *)
THEOREM AlertsAndNoticesAreTrue == Spec => []AlertsAreTrue
<1>1. Init => AlertInv
  <2>1. IdleTask.pc = "idle"
    BY FreshFields DEF IdleTask
  <2> QED
    BY <2>1 DEF Init, AlertInv, AlertGood, NoticeGood, Alerting
<1>2. TypeOK /\ AnswerInv /\ AlertInv /\ [Next]_vars => AlertInv'
  BY AlertGoodStep, NoticeGoodStep DEF AlertInv
<1>3. TypeOK /\ AlertInv => AlertsAreTrue
  BY DEF AlertInv, AlertGood, NoticeGood, AlertsAreTrue, TypeOK
<1> QED
  BY <1>1, <1>2, <1>3, AnswersInvariant, PTL DEF Spec
=============================================================================

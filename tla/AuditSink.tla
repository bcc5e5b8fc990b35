----------------------------- MODULE AuditSink -----------------------------
(***************************************************************************)
(* The audit trail (audit/sink.py, harness/injector.py): every process has *)
(* one sink, a bounded queue and one drainer that writes batches.  A batch *)
(* reserves, per correlation, a range of a counter that all processes      *)
(* share, and commits with its rows in one transaction.  Nobody waits for  *)
(* the sink: what it cannot write it counts as dropped.                    *)
(***************************************************************************)
EXTENDS Integers, FiniteSets, Sequences

CONSTANTS
  Processes,
  Events,        \* the events the processes emit, in the order of emission
  HomeOf, CorrOf,\* the process and the correlation of each event
  Free,          \* no process
  Capacity,      \* maxsize of the queue
  BatchMax       \* 50 in the code

Correlations == {CorrOf[e] : e \in Events}

ASSUME AuditAssumption ==
  /\ IsFiniteSet(Processes) /\ Events \subseteq Nat /\ HomeOf \in [Events -> Processes]
  /\ \A e \in Events : CorrOf[e] \in Nat
  /\ Free \notin Processes /\ Capacity \in Nat \ {0} /\ BatchMax \in Nat \ {0}

VARIABLES
  sink,      \* each process's sink and drainer
  seen,      \* the events this sink was asked to record
  emitted,   \* all events emitted so far
  table,     \* audit_event: the sequence of each event written
  counter,   \* audit_sequence, as committed
  holder     \* the process that has the row of a correlation locked

vars == <<sink, seen, emitted, table, counter, holder>>

Sink == [life : {"off", "up", "stopping"},
         pc : {"get", "reserve", "commit", "done"},
         queue : Seq(Events), pending : Seq(Events),
         closed : BOOLEAN, dropped : Nat]

NewSink == [life |-> "off", pc |-> "get", queue |-> <<>>, pending |-> <<>>,
            closed |-> FALSE, dropped |-> 0]

Init ==
  /\ sink = [p \in Processes |-> NewSink]
  /\ seen = [p \in Processes |-> {}]
  /\ emitted = {}
  /\ table = <<>>
  /\ counter = [c \in Correlations |-> 0]
  /\ holder = [c \in Correlations |-> Free]

In(q) == {q[i] : i \in DOMAIN q}
Put(p, s) == sink' = [sink EXCEPT ![p] = s]
Counting(s, n) == [s EXCEPT !.dropped = @ + n]
Shutdown(p) == sink[p].life = "stopping"

-----------------------------------------------------------------------------
(* start and set_current.                                                   *)
Start(p) ==
  /\ sink[p].life = "off"
  /\ Put(p, [NewSink EXCEPT !.life = "up"])
  /\ seen' = [seen EXCEPT ![p] = {}]
  /\ UNCHANGED <<emitted, table, counter, holder>>

(* record: accepted until the sink is closed, unless the queue is full.     *)
AcceptedAlways(s, e) ==
  IF Len(s.queue) < Capacity THEN [s EXCEPT !.queue = Append(@, e)] ELSE Counting(s, 1)
AcceptedOverfull(s, e) ==
  IF ~s.closed /\ Len(s.queue) <= Capacity THEN [s EXCEPT !.queue = Append(@, e)]
                                           ELSE Counting(s, 1)
Accepted(s, e) ==
  IF ~s.closed /\ Len(s.queue) < Capacity THEN [s EXCEPT !.queue = Append(@, e)]
                                          ELSE Counting(s, 1)

Record(p, e) ==
  /\ sink[p].life # "off"
  /\ HomeOf[e] = p /\ e \notin emitted
  /\ \A d \in Events : HomeOf[d] = p /\ d < e => d \in emitted
  /\ Put(p, Accepted(sink[p], e))
  /\ seen' = [seen EXCEPT ![p] = @ \cup {e}]
  /\ emitted' = emitted \cup {e}
  /\ UNCHANGED <<table, counter, holder>>

-----------------------------------------------------------------------------
(* The drainer.  Between the test of its loop and its next await nothing    *)
(* else runs: it waits for an event again, or closes the sink and sweeps    *)
(* the queue into the last batch.                                           *)
Loop(s) ==
  IF s.life = "up" THEN [s EXCEPT !.pc = "get"]
  ELSE LET swept == s.pending \o s.queue IN
       [s EXCEPT !.closed = TRUE, !.queue = <<>>, !.pending = swept,
                 !.pc = IF swept = <<>> THEN "done" ELSE "reserve"]

(* A batch is flushed when it is full, or when it is old enough.            *)
FlushWhenFull(s) ==
  {IF Len(s.pending) >= BatchMax THEN [s EXCEPT !.pc = "reserve"] ELSE Loop(s)}
FlushOrLoop(s) ==
  {t \in {[s EXCEPT !.pc = "reserve"], Loop(s)} :
     /\ Len(s.pending) >= BatchMax => t.pc = "reserve" /\ ~t.closed
     /\ s.pending = <<>> => t = Loop(s)}

Get(p) ==
  /\ sink[p].life # "off" /\ sink[p].pc = "get"
  /\ \E s \in FlushOrLoop(IF sink[p].queue = <<>> THEN sink[p]
                          ELSE [sink[p] EXCEPT !.queue = Tail(@),
                                               !.pending = Append(@, Head(sink[p].queue))]) :
       Put(p, s)
  /\ UNCHANGED <<seen, emitted, table, counter, holder>>

(* _reserve_sequences: one upsert per correlation, in sorted order.  It     *)
(* waits for a row that another transaction has locked.                     *)
Wanted(p) == {CorrOf[e] : e \in In(sink[p].pending)} \ {c \in Correlations : holder[c] = p}

QueueOrder(p) ==
  LET q == sink[p].pending
      i == CHOOSE i \in DOMAIN q : CorrOf[q[i]] \in Wanted(p)
                                   /\ \A j \in 1 .. i - 1 : CorrOf[q[j]] \notin Wanted(p)
  IN CorrOf[q[i]]
NextRow(p) == CHOOSE c \in Wanted(p) : \A d \in Wanted(p) : c <= d

Reserve(p) ==
  /\ sink[p].life # "off" /\ sink[p].pc = "reserve"
  /\ LET c == NextRow(p) IN
       /\ holder[c] = Free
       /\ holder' = [holder EXCEPT ![c] = p]
       /\ Put(p, IF Wanted(p) = {c} THEN [sink[p] EXCEPT !.pc = "commit"] ELSE sink[p])
  /\ UNCHANGED <<seen, emitted, table, counter>>

(* The transaction ends: the rows of the batch appear with the sequences    *)
(* they reserved, or none does.                                             *)
RowsCountedDown(p) ==
  LET q == sink[p].pending
      Nth(i) == Cardinality({j \in i .. Len(q) : CorrOf[q[j]] = CorrOf[q[i]]})
  IN [i \in DOMAIN q |-> [event |-> q[i], seq |-> counter[CorrOf[q[i]]] + Nth(i)]]
Rows(p) ==
  LET q == sink[p].pending
      Nth(i) == Cardinality({j \in 1 .. i : CorrOf[q[j]] = CorrOf[q[i]]})
  IN [i \in DOMAIN q |-> [event |-> q[i], seq |-> counter[CorrOf[q[i]]] + Nth(i)]]

Release(p) == holder' = [c \in Correlations |-> IF holder[c] = p THEN Free ELSE holder[c]]
Land(p) ==
  /\ table' = table \o Rows(p)
  /\ counter' = [c \in Correlations |->
       counter[c] + Cardinality({i \in DOMAIN sink[p].pending : CorrOf[sink[p].pending[i]] = c})]
RollBackRows(p) ==
  /\ UNCHANGED table
  /\ counter' = [c \in Correlations |->
       counter[c] + Cardinality({i \in DOMAIN sink[p].pending :
                                   CorrOf[sink[p].pending[i]] = c /\ holder[c] = p})]
RollBack(p) == UNCHANGED <<table, counter>>

Flushed(s) ==
  IF s.closed THEN [s EXCEPT !.pending = <<>>, !.pc = "done"]
              ELSE Loop([s EXCEPT !.pending = <<>>])

(* The commit is acknowledged, or it raises although it may have landed.    *)
FailureUncounted(s) == Flushed(s)
FailureCounted(s) == Flushed(Counting(s, Len(s.pending)))

Commit(p) ==
  /\ sink[p].life # "off" /\ sink[p].pc = "commit"
  /\ Land(p)
  /\ Release(p)
  /\ \/ Put(p, Flushed(sink[p]))
     \/ Put(p, FailureCounted(sink[p]))
  /\ UNCHANGED <<seen, emitted>>

FlushFails(p) ==
  /\ sink[p].life # "off" /\ sink[p].pc \in {"reserve", "commit"}
  /\ RollBack(p)
  /\ Release(p)
  /\ Put(p, FailureCounted(sink[p]))
  /\ UNCHANGED <<seen, emitted>>

-----------------------------------------------------------------------------
(* stop: the drainer is told to finish and awaited, up to a timeout.        *)
BeginStop(p) ==
  /\ sink[p].life = "up"
  /\ Put(p, [sink[p] EXCEPT !.life = "stopping"])
  /\ UNCHANGED <<seen, emitted, table, counter, holder>>

Leftover(s) == Len(s.pending) + Len(s.queue)
Closed(s) == [Counting(s, Leftover(s)) EXCEPT !.closed = TRUE, !.pc = "done",
                                             !.queue = <<>>, !.pending = <<>>]

(* It ends, and clear_current unregisters it: nothing is recorded after it. *)
EndStop(p) ==
  /\ Shutdown(p) /\ sink[p].pc = "done"
  /\ Put(p, [Closed(sink[p]) EXCEPT !.life = "off"])
  /\ UNCHANGED <<seen, emitted, table, counter, holder>>

(* On a timeout the drainer is cancelled where it stands; a commit it was   *)
(* waiting for lands or not.                                                *)
MayLand(p) == RollBack(p) \/ (sink[p].pc = "commit" /\ Land(p))

StopTimesOut(p) ==
  /\ Shutdown(p) /\ sink[p].pc # "done"
  /\ MayLand(p)
  /\ Release(p)
  /\ Put(p, Closed(sink[p]))
  /\ UNCHANGED <<seen, emitted>>

(* The process dies.                                                        *)
Crash(p) ==
  /\ sink[p].life # "off"
  /\ MayLand(p)
  /\ Release(p)
  /\ Put(p, NewSink)
  /\ seen' = [seen EXCEPT ![p] = {}]
  /\ UNCHANGED emitted

Drain(p) == Get(p) \/ Reserve(p) \/ Commit(p) \/ FlushFails(p)

Next == \E p \in Processes :
  \/ Start(p) \/ BeginStop(p) \/ EndStop(p) \/ StopTimesOut(p) \/ Crash(p)
  \/ \E e \in Events : Record(p, e)
  \/ Drain(p)

Spec == Init /\ [][Next]_vars

(* The event loop runs its ready tasks, and PostgreSQL serves the rows it   *)
(* locks to those waiting for them.                                         *)
Fairness == \A p \in Processes :
  /\ WF_vars(Get(p) \/ Commit(p) \/ FlushFails(p) \/ EndStop(p))
  /\ SF_vars(Reserve(p))
FairSpec == Spec /\ Fairness

-----------------------------------------------------------------------------
(* Type correctness of the sinks, the table, the counters and the locks.    *)
TypeOK ==
  /\ sink \in [Processes -> Sink]
  /\ \A p \in Processes : Len(sink[p].queue) <= Capacity
  /\ seen \in [Processes -> SUBSET Events] /\ emitted \subseteq Events
  /\ table \in Seq([event : Events, seq : Nat])
  /\ counter \in [Correlations -> Nat]
  /\ holder \in [Correlations -> Processes \cup {Free}]

Written(c) == {i \in DOMAIN table : CorrOf[table[i].event] = c}

(* "Safe across N worker processes", and "a failed batch releases its       *)
(* reserved numbers for free": the sequences of a correlation are 1 .. n,   *)
(* each given once.                                                         *)
SequencesGapless ==
  \A c \in Correlations :
    /\ {table[i].seq : i \in Written(c)} = 1 .. counter[c]
    /\ Cardinality(Written(c)) = counter[c]

(* "Per-correlation event order is preserved", over batches, failures and   *)
(* restarts of the process that emitted the events.                         *)
OrderKept ==
  \A i, j \in DOMAIN table :
    LET a == table[i].event
        b == table[j].event
    IN HomeOf[a] = HomeOf[b] /\ CorrOf[a] = CorrOf[b] /\ a < b => table[i].seq < table[j].seq

(* The trail of a request can be read back in the order things happened.    *)
TrailInOrder == SequencesGapless /\ OrderKept

(* No event is lost silently: what a sink was given and is neither written  *)
(* nor still in its hands is in its dropped_count.                          *)
Missing(p) == seen[p] \ ({table[i].event : i \in DOMAIN table}
                         \cup In(sink[p].queue) \cup In(sink[p].pending))
LossCounted == \A p \in Processes : Cardinality(Missing(p)) <= sink[p].dropped

(* "Every event record() accepted is in this final batch": nothing is left  *)
(* in a queue that nobody will read again.                                  *)
NothingStranded ==
  \A p \in Processes : sink[p].closed => sink[p].queue = <<>>

(* "A later flush queues behind an earlier one instead of forming a cycle": *)
(* among any processes there is one that waits for none of them.            *)
WaitsFor(p, q) == sink[p].pc = "reserve" /\ sink[p].life # "off" /\ holder[NextRow(p)] = q
NoLockCycle ==
  \A S \in (SUBSET Processes) \ {{}} : \E p \in S : \A q \in S : ~WaitsFor(p, q)

(* Every event handed to a sink is written or given up, while the process   *)
(* lives: no batch waits for ever.                                          *)
Held(p) == In(sink[p].queue) \cup In(sink[p].pending)
EveryEventLeaves ==
  \A e \in Events : (e \in Held(HomeOf[e])) ~> (e \notin Held(HomeOf[e]))
=============================================================================

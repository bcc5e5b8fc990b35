-------------------------- MODULE AuditSinkProofs --------------------------
(***************************************************************************)
(* Theorems about AuditSink for any processes, correlations and events, any *)
(* queue and batch sizes.                                                   *)
(***************************************************************************)
EXTENDS AuditSink, FiniteSetTheorems, WellFoundedInduction, TLAPS

(* Sequences of events.  Inc: as they were emitted.                         *)
Inc(q) == \A i, j \in DOMAIN q : i < j => q[i] < q[j]

LEMMA NumberedEvents == Events \subseteq Nat /\ \A e \in Events : CorrOf[e] \in Correlations
  BY AuditAssumption DEF Correlations

LEMMA AppendEvent ==
  ASSUME NEW q \in Seq(Events), NEW e \in Events
  PROVE  /\ Append(q, e) \in Seq(Events) /\ Len(Append(q, e)) = Len(q) + 1
         /\ In(Append(q, e)) = In(q) \cup {e}
         /\ Inc(q) /\ (\A d \in In(q) : d < e) => Inc(Append(q, e))
<1> DEFINE r == Append(q, e)
<1>1. /\ r \in Seq(Events) /\ Len(r) = Len(q) + 1 /\ DOMAIN r = 1 .. Len(q) + 1
      /\ DOMAIN q = 1 .. Len(q) /\ Len(q) \in Nat
      /\ \A i \in 1 .. Len(q) : r[i] = q[i]
      /\ r[Len(q) + 1] = e
  OBVIOUS
<1> HIDE DEF r
<1>2. \A i \in DOMAIN r : i \in DOMAIN q \/ i = Len(q) + 1
  BY <1>1
<1>3. In(r) = In(q) \cup {e}
  <2>1. In(r) \subseteq In(q) \cup {e}
    BY <1>1, <1>2 DEF In
  <2>2. In(q) \cup {e} \subseteq In(r)
    BY <1>1 DEF In
  <2> QED
    BY <2>1, <2>2
<1>4. ASSUME Inc(q), \A d \in In(q) : d < e PROVE Inc(r)
  BY <1>1, <1>2, <1>4 DEF Inc, In
<1> QED
  BY <1>1, <1>3, <1>4 DEF r

LEMMA TailEvents ==
  ASSUME NEW q \in Seq(Events), q # <<>>
  PROVE  /\ Tail(q) \in Seq(Events) /\ Head(q) \in Events /\ Len(Tail(q)) = Len(q) - 1
         /\ In(q) = {Head(q)} \cup In(Tail(q))
         /\ Inc(q) => Inc(Tail(q)) /\ \A d \in In(Tail(q)) : Head(q) < d
<1> DEFINE r == Tail(q)
<1>1. /\ r \in Seq(Events) /\ Head(q) \in Events /\ Len(r) = Len(q) - 1 /\ DOMAIN r = 1 .. Len(q) - 1
      /\ DOMAIN q = 1 .. Len(q) /\ Len(q) \in Nat /\ Len(q) > 0
      /\ \A i \in 1 .. Len(q) - 1 : r[i] = q[i + 1]
      /\ q[1] = Head(q)
  OBVIOUS
<1> HIDE DEF r
<1>2. In(q) = {Head(q)} \cup In(r)
  <2>1. \A i \in DOMAIN q : i = 1 \/ (i - 1 \in DOMAIN r /\ r[i - 1] = q[i])
    BY <1>1
  <2>2. \A i \in DOMAIN r : i + 1 \in DOMAIN q /\ r[i] = q[i + 1]
    BY <1>1
  <2>3. In(q) \subseteq {Head(q)} \cup In(r)
    BY <1>1, <2>1 DEF In
  <2>4. {Head(q)} \cup In(r) \subseteq In(q)
    BY <1>1, <2>2 DEF In
  <2> QED
    BY <2>3, <2>4
<1>3. ASSUME Inc(q) PROVE Inc(r) /\ \A d \in In(r) : Head(q) < d
  <2>1. \A i \in DOMAIN r : i + 1 \in DOMAIN q /\ r[i] = q[i + 1] /\ 1 < i + 1
    BY <1>1
  <2>2. ASSUME NEW i \in DOMAIN r, NEW j \in DOMAIN r, i < j PROVE r[i] < r[j]
    <3>1. i + 1 < j + 1
      BY <1>1, <2>2
    <3> QED
      BY <1>3, <2>1, <3>1 DEF Inc
  <2>3. ASSUME NEW i \in DOMAIN r PROVE q[1] < r[i]
    <3>1. 1 \in DOMAIN q
      BY <1>1
    <3> QED
      BY <1>3, <2>1, <3>1 DEF Inc
  <2> QED
    BY <1>1, <2>2, <2>3 DEF Inc, In
<1> QED
  BY <1>1, <1>2, <1>3 DEF r

LEMMA ConcatEvents ==
  ASSUME NEW q \in Seq(Events), NEW r \in Seq(Events)
  PROVE  /\ q \o r \in Seq(Events) /\ Len(q \o r) = Len(q) + Len(r)
         /\ In(q \o r) = In(q) \cup In(r)
         /\ Inc(q) /\ Inc(r) /\ (\A a \in In(q), b \in In(r) : a < b) => Inc(q \o r)
<1> DEFINE c == q \o r
<1>1. /\ c \in Seq(Events) /\ Len(c) = Len(q) + Len(r) /\ DOMAIN c = 1 .. Len(q) + Len(r)
      /\ DOMAIN q = 1 .. Len(q) /\ DOMAIN r = 1 .. Len(r) /\ Len(q) \in Nat /\ Len(r) \in Nat
      /\ \A i \in 1 .. Len(q) : c[i] = q[i]
      /\ \A i \in Len(q) + 1 .. Len(q) + Len(r) : c[i] = r[i - Len(q)]
  OBVIOUS
<1> HIDE DEF c
<1>2. /\ \A i \in DOMAIN c : i \in DOMAIN q \/ i - Len(q) \in DOMAIN r
      /\ \A i \in DOMAIN r : i + Len(q) \in DOMAIN c /\ c[i + Len(q)] = r[i]
      /\ \A i \in DOMAIN q : i \in DOMAIN c
      /\ \A i \in DOMAIN c : i - Len(q) \in DOMAIN r => c[i] = r[i - Len(q)]
  <2>1. \A i \in DOMAIN c : i \in DOMAIN q \/ i - Len(q) \in DOMAIN r
    BY <1>1
  <2>2. ASSUME NEW i \in DOMAIN r PROVE i + Len(q) \in DOMAIN c /\ c[i + Len(q)] = r[i]
    <3>1. i + Len(q) \in Len(q) + 1 .. Len(q) + Len(r) /\ (i + Len(q)) - Len(q) = i
      BY <1>1
    <3> QED
      BY <1>1, <3>1
  <2>3. \A i \in DOMAIN q : i \in DOMAIN c
    BY <1>1
  <2>4. ASSUME NEW i \in DOMAIN c, i - Len(q) \in DOMAIN r PROVE c[i] = r[i - Len(q)]
    BY <1>1, <2>4
  <2> QED
    BY <2>1, <2>2, <2>3, <2>4
<1>3. In(c) = In(q) \cup In(r)
  <2>1. In(c) \subseteq In(q) \cup In(r)
    BY <1>1, <1>2 DEF In
  <2>2. In(q) \cup In(r) \subseteq In(c)
    BY <1>1, <1>2 DEF In
  <2> QED
    BY <2>1, <2>2
<1>4. ASSUME Inc(q), Inc(r), \A a \in In(q), b \in In(r) : a < b,
             NEW i \in DOMAIN c, NEW j \in DOMAIN c, i < j
      PROVE  c[i] < c[j]
  <2>1. CASE i \in DOMAIN q /\ j \in DOMAIN q
    BY <1>1, <1>4, <2>1 DEF Inc
  <2>2. CASE i \in DOMAIN q /\ j - Len(q) \in DOMAIN r
    <3>1. c[i] \in In(q) /\ c[j] \in In(r)
      BY <1>1, <1>2, <2>2 DEF In
    <3> QED
      BY <1>4, <3>1
  <2>3. CASE i - Len(q) \in DOMAIN r /\ j - Len(q) \in DOMAIN r
    <3>1. i - Len(q) < j - Len(q)
      BY <1>1, <1>4
    <3> QED
      BY <1>2, <1>4, <2>3, <3>1 DEF Inc
  <2> QED
    BY <1>1, <1>2, <1>4, <2>1, <2>2, <2>3
<1>5. Inc(q) /\ Inc(r) /\ (\A a \in In(q), b \in In(r) : a < b) => Inc(c)
  BY <1>4 DEF Inc
<1> QED
  BY <1>1, <1>3, <1>5 DEF c

LEMMA EmptyEvents ==
  <<>> \in Seq(Events) /\ In(<<>>) = {} /\ Inc(<<>>) /\ Len(<<>>) = 0
  BY DEF In, Inc

LEMMA EventsIn == \A q \in Seq(Events) : In(q) \subseteq Events
  BY DEF In

-----------------------------------------------------------------------------
(* What the drainer does with a sink: the events it holds, in order, and    *)
(* what is counted.                                                         *)
HeldBy(s) == In(s.pending) \cup In(s.queue)
Ordered(s) ==
  /\ Inc(s.pending) /\ Inc(s.queue)
  /\ \A a \in In(s.pending), b \in In(s.queue) : a < b

(* A sink flushes only what it has; nothing enters a closed one.            *)
Sound(s) ==
  /\ Len(s.queue) <= Capacity
  /\ s.pc = "reserve" => s.pending # <<>>
  /\ s.life = "off" => s.pc \in {"get", "done"}

LEMMA LoopKeeps ==
  ASSUME NEW s \in Sink, Len(s.queue) <= Capacity, s.life # "off"
  PROVE  /\ Loop(s) \in Sink /\ Sound(Loop(s)) /\ Loop(s).life = s.life
         /\ Loop(s).pc \in {"get", "reserve", "done"}
         /\ HeldBy(Loop(s)) = HeldBy(s) /\ Loop(s).dropped = s.dropped
         /\ Ordered(s) => Ordered(Loop(s))
<1>1. /\ s.queue \in Seq(Events) /\ s.pending \in Seq(Events)
  BY DEF Sink
<1>2. CASE s.life = "up"
  BY <1>1, <1>2 DEF Loop, Sink, Sound, HeldBy, Ordered
<1>3. CASE s.life = "stopping"
  <2> DEFINE c == s.pending \o s.queue
             t == [s EXCEPT !.closed = TRUE, !.queue = <<>>, !.pending = c,
                            !.pc = IF c = <<>> THEN "done" ELSE "reserve"]
  <2>1. Loop(s) = t
    BY <1>3 DEF Loop
  <2>2. c \in Seq(Events) /\ In(c) = HeldBy(s) /\ (Ordered(s) => Inc(c))
    BY <1>1, ConcatEvents DEF HeldBy, Ordered
  <2> HIDE DEF c
  <2>3. /\ t \in Sink /\ t.life = s.life /\ t.pending = c /\ t.queue = <<>> /\ t.dropped = s.dropped
        /\ t.pc = IF c = <<>> THEN "done" ELSE "reserve"
    BY <2>2, EmptyEvents DEF Sink
  <2> HIDE DEF t
  <2> QED
    BY <1>3, <2>1, <2>2, <2>3, EmptyEvents, AuditAssumption DEF Sound, HeldBy, Ordered
<1> QED
  BY <1>2, <1>3 DEF Sink

LEMMA AcceptedKeeps ==
  ASSUME NEW s \in Sink, Sound(s), NEW e \in Events
  PROVE  LET t == Accepted(s, e) IN
         /\ t \in Sink /\ Sound(t) /\ t.life = s.life /\ t.pc = s.pc /\ t.pending = s.pending
         /\ \/ HeldBy(t) = HeldBy(s) \cup {e} /\ t.dropped = s.dropped
            \/ HeldBy(t) = HeldBy(s) /\ t.dropped = s.dropped + 1
         /\ HeldBy(t) \subseteq HeldBy(s) \cup {e}
         /\ Ordered(s) /\ (\A d \in HeldBy(s) : d < e) => Ordered(t)
<1> DEFINE t == Accepted(s, e)
<1>1. s.queue \in Seq(Events) /\ s.pending \in Seq(Events) /\ s.dropped \in Nat /\ Capacity \in Nat
      /\ Len(s.queue) \in Nat
  BY AuditAssumption DEF Sink
<1>2. CASE ~s.closed /\ Len(s.queue) < Capacity
  <2> DEFINE r == Append(s.queue, e)
  <2>1. t = [s EXCEPT !.queue = r]
    BY <1>2 DEF Accepted
  <2>2. r \in Seq(Events) /\ Len(r) = Len(s.queue) + 1 /\ In(r) = In(s.queue) \cup {e}
        /\ (Inc(s.queue) /\ (\A d \in In(s.queue) : d < e) => Inc(r))
    BY <1>1, AppendEvent
  <2> HIDE DEF r
  <2>3. t \in Sink /\ t.queue = r /\ t.pending = s.pending /\ t.pc = s.pc /\ t.life = s.life
        /\ t.dropped = s.dropped
    BY <2>1, <2>2 DEF Sink
  <2> HIDE DEF t
  <2>4. Sound(t)
    BY <1>1, <1>2, <2>2, <2>3 DEF Sound
  <2> QED
    BY <2>2, <2>3, <2>4 DEF HeldBy, Ordered, t
<1>3. CASE s.closed \/ ~(Len(s.queue) < Capacity)
  <2>1. t = [s EXCEPT !.dropped = @ + 1]
    BY <1>3 DEF Accepted, Counting
  <2>2. t \in Sink /\ t.queue = s.queue /\ t.pending = s.pending /\ t.pc = s.pc /\ t.life = s.life
        /\ t.dropped = s.dropped + 1
    BY <1>1, <2>1 DEF Sink
  <2> HIDE DEF t
  <2> QED
    BY <2>2 DEF Sound, HeldBy, Ordered, t
<1> QED
  BY <1>2, <1>3

LEMMA TakenKeeps ==
  ASSUME NEW s \in Sink, Sound(s), s.life # "off", s.pc = "get",
         NEW u, u = IF s.queue = <<>> THEN s
                    ELSE [s EXCEPT !.queue = Tail(@), !.pending = Append(@, Head(s.queue))]
  PROVE  /\ u \in Sink /\ Len(u.queue) <= Capacity /\ u.life = s.life
         /\ HeldBy(u) = HeldBy(s) /\ u.dropped = s.dropped
         /\ Ordered(s) => Ordered(u)
<1>1. s.queue \in Seq(Events) /\ s.pending \in Seq(Events) /\ Capacity \in Nat /\ Len(s.queue) <= Capacity
  BY AuditAssumption DEF Sink, Sound
<1>2. CASE s.queue = <<>>
  BY <1>1, <1>2
<1>3. CASE s.queue # <<>>
  <2> DEFINE h == Head(s.queue)
             r == Tail(s.queue)
             a == Append(s.pending, h)
  <2>1. r \in Seq(Events) /\ h \in Events /\ Len(r) = Len(s.queue) - 1 /\ In(s.queue) = {h} \cup In(r)
        /\ (Inc(s.queue) => Inc(r) /\ \A d \in In(r) : h < d)
    BY <1>1, <1>3, TailEvents
  <2>2. a \in Seq(Events) /\ In(a) = In(s.pending) \cup {h}
        /\ (Inc(s.pending) /\ (\A d \in In(s.pending) : d < h) => Inc(a))
    BY <1>1, <2>1, AppendEvent
  <2>3. u = [s EXCEPT !.queue = r, !.pending = a]
    BY <1>3
  <2> HIDE DEF h, r, a
  <2>4. u \in Sink /\ u.queue = r /\ u.pending = a /\ u.life = s.life /\ u.dropped = s.dropped
    BY <2>1, <2>2, <2>3 DEF Sink
  <2>5. Len(u.queue) <= Capacity
    BY <1>1, <2>1, <2>4
  <2>6. HeldBy(u) = HeldBy(s)
    BY <2>1, <2>2, <2>4 DEF HeldBy
  <2>7. Ordered(s) => Ordered(u)
    BY <2>1, <2>2, <2>4 DEF Ordered
  <2> QED
    BY <2>4, <2>5, <2>6, <2>7
<1> QED
  BY <1>2, <1>3

(* The next event is taken, and the batch flushed or not.                   *)
Taken(s, t) ==
  t \in FlushOrLoop(IF s.queue = <<>> THEN s
                    ELSE [s EXCEPT !.queue = Tail(@), !.pending = Append(@, Head(s.queue))])

LEMMA GetKeeps ==
  ASSUME NEW s \in Sink, Sound(s), s.life # "off", s.pc = "get", NEW t, Taken(s, t)
  PROVE  /\ t \in Sink /\ Sound(t) /\ t.life = s.life /\ t.pc \in {"get", "reserve", "done"}
         /\ HeldBy(t) = HeldBy(s) /\ t.dropped = s.dropped
         /\ Ordered(s) => Ordered(t)
<1> DEFINE u == IF s.queue = <<>> THEN s
                ELSE [s EXCEPT !.queue = Tail(@), !.pending = Append(@, Head(s.queue))]
<1>1. /\ u \in Sink /\ Len(u.queue) <= Capacity /\ u.life = s.life
      /\ HeldBy(u) = HeldBy(s) /\ u.dropped = s.dropped
      /\ Ordered(s) => Ordered(u)
  BY TakenKeeps
<1>2. t \in FlushOrLoop(u)
  BY DEF Taken
<1> HIDE DEF u
<1>3. CASE t = Loop(u)
  BY <1>1, <1>3, LoopKeeps
<1>4. CASE t = [u EXCEPT !.pc = "reserve"] /\ u.pending # <<>>
  <2>1. t \in Sink /\ t.life = u.life /\ t.pc = "reserve" /\ t.queue = u.queue /\ t.pending = u.pending
        /\ t.dropped = u.dropped
    BY <1>1, <1>4 DEF Sink
  <2> QED
    BY <1>1, <1>4, <2>1 DEF Sound, HeldBy, Ordered
<1> QED
  BY <1>2, <1>3, <1>4 DEF FlushOrLoop

(* A batch ends, written or not: only the queue is still held.              *)
LEMMA FlushedKeeps ==
  ASSUME NEW s \in Sink, Sound(s), s.life # "off"
  PROVE  LET t == Flushed(s) IN
         /\ t \in Sink /\ Sound(t) /\ t.life = s.life /\ t.pc \in {"get", "reserve", "done"}
         /\ HeldBy(t) = In(s.queue) /\ t.dropped = s.dropped
         /\ Ordered(s) => Ordered(t)
<1> DEFINE u == [s EXCEPT !.pending = <<>>]
<1>1. /\ u \in Sink /\ Len(u.queue) <= Capacity /\ u.life = s.life /\ u.dropped = s.dropped
      /\ u.pending = <<>> /\ u.queue = s.queue
  BY EmptyEvents DEF Sink, Sound
<1>2. HeldBy(u) = In(s.queue) /\ (Ordered(s) => Ordered(u))
  BY <1>1, EmptyEvents DEF HeldBy, Ordered
<1>3. CASE ~s.closed
  <2>1. Flushed(s) = Loop(u)
    BY <1>3 DEF Flushed
  <2> HIDE DEF u
  <2> QED
    BY <1>1, <1>2, <2>1, LoopKeeps
<1>4. CASE s.closed
  <2> DEFINE t == [s EXCEPT !.pending = <<>>, !.pc = "done"]
  <2>1. Flushed(s) = t
    BY <1>4 DEF Flushed
  <2>2. t \in Sink /\ t.life = s.life /\ t.pc = "done" /\ t.pending = <<>> /\ t.queue = s.queue
        /\ t.dropped = s.dropped
    BY EmptyEvents DEF Sink
  <2> HIDE DEF t
  <2>3. Sound(t) /\ HeldBy(t) = In(s.queue) /\ (Ordered(s) => Ordered(t))
    BY <2>2, EmptyEvents DEF Sound, HeldBy, Ordered
  <2> QED
    BY <2>1, <2>2, <2>3
<1> QED
  BY <1>3, <1>4

LEMMA CountingKeeps ==
  ASSUME NEW s \in Sink, NEW n \in Nat
  PROVE  LET t == Counting(s, n) IN
         /\ t \in Sink /\ t.life = s.life /\ t.pc = s.pc /\ t.pending = s.pending /\ t.queue = s.queue
         /\ t.closed = s.closed /\ t.dropped = s.dropped + n
         /\ (Sound(s) => Sound(t)) /\ (Ordered(s) => Ordered(t))
<1>1. s.dropped + n \in Nat
  BY DEF Sink
<1> DEFINE t == Counting(s, n)
<1>2. /\ t \in Sink /\ t.life = s.life /\ t.pc = s.pc /\ t.pending = s.pending /\ t.queue = s.queue
      /\ t.closed = s.closed /\ t.dropped = s.dropped + n
  BY <1>1 DEF Counting, Sink
<1> HIDE DEF t
<1>3. (Sound(s) => Sound(t)) /\ (Ordered(s) => Ordered(t))
  BY <1>2 DEF Sound, Ordered
<1> QED
  BY <1>2, <1>3 DEF t

LEMMA FailureKeeps ==
  ASSUME NEW s \in Sink, Sound(s), s.life # "off"
  PROVE  LET t == FailureCounted(s) IN
         /\ t \in Sink /\ Sound(t) /\ t.life = s.life /\ t.pc \in {"get", "reserve", "done"}
         /\ HeldBy(t) = In(s.queue) /\ t.dropped = s.dropped + Len(s.pending)
         /\ Ordered(s) => Ordered(t)
<1>1. Len(s.pending) \in Nat
  BY DEF Sink
<1> DEFINE u == Counting(s, Len(s.pending))
<1>2. u \in Sink /\ u.life = s.life /\ u.queue = s.queue /\ u.dropped = s.dropped + Len(s.pending)
      /\ Sound(u) /\ (Ordered(s) => Ordered(u))
  BY <1>1, CountingKeeps
<1> HIDE DEF u
<1>3. FailureCounted(s) = Flushed(u)
  BY DEF FailureCounted, u
<1> QED
  BY <1>2, <1>3, FlushedKeeps

LEMMA ClosedKeeps ==
  ASSUME NEW s \in Sink, NEW l \in {"off", "stopping"}
  PROVE  LET t == [Closed(s) EXCEPT !.life = l] IN
         /\ t \in Sink /\ Sound(t) /\ t.life = l /\ t.pc = "done"
         /\ HeldBy(t) = {} /\ t.dropped = s.dropped + (Len(s.pending) + Len(s.queue))
         /\ Ordered(t)
<1>1. Len(s.pending) \in Nat /\ Len(s.queue) \in Nat /\ s.dropped \in Nat
  BY DEF Sink
<1>2. Leftover(s) = Len(s.pending) + Len(s.queue) /\ Leftover(s) \in Nat
  <2>1. Leftover(s) = Len(s.pending) + Len(s.queue)
    BY DEF Leftover
  <2>2. \A a, b \in Nat : a + b \in Nat
    OBVIOUS
  <2>3. Len(s.pending) + Len(s.queue) \in Nat
    BY <1>1, <2>2, Zenon
  <2> QED
    BY <2>1, <2>3
<1> DEFINE u == Counting(s, Leftover(s))
           t == [Closed(s) EXCEPT !.life = l]
<1>3. u \in Sink /\ u.dropped = s.dropped + Leftover(s)
  BY <1>2, CountingKeeps
<1> HIDE DEF u
<1>4. t = [[u EXCEPT !.closed = TRUE, !.pc = "done", !.queue = <<>>, !.pending = <<>>] EXCEPT !.life = l]
  BY DEF Closed, u
<1>5. t \in Sink /\ t.life = l /\ t.pc = "done" /\ t.queue = <<>> /\ t.pending = <<>>
      /\ t.dropped = u.dropped
  BY <1>3, <1>4, EmptyEvents DEF Sink
<1> HIDE DEF t
<1>6. Sound(t) /\ HeldBy(t) = {} /\ Ordered(t)
  BY <1>5, EmptyEvents, AuditAssumption DEF Sound, HeldBy, Ordered
<1> QED
  BY <1>2, <1>3, <1>5, <1>6 DEF t

LEMMA NewKeeps ==
  /\ NewSink \in Sink /\ Sound(NewSink) /\ NewSink.pc = "get" /\ NewSink.life = "off"
  /\ HeldBy(NewSink) = {} /\ NewSink.dropped = 0 /\ Ordered(NewSink)
<1>1. NewSink \in Sink /\ NewSink.pc = "get" /\ NewSink.life = "off" /\ NewSink.queue = <<>>
      /\ NewSink.pending = <<>> /\ NewSink.dropped = 0
  BY EmptyEvents DEF NewSink, Sink
<1> QED
  BY <1>1, EmptyEvents, AuditAssumption DEF Sound, HeldBy, Ordered

-----------------------------------------------------------------------------
(* What one process's step does to its own sink.  The others' stay.         *)
Living(p) == Start(p) \/ BeginStop(p) \/ EndStop(p) \/ StopTimesOut(p) \/ Crash(p) \/ Drain(p)

(* The steps of a process, told apart by what they do with events: kept,    *)
(* taken in, written or given up.                                           *)
Keeping(p) ==
  \/ Start(p) /\ seen'[p] = {} /\ HeldBy(sink'[p]) = {} /\ sink'[p].dropped = 0
  \/ /\ \/ Get(p) \/ Reserve(p) \/ BeginStop(p)
     /\ seen' = seen /\ HeldBy(sink'[p]) = HeldBy(sink[p]) /\ sink'[p].dropped = sink[p].dropped
Flushing(p) ==
  /\ Commit(p) \/ FlushFails(p)
  /\ HeldBy(sink'[p]) = In(sink[p].queue)
  /\ \/ Land(p) /\ sink'[p].dropped = sink[p].dropped
     \/ sink'[p].dropped = sink[p].dropped + Len(sink[p].pending)
Closing(p) ==
  /\ EndStop(p) \/ StopTimesOut(p)
  /\ HeldBy(sink'[p]) = {}
  /\ sink'[p].dropped = sink[p].dropped + (Len(sink[p].pending) + Len(sink[p].queue))
Dying(p) == Crash(p) /\ HeldBy(sink'[p]) = {} /\ sink'[p].dropped = 0

Sinks == \A p \in Processes : Sound(sink[p])

(* A sink afterwards: still a sink, its events still in order.              *)
Goes(p, t) ==
  /\ t \in Sink /\ Sound(t)
  /\ Ordered(sink[p]) => Ordered(t)
  /\ sink' = [sink EXCEPT ![p] = t]

LEMMA SinkStep ==
  ASSUME TypeOK, Sinks, NEW p \in Processes
  PROVE  /\ Living(p) => \E t : Goes(p, t)
         /\ Start(p) \/ BeginStop(p) \/ Get(p) \/ Reserve(p) => Keeping(p)
         /\ Commit(p) \/ FlushFails(p) => Flushing(p)
         /\ EndStop(p) \/ StopTimesOut(p) => Closing(p)
         /\ Crash(p) => Dying(p)
<1> DEFINE s == sink[p]
<1>0. s \in Sink /\ Sound(s) /\ sink \in [Processes -> Sink] /\ seen \in [Processes -> SUBSET Events]
  BY DEF TypeOK, Sinks
<1>1. ASSUME NEW t, Goes(p, t) PROVE sink'[p] = t
  BY <1>0, <1>1 DEF Goes
<1>2. ASSUME Start(p) PROVE (\E t : Goes(p, t)) /\ Keeping(p)
  <2> DEFINE t == [NewSink EXCEPT !.life = "up"]
  <2>1. t \in Sink /\ t.pc = "get" /\ t.life = "up" /\ t.queue = <<>> /\ t.pending = <<>> /\ t.dropped = 0
    BY EmptyEvents DEF NewSink, Sink
  <2> HIDE DEF t
  <2>2. Sound(t) /\ HeldBy(t) = {} /\ Ordered(t)
    BY <2>1, EmptyEvents, AuditAssumption DEF Sound, HeldBy, Ordered
  <2>3. Goes(p, t) /\ seen'[p] = {}
    BY <1>0, <1>2, <2>1, <2>2 DEF Goes, Start, Put, t
  <2> QED
    BY <1>1, <1>2, <2>1, <2>2, <2>3 DEF Keeping
<1>3. ASSUME BeginStop(p) PROVE (\E t : Goes(p, t)) /\ Keeping(p)
  <2> DEFINE t == [s EXCEPT !.life = "stopping"]
  <2>1. t \in Sink /\ t.pc = s.pc /\ t.life = "stopping" /\ t.queue = s.queue /\ t.pending = s.pending
        /\ t.dropped = s.dropped
    BY <1>0 DEF Sink
  <2> HIDE DEF t
  <2>2. Sound(t) /\ HeldBy(t) = HeldBy(s) /\ (Ordered(s) => Ordered(t))
    BY <1>0, <2>1 DEF Sound, HeldBy, Ordered
  <2>3. Goes(p, t) /\ seen' = seen
    BY <1>3, <2>1, <2>2 DEF Goes, BeginStop, Put, t
  <2> QED
    BY <1>1, <1>3, <2>1, <2>2, <2>3 DEF Keeping
<1>4. ASSUME EndStop(p) \/ StopTimesOut(p) PROVE (\E t : Goes(p, t)) /\ Closing(p)
  <2> DEFINE l == IF EndStop(p) THEN "off" ELSE "stopping"
             t == [Closed(s) EXCEPT !.life = l]
  <2>1. l \in {"off", "stopping"}
    OBVIOUS
  <2>2. /\ t \in Sink /\ Sound(t) /\ t.life = l /\ t.pc = "done"
        /\ HeldBy(t) = {} /\ t.dropped = s.dropped + (Len(s.pending) + Len(s.queue))
        /\ Ordered(t)
    BY <1>0, <2>1, ClosedKeeps
  <2>3. CASE EndStop(p)
    <3>1. sink' = [sink EXCEPT ![p] = t]
      BY <2>3 DEF EndStop, Put
    <3> HIDE DEF t, l
    <3> QED
      BY <1>1, <2>2, <2>3, <3>1 DEF Goes, Closing
  <2>4. CASE ~EndStop(p)
    <3>1. s.life = "stopping" /\ l = "stopping"
      BY <1>4, <2>4 DEF StopTimesOut, Shutdown
    <3>2. t = Closed(s)
      <4>1. Closed(s).life = s.life /\ Closed(s) = [x \in DOMAIN Closed(s) |-> Closed(s)[x]]
            /\ "life" \in DOMAIN Closed(s)
        BY <1>0 DEF Closed, Counting, Sink
      <4> HIDE DEF l
      <4> QED
        BY <3>1, <4>1
    <3>3. sink' = [sink EXCEPT ![p] = t]
      BY <1>4, <2>4, <3>2 DEF StopTimesOut, Put
    <3> HIDE DEF t, l
    <3> QED
      BY <1>1, <1>4, <2>2, <2>4, <3>3 DEF Goes, Closing
  <2> QED
    BY <2>3, <2>4
<1>5. ASSUME Crash(p) PROVE (\E t : Goes(p, t)) /\ Dying(p)
  <2>1. Goes(p, NewSink)
    BY <1>5, NewKeeps DEF Goes, Crash, Put
  <2> QED
    BY <1>1, <1>5, <2>1, NewKeeps DEF Dying
<1>6. ASSUME Get(p) PROVE (\E t : Goes(p, t)) /\ Keeping(p)
  <2>1. PICK t : Taken(s, t) /\ sink' = [sink EXCEPT ![p] = t]
    BY <1>6 DEF Get, Put, Taken
  <2>2. s.life # "off" /\ s.pc = "get" /\ seen' = seen
    BY <1>6 DEF Get
  <2>3. Goes(p, t) /\ HeldBy(t) = HeldBy(s) /\ t.dropped = s.dropped
    BY <1>0, <2>1, <2>2, GetKeeps DEF Goes
  <2> QED
    BY <1>1, <1>6, <2>2, <2>3 DEF Keeping
<1>7. ASSUME Reserve(p) PROVE (\E t : Goes(p, t)) /\ Keeping(p)
  <2> DEFINE t == IF Wanted(p) = {NextRow(p)} THEN [s EXCEPT !.pc = "commit"] ELSE s
  <2>1. t \in Sink /\ t.pc \in {"reserve", "commit"} /\ t.life = s.life /\ t.queue = s.queue
        /\ t.pending = s.pending /\ t.dropped = s.dropped /\ s.pc = "reserve"
        /\ s.life # "off"
    BY <1>0, <1>7 DEF Sink, Reserve
  <2>2. sink' = [sink EXCEPT ![p] = t] /\ seen' = seen
    BY <1>7 DEF Reserve, Put
  <2> HIDE DEF t
  <2>3. Goes(p, t) /\ HeldBy(t) = HeldBy(s)
    BY <1>0, <2>1, <2>2 DEF Goes, Sound, HeldBy, Ordered
  <2> QED
    BY <1>1, <1>7, <2>1, <2>2, <2>3 DEF Keeping
<1>8. ASSUME Commit(p) \/ FlushFails(p) PROVE (\E t : Goes(p, t)) /\ Flushing(p)
  <2>1. s.life # "off"
    BY <1>8 DEF Commit, FlushFails
  <2>2. CASE sink' = [sink EXCEPT ![p] = Flushed(s)] /\ Land(p)
    <3>1. Goes(p, Flushed(s)) /\ HeldBy(Flushed(s)) = In(s.queue) /\ Flushed(s).dropped = s.dropped
      BY <1>0, <2>1, <2>2, FlushedKeeps DEF Goes
    <3> QED
      BY <1>1, <1>8, <2>2, <3>1 DEF Flushing
  <2>3. CASE sink' = [sink EXCEPT ![p] = FailureCounted(s)]
    <3>1. Goes(p, FailureCounted(s)) /\ HeldBy(FailureCounted(s)) = In(s.queue)
          /\ FailureCounted(s).dropped = s.dropped + Len(s.pending)
      BY <1>0, <2>1, <2>3, FailureKeeps DEF Goes
    <3> QED
      BY <1>1, <1>8, <3>1 DEF Flushing
  <2> QED
    BY <1>8, <2>2, <2>3 DEF Commit, FlushFails, Put
<1> QED
  BY <1>2, <1>3, <1>4, <1>5, <1>6, <1>7, <1>8 DEF Living, Drain

-----------------------------------------------------------------------------
(* The rows of a batch.                                                     *)
Batch(p) == sink[p].pending
OfCorr(q, c) == {i \in DOMAIN q : CorrOf[q[i]] = c}
NthOf(q, i) == Cardinality({j \in 1 .. i : CorrOf[q[j]] = CorrOf[q[i]]})

LEMMA UpTo ==
  ASSUME NEW n \in Nat, NEW S \in SUBSET (1 .. n)
  PROVE  IsFiniteSet(S) /\ Cardinality(S) \in Nat /\ Cardinality(S) <= n
<1>1. IsFiniteSet(1 .. n) /\ Cardinality(1 .. n) = n
  BY FS_Interval
<1> QED
  BY <1>1, FS_Subset, FS_CardinalityType

LEMMA FunctionIsSeq ==
  ASSUME NEW S, NEW n \in Nat, NEW f \in [1 .. n -> S]
  PROVE  f \in Seq(S) /\ Len(f) = n
  OBVIOUS

LEMMA ConcatIsSeq ==
  ASSUME NEW S, NEW q \in Seq(S), NEW r \in Seq(S)
  PROVE  q \o r \in Seq(S)
  OBVIOUS

LEMMA ConcatAt ==
  ASSUME NEW S, NEW q \in Seq(S), NEW r \in Seq(S)
  PROVE  /\ Len(q) \in Nat /\ DOMAIN q = 1 .. Len(q)
         /\ DOMAIN (q \o r) = 1 .. Len(q) + Len(r)
         /\ \A i \in 1 .. Len(q) : (q \o r)[i] = q[i]
         /\ \A i \in 1 .. Len(r) : (q \o r)[Len(q) + i] = r[i]
<1>1. /\ Len(q) \in Nat /\ DOMAIN q = 1 .. Len(q) /\ Len(r) \in Nat
      /\ DOMAIN (q \o r) = 1 .. Len(q) + Len(r)
      /\ \A i \in 1 .. Len(q) : (q \o r)[i] = q[i]
  OBVIOUS
<1>2. ASSUME NEW i \in 1 .. Len(r) PROVE (q \o r)[Len(q) + i] = r[i]
  OBVIOUS
<1> QED
  BY <1>1, <1>2

LEMMA RowsAre ==
  ASSUME TypeOK, NEW p \in Processes
  PROVE  LET q == Batch(p)
             r == Rows(p)
         IN  /\ q \in Seq(Events) /\ Len(q) \in Nat /\ DOMAIN q = 1 .. Len(q)
             /\ r \in Seq([event : Events, seq : Nat]) /\ Len(r) = Len(q)
             /\ \A i \in 1 .. Len(q) :
                  /\ q[i] \in Events /\ CorrOf[q[i]] \in Correlations /\ NthOf(q, i) \in Nat
                  /\ r[i].event = q[i]
                  /\ r[i].seq = counter[CorrOf[q[i]]] + NthOf(q, i)
             /\ \A c : IsFiniteSet(OfCorr(q, c)) /\ Cardinality(OfCorr(q, c)) \in Nat
<1> DEFINE q == Batch(p)
           r == Rows(p)
<1>1. q \in Seq(Events) /\ Len(q) \in Nat /\ DOMAIN q = 1 .. Len(q) /\ \A i \in 1 .. Len(q) : q[i] \in Events
  BY DEF TypeOK, Sink, Batch
<1>2. r = [i \in DOMAIN q |-> [event |-> q[i], seq |-> counter[CorrOf[q[i]]] + NthOf(q, i)]]
  BY DEF Rows, NthOf, Batch
<1> HIDE DEF q, r
<1>3. ASSUME NEW i \in 1 .. Len(q) PROVE NthOf(q, i) \in Nat
  <2>1. i \in Nat /\ {j \in 1 .. i : CorrOf[q[j]] = CorrOf[q[i]]} \in SUBSET (1 .. i)
    BY <1>1
  <2> QED
    BY <2>1, UpTo DEF NthOf
<1>4. ASSUME NEW i \in 1 .. Len(q)
      PROVE  /\ CorrOf[q[i]] \in Correlations
             /\ counter[CorrOf[q[i]]] + NthOf(q, i) \in Nat
  <2>1. CorrOf[q[i]] \in Correlations
    BY <1>1, NumberedEvents
  <2>2. counter[CorrOf[q[i]]] \in Nat
    BY <2>1 DEF TypeOK
  <2> QED
    BY <1>3, <2>1, <2>2
<1>5. r \in Seq([event : Events, seq : Nat]) /\ Len(r) = Len(q)
  <2>1. r \in [1 .. Len(q) -> [event : Events, seq : Nat]]
    BY <1>1, <1>2, <1>4
  <2> QED
    BY <1>1, <2>1, FunctionIsSeq
<1>6. ASSUME NEW c PROVE IsFiniteSet(OfCorr(q, c)) /\ Cardinality(OfCorr(q, c)) \in Nat
  BY <1>1, UpTo DEF OfCorr
<1>7. \A i \in 1 .. Len(q) : r[i].event = q[i] /\ r[i].seq = counter[CorrOf[q[i]]] + NthOf(q, i)
  BY <1>1, <1>2
<1> QED
  BY <1>1, <1>3, <1>4, <1>5, <1>6, <1>7 DEF q, r

LEMMA LandCounts ==
  ASSUME TypeOK, NEW p \in Processes, Land(p)
  PROVE  /\ table' = table \o Rows(p)
         /\ counter' \in [Correlations -> Nat]
         /\ \A c \in Correlations : counter'[c] = counter[c] + Cardinality(OfCorr(Batch(p), c))
<1>1. counter' = [c \in Correlations |-> counter[c] + Cardinality(OfCorr(Batch(p), c))]
  BY DEF Land, OfCorr, Batch
<1>2. \A c \in Correlations : counter[c] + Cardinality(OfCorr(Batch(p), c)) \in Nat
  BY RowsAre DEF TypeOK
<1> QED
  BY <1>1, <1>2 DEF Land

LEMMA LandTable ==
  ASSUME TypeOK, NEW p \in Processes, Land(p)
  PROVE  LET q == Batch(p)
             n == Len(table)
         IN  /\ n \in Nat /\ DOMAIN table = 1 .. n /\ DOMAIN q = 1 .. Len(q) /\ Len(q) \in Nat
             /\ DOMAIN table \subseteq DOMAIN table'
             /\ \A i \in DOMAIN table : table'[i] = table[i]
             /\ \A j \in DOMAIN q : /\ n + j \in DOMAIN table' /\ table'[n + j].event = q[j]
                                    /\ table'[n + j].seq = counter[CorrOf[q[j]]] + NthOf(q, j)
             /\ \A i \in DOMAIN table' : i \in DOMAIN table \/ \E j \in DOMAIN q : i = n + j
<1> DEFINE q == Batch(p)
           n == Len(table)
           r == Rows(p)
           m == Len(q)
           T == [event : Events, seq : Nat]
<1>1. /\ DOMAIN q = 1 .. m /\ m \in Nat
      /\ r \in Seq(T) /\ Len(r) = m /\ table \in Seq(T)
      /\ \A i \in 1 .. m : r[i].event = q[i] /\ r[i].seq = counter[CorrOf[q[i]]] + NthOf(q, i)
  BY RowsAre DEF TypeOK
<1>2. table' = table \o r
  BY LandCounts
<1> HIDE DEF q, r, T, m
<1>3. /\ n \in Nat /\ DOMAIN table = 1 .. n
      /\ DOMAIN (table \o r) = 1 .. n + Len(r)
      /\ \A i \in 1 .. n : (table \o r)[i] = table[i]
      /\ \A i \in 1 .. Len(r) : (table \o r)[n + i] = r[i]
  <2>1. table \in Seq(T) /\ r \in Seq(T)
    BY <1>1
  <2> QED
    BY <2>1, ConcatAt
<1> HIDE DEF n
<1>4. DOMAIN table' = 1 .. n + m /\ \A i \in 1 .. m : table'[n + i] = r[i]
  BY <1>1, <1>2, <1>3
<1>5. \A i \in 1 .. n : i \in 1 .. n + m
  BY <1>1, <1>3
<1>6. \A j \in 1 .. m : n + j \in 1 .. n + m
  BY <1>1, <1>3
<1>7. ASSUME NEW i \in 1 .. n + m, i \notin 1 .. n PROVE \E j \in 1 .. m : i = n + j
  <2>1. i - n \in 1 .. m /\ i = n + (i - n)
    BY <1>1, <1>3, <1>7
  <2> QED
    BY <2>1
<1>8. \A j \in DOMAIN q : /\ n + j \in DOMAIN table' /\ table'[n + j].event = q[j]
                          /\ table'[n + j].seq = counter[CorrOf[q[j]]] + NthOf(q, j)
  BY <1>1, <1>4, <1>6
<1>9. DOMAIN table \subseteq DOMAIN table' /\ \A i \in DOMAIN table : table'[i] = table[i]
  BY <1>2, <1>3, <1>4, <1>5
<1>10. \A i \in DOMAIN table' : i \in DOMAIN table \/ \E j \in DOMAIN q : i = n + j
  BY <1>1, <1>3, <1>4, <1>7
<1> QED
  BY <1>1, <1>3, <1>8, <1>9, <1>10 DEF q, n, m

(* Whatever a step does: nothing, or the rows of one batch appear.          *)
LEMMA LandOrNot ==
  ASSUME NEW p \in Processes, Living(p)
  PROVE  /\ emitted' = emitted
         /\ \/ UNCHANGED <<table, counter>>
            \/ Land(p) /\ (Commit(p) \/ StopTimesOut(p) \/ Crash(p))
  BY DEF Living, Start, BeginStop, EndStop, StopTimesOut, Crash, Drain, Get, Reserve, Commit, FlushFails,
         MayLand, RollBack

LEMMA SeenStep ==
  ASSUME TypeOK, NEW p \in Processes, Living(p)
  PROVE  seen' \in [Processes -> SUBSET Events] /\ (seen' = seen \/ seen' = [seen EXCEPT ![p] = {}])
  BY DEF TypeOK, Living, Start, BeginStop, EndStop, StopTimesOut, Crash, Drain, Get, Reserve, Commit, FlushFails

LEMMA HolderStep ==
  ASSUME TypeOK, NEW p \in Processes, Living(p)
  PROVE  \/ holder' = holder /\ (Start(p) \/ BeginStop(p) \/ EndStop(p) \/ Get(p))
         \/ Release(p) /\ (StopTimesOut(p) \/ Crash(p) \/ Commit(p) \/ FlushFails(p))
         \/ Reserve(p) /\ holder[NextRow(p)] = Free /\ holder' = [holder EXCEPT ![NextRow(p)] = p]
  BY DEF Living, Start, BeginStop, EndStop, StopTimesOut, Crash, Drain, Get, Reserve, Commit, FlushFails

LEMMA RecordStep ==
  ASSUME TypeOK, Sinks, NEW p \in Processes, NEW e \in Events, Record(p, e)
  PROVE  /\ sink' = [sink EXCEPT ![p] = Accepted(sink[p], e)]
         /\ Accepted(sink[p], e) \in Sink /\ Sound(Accepted(sink[p], e))
         /\ seen' = [seen EXCEPT ![p] = @ \cup {e}] /\ emitted' = emitted \cup {e}
         /\ UNCHANGED <<table, counter, holder>>
<1>1. sink[p] \in Sink /\ Sound(sink[p]) /\ sink \in [Processes -> Sink]
  BY DEF TypeOK, Sinks
<1>2. Accepted(sink[p], e) \in Sink /\ Sound(Accepted(sink[p], e))
  BY <1>1, AcceptedKeeps
<1>3. sink' = [sink EXCEPT ![p] = Accepted(sink[p], e)]
  BY DEF Record, Put
<1> QED
  BY <1>1, <1>2, <1>3 DEF Record

(* The lock of a row is taken by the process that wants it.                 *)
LEMMA LeastWanted ==
  ASSUME NEW S \in SUBSET Nat, S # {}
  PROVE  \E x \in S : \A y \in S : x <= y
<1>1. \E x \in S : \A y \in S : ~ (<<y, x>> \in OpToRel(<, Nat))
  BY WFMin, NatLessThanWellFounded, Zenon
<1>2. PICK x \in S : \A y \in S : ~ (<<y, x>> \in OpToRel(<, Nat))
  BY <1>1
<1>3. \A y \in S : ~ (y < x)
  BY <1>2 DEF OpToRel
<1>4. \A y \in S : x <= y
  BY <1>3
<1> QED
  BY <1>4

Wants(p) == {CorrOf[e] : e \in In(Batch(p))}

LEMMA NextRowIs ==
  ASSUME TypeOK, NEW p \in Processes, Wanted(p) # {}
  PROVE  /\ NextRow(p) \in Wanted(p) /\ \A d \in Wanted(p) : NextRow(p) <= d
         /\ Wanted(p) \subseteq Correlations /\ Wanted(p) \subseteq Nat
<1>1. Wanted(p) \subseteq Correlations /\ Wanted(p) \subseteq Nat
  <2>1. sink[p].pending \in Seq(Events)
    BY DEF TypeOK, Sink
  <2>2. In(sink[p].pending) \subseteq Events
    BY <2>1, EventsIn
  <2>3. Correlations \subseteq Nat
    BY AuditAssumption DEF Correlations
  <2>4. Wanted(p) \subseteq Correlations
    BY <2>2, NumberedEvents DEF Wanted
  <2> QED
    BY <2>3, <2>4
<1>2. \E c \in Wanted(p) : \A d \in Wanted(p) : c <= d
  BY <1>1, LeastWanted
<1> QED
  BY <1>1, <1>2 DEF NextRow

LEMMA TypedInit == Init => TypeOK /\ Sinks
<1> SUFFICES ASSUME Init PROVE TypeOK /\ Sinks
  OBVIOUS
<1>1. sink = [p \in Processes |-> NewSink] /\ NewSink \in Sink /\ Sound(NewSink)
  BY NewKeeps DEF Init
<1>2. sink \in [Processes -> Sink] /\ Sinks
  BY <1>1 DEF Sinks
<1>3. <<>> \in Seq([event : Events, seq : Nat])
  OBVIOUS
<1> QED
  BY <1>2, <1>3 DEF Init, TypeOK, Sinks, Sound

LEMMA TypedStep == TypeOK /\ Sinks /\ [Next]_vars => TypeOK' /\ Sinks'
<1> SUFFICES ASSUME TypeOK, Sinks, [Next]_vars PROVE TypeOK' /\ Sinks'
  OBVIOUS
<1>1. ASSUME NEW p \in Processes, NEW t, sink' = [sink EXCEPT ![p] = t], t \in Sink, Sound(t)
      PROVE  sink' \in [Processes -> Sink] /\ Sinks'
  BY <1>1 DEF TypeOK, Sinks
<1>2. Sinks' => \A p \in Processes : Len(sink[p].queue)' <= Capacity
  BY DEF Sinks, Sound
<1>3. ASSUME NEW p \in Processes, Living(p) PROVE TypeOK' /\ Sinks'
  <2>1. PICK t : Goes(p, t)
    BY <1>3, SinkStep
  <2>2. sink' \in [Processes -> Sink] /\ Sinks'
    BY <1>1, <2>1 DEF Goes
  <2>3. seen' \in [Processes -> SUBSET Events]
    BY <1>3, SeenStep
  <2>4. (UNCHANGED <<table, counter>> \/ Land(p)) /\ emitted' = emitted
    BY <1>3, LandOrNot
  <2>5. table' \in Seq([event : Events, seq : Nat]) /\ counter' \in [Correlations -> Nat]
    <3>1. CASE UNCHANGED <<table, counter>>
      BY <3>1 DEF TypeOK
    <3>2. CASE Land(p)
      <4>1. Rows(p) \in Seq([event : Events, seq : Nat]) /\ table \in Seq([event : Events, seq : Nat])
        BY RowsAre DEF TypeOK
      <4>2. table \o Rows(p) \in Seq([event : Events, seq : Nat])
        BY <4>1, ConcatIsSeq
      <4> QED
        BY <3>2, <4>2, LandCounts
    <3> QED
      BY <2>4, <3>1, <3>2
  <2>6. holder' \in [Correlations -> Processes \cup {Free}]
    BY <1>3, HolderStep DEF Living, TypeOK, Release
  <2> QED
    BY <1>2, <2>2, <2>3, <2>4, <2>5, <2>6 DEF TypeOK
<1>4. ASSUME NEW p \in Processes, NEW e \in Events, Record(p, e) PROVE TypeOK' /\ Sinks'
  <2>1. sink' \in [Processes -> Sink] /\ Sinks'
    BY <1>1, <1>4, RecordStep
  <2>2. /\ seen' = [seen EXCEPT ![p] = @ \cup {e}] /\ emitted' = emitted \cup {e}
        /\ UNCHANGED <<table, counter, holder>>
    BY <1>4 DEF Record
  <2>3. seen' \in [Processes -> SUBSET Events] /\ emitted' \in SUBSET Events
    BY <1>2, <1>4, <2>2 DEF TypeOK
  <2>4. \A q \in Processes : Len(sink'[q].queue) <= Capacity
    BY <1>2, <2>1
  <2>5. UNCHANGED <<table, counter, holder>>
    BY <2>2
  <2> QED
    BY <2>1, <2>3, <2>4, <2>5 DEF TypeOK
<1>5. CASE UNCHANGED vars
  BY <1>5 DEF TypeOK, Sinks, vars
<1> QED
  BY <1>3, <1>4, <1>5 DEF Next, Living

(* The sinks, the table, the counters and the locks keep their types, and   *)
(* no queue grows past its bound, for any number of processes.              *)
THEOREM TypeCorrect == Spec => []TypeOK
<1>1. Spec => [](TypeOK /\ Sinks)
  BY TypedInit, TypedStep, PTL DEF Spec
<1> QED
  BY <1>1, PTL

-----------------------------------------------------------------------------
(* Locks.  A process holds the rows of its batch from the least correlation *)
(* up, and nothing outside a flush.                                         *)
Locks(p) ==
  /\ \A c \in Correlations : holder[c] = p =>
       /\ sink[p].pc \in {"reserve", "commit"} /\ c \in Wants(p)
       /\ \A d \in Wants(p) : d < c => holder[d] = p
  /\ sink[p].pc = "reserve" => Wanted(p) # {}
LockInv == \A p \in Processes : Locks(p)

LEMMA WantedIs ==
  ASSUME TypeOK, NEW p \in Processes
  PROVE  /\ Wanted(p) = Wants(p) \ {c \in Correlations : holder[c] = p}
         /\ Wants(p) \subseteq Correlations /\ Wants(p) \subseteq Nat
         /\ sink[p].pending # <<>> => Wants(p) # {}
<1>1. sink[p].pending \in Seq(Events) /\ In(sink[p].pending) \subseteq Events
  BY EventsIn DEF TypeOK, Sink
<1>2. sink[p].pending # <<>> => In(sink[p].pending) # {}
  <2>1. sink[p].pending # <<>> => 1 \in DOMAIN sink[p].pending
    BY <1>1
  <2> QED
    BY <2>1 DEF In
<1> QED
  BY <1>1, <1>2, NumberedEvents, AuditAssumption DEF Wanted, Wants, Batch

LEMMA NothingHeld ==
  ASSUME TypeOK', Sinks', NEW p \in Processes, \A c \in Correlations : holder'[c] # p
  PROVE  Locks(p)'
<1>1. sink'[p].pending \in Seq(Events) /\ In(sink'[p].pending) \subseteq Events
  BY EventsIn DEF TypeOK, Sink
<1>2. sink'[p].pending # <<>> => In(sink'[p].pending) # {}
  <2>1. sink'[p].pending # <<>> => 1 \in DOMAIN sink'[p].pending
    BY <1>1
  <2> QED
    BY <2>1 DEF In
<1>3. sink'[p].pc = "reserve" => sink'[p].pending # <<>>
  BY DEF Sinks, Sound
<1> QED
  BY <1>1, <1>2, <1>3 DEF Locks, Wanted

LEMMA SamePlace ==
  ASSUME NEW p \in Processes, Locks(p), sink'[p].pc = sink[p].pc, sink'[p].pending = sink[p].pending,
         \A c \in Correlations : holder'[c] = p <=> holder[c] = p,
         Wants(p) \subseteq Correlations
  PROVE  Locks(p)'
<1>1. Wants(p)' = Wants(p) /\ Wanted(p)' = Wanted(p)
  BY DEF Wants, Wanted, Batch
<1> QED
  BY <1>1 DEF Locks

LEMMA LockStep == TypeOK /\ Sinks /\ LockInv /\ [Next]_vars => LockInv'
<1> SUFFICES ASSUME TypeOK, Sinks, LockInv, [Next]_vars, NEW q \in Processes PROVE Locks(q)'
  BY DEF LockInv
<1>0. /\ sink \in [Processes -> Sink] /\ holder \in [Correlations -> Processes \cup {Free}]
      /\ Free \notin Processes /\ TypeOK' /\ Sinks' /\ Locks(q) /\ Sound(sink[q])
      /\ Wants(q) \subseteq Correlations
  BY TypedStep, AuditAssumption, WantedIs DEF TypeOK, LockInv, Sinks
<1>1. ASSUME NEW p \in Processes, Living(p) PROVE Locks(q)'
  <2>1. PICK t : sink' = [sink EXCEPT ![p] = t]
    BY <1>1, SinkStep DEF Living, Goes
  <2>2. \/ holder' = holder /\ (Start(p) \/ BeginStop(p) \/ EndStop(p) \/ Get(p))
        \/ Release(p) /\ (StopTimesOut(p) \/ Crash(p) \/ Commit(p) \/ FlushFails(p))
        \/ Reserve(p) /\ holder[NextRow(p)] = Free /\ holder' = [holder EXCEPT ![NextRow(p)] = p]
    BY <1>1, HolderStep
  <2>3. CASE q # p
    <3>1. sink'[q] = sink[q]
      BY <1>0, <2>1, <2>3
    <3>2. \A c \in Correlations : holder'[c] = q <=> holder[c] = q
      BY <1>0, <2>2, <2>3 DEF Release
    <3> QED
      BY <1>0, <3>1, <3>2, SamePlace
  <2>4. CASE q = p /\ Release(p)
    <3>1. \A c \in Correlations : holder'[c] # q
      BY <1>0, <2>4 DEF Release
    <3> QED
      BY <1>0, <3>1, NothingHeld
  <2>5. CASE q = p /\ holder' = holder /\ (Start(p) \/ EndStop(p) \/ Get(p))
    <3>1. sink[q].pc \in {"get", "done"}
      BY <1>0, <2>5 DEF Start, EndStop, Get, Sound
    <3>2. \A c \in Correlations : holder'[c] # q
      BY <1>0, <2>5, <3>1 DEF Locks
    <3> QED
      BY <1>0, <3>2, NothingHeld
  <2>6. CASE q = p /\ holder' = holder /\ BeginStop(p)
    <3>1. sink' = [sink EXCEPT ![q] = [sink[q] EXCEPT !.life = "stopping"]] /\ sink[q] \in Sink
      BY <1>0, <2>6 DEF BeginStop, Put
    <3>2. sink'[q].pc = sink[q].pc /\ sink'[q].pending = sink[q].pending
      BY <1>0, <3>1 DEF Sink
    <3> QED
      BY <1>0, <2>6, <3>2, SamePlace
  <2>7. CASE q = p /\ Reserve(p) /\ holder[NextRow(p)] = Free /\ holder' = [holder EXCEPT ![NextRow(p)] = p]
    <3> DEFINE c == NextRow(q)
    <3>1. sink[q].pc = "reserve" /\ Wanted(q) # {}
      BY <1>0, <2>7 DEF Reserve, Locks
    <3>2. c \in Wanted(q) /\ (\A d \in Wanted(q) : c <= d) /\ Wanted(q) \subseteq Correlations
          /\ Wanted(q) \subseteq Nat
      BY <3>1, NextRowIs
    <3>3. sink' = [sink EXCEPT ![q] = IF Wanted(q) = {c} THEN [sink[q] EXCEPT !.pc = "commit"] ELSE sink[q]]
          /\ sink[q] \in Sink
      BY <1>0, <2>7 DEF Reserve, Put
    <3>4. Wanted(q) = Wants(q) \ {d \in Correlations : holder[d] = q} /\ Wants(q) \subseteq Nat
      BY <1>0, WantedIs
    <3> HIDE DEF c
    <3>5. sink'[q].pending = sink[q].pending
          /\ sink'[q].pc = IF Wanted(q) = {c} THEN "commit" ELSE "reserve"
      BY <1>0, <3>1, <3>3 DEF Sink
    <3>6. holder' = [holder EXCEPT ![c] = q] /\ c \in Correlations
      BY <2>7, <3>2 DEF c
    <3>7. Wants(q)' = Wants(q)
      BY <3>5 DEF Wants, Batch
    <3>8. Wanted(q)' = Wanted(q) \ {c}
      <4>1. Wanted(q)' = Wants(q)' \ {d \in Correlations : holder'[d] = q}
        BY DEF Wanted, Wants, Batch
      <4> QED
        BY <1>0, <3>4, <3>6, <3>7, <4>1
    <3>9. \A d \in Wants(q) : d < c => holder[d] = q
      BY <1>0, <3>2, <3>4
    <3>10. \A d \in Correlations : holder'[d] = q => d = c \/ holder[d] = q
      BY <1>0, <3>6
    <3>11. \A d \in Wants(q) : holder[d] = q => holder'[d] = q
      BY <1>0, <3>6
    <3>12. ASSUME NEW d \in Correlations, holder'[d] = q
           PROVE  d \in Wants(q) /\ \A e \in Wants(q) : e < d => holder'[e] = q
      BY <1>0, <3>2, <3>4, <3>9, <3>10, <3>11, <3>12 DEF Locks
    <3>13. sink'[q].pc = "reserve" => Wanted(q)' # {}
      BY <3>2, <3>5, <3>8
    <3> QED
      BY <3>5, <3>7, <3>12, <3>13 DEF Locks
  <2> QED
    BY <2>2, <2>3, <2>4, <2>5, <2>6, <2>7
<1>2. ASSUME NEW p \in Processes, NEW e \in Events, Record(p, e) PROVE Locks(q)'
  <2>1. holder' = holder /\ sink' = [sink EXCEPT ![p] = Accepted(sink[p], e)]
    BY <1>2, RecordStep
  <2>2. Accepted(sink[p], e).pc = sink[p].pc /\ Accepted(sink[p], e).pending = sink[p].pending
    BY <1>0, AcceptedKeeps DEF Sinks
  <2>3. sink'[q].pc = sink[q].pc /\ sink'[q].pending = sink[q].pending
    BY <1>0, <2>1, <2>2
  <2> QED
    BY <1>0, <2>1, <2>3, SamePlace
<1>3. CASE UNCHANGED vars
  BY <1>0, <1>3, SamePlace DEF vars
<1> QED
  BY <1>1, <1>2, <1>3 DEF Next, Living

(* Who is waited for waits, if it waits, for a later row.                   *)
LEMMA WaitsClimb ==
  ASSUME TypeOK, LockInv, NEW p \in Processes, NEW q \in Processes, WaitsFor(p, q),
         NEW r \in Processes, WaitsFor(q, r)
  PROVE  NextRow(p) \in Nat /\ NextRow(q) \in Nat /\ NextRow(p) < NextRow(q)
<1> DEFINE c == NextRow(p)
           d == NextRow(q)
<1>1. Wanted(p) # {} /\ Wanted(q) # {} /\ holder[c] = q
  BY DEF WaitsFor, LockInv, Locks
<1>2. c \in Wanted(p) /\ d \in Wanted(q) /\ c \in Nat /\ d \in Nat /\ c \in Correlations
      /\ d \in Correlations
  BY <1>1, NextRowIs
<1>3. d \in Wants(q) /\ holder[d] # q
  BY <1>2, WantedIs
<1> HIDE DEF c, d
<1>4. ~(d < c) /\ d # c
  BY <1>1, <1>2, <1>3 DEF LockInv, Locks
<1>5. c < d
  BY <1>2, <1>4
<1> QED
  BY <1>2, <1>5 DEF c, d

(* Of processes each waiting for one of them, the one that waits for the    *)
(* least row may leave, and the others still do; so there are none.         *)
Stuck(S) == S # {} /\ \A p \in S : \E q \in S : WaitsFor(p, q)

LEMMA OneLeaves ==
  ASSUME TypeOK, LockInv, NEW S \in SUBSET Processes, Stuck(S)
  PROVE  \E p \in S : Stuck(S \ {p})
<1>1. \A p, q \in S : WaitsFor(p, q) =>
        NextRow(p) \in Nat /\ NextRow(q) \in Nat /\ NextRow(p) < NextRow(q)
  BY WaitsClimb DEF Stuck
<1> DEFINE N == {NextRow(p) : p \in S}
<1>2. N # {} /\ N \subseteq Nat
  BY <1>1 DEF Stuck
<1>3. PICK n \in N : \A m \in N : n <= m
  BY <1>2, LeastWanted
<1>4. PICK p \in S : NextRow(p) = n
  OBVIOUS
<1>5. \A q \in S : NextRow(p) <= NextRow(q) /\ NextRow(q) \in Nat
  BY <1>2, <1>3, <1>4
<1> HIDE DEF N
<1>6. \A q \in S : ~WaitsFor(q, p)
  BY <1>1, <1>5
<1> QED
  BY <1>6 DEF Stuck

LEMMA NobodyStuck ==
  ASSUME TypeOK, LockInv, NEW S \in SUBSET Processes
  PROVE  ~Stuck(S)
<1> SUFFICES ASSUME Stuck(S) PROVE FALSE
  OBVIOUS
<1> DEFINE N == {Cardinality(R) : R \in {R \in SUBSET Processes : Stuck(R)}}
<1>1. ASSUME NEW R \in SUBSET Processes PROVE IsFiniteSet(R) /\ Cardinality(R) \in Nat
  BY AuditAssumption, FS_Subset, FS_CardinalityType
<1>2. N # {} /\ N \subseteq Nat
  BY <1>1
<1>3. PICK n \in N : \A m \in N : n <= m
  BY <1>2, LeastWanted
<1>4. PICK R \in SUBSET Processes : Stuck(R) /\ Cardinality(R) = n
  OBVIOUS
<1>5. PICK p \in R : Stuck(R \ {p})
  BY <1>4, OneLeaves
<1>6. Cardinality(R \ {p}) = Cardinality(R) - 1
  BY <1>1, FS_RemoveElement
<1>7. Cardinality(R \ {p}) \in N
  BY <1>5
<1> HIDE DEF N
<1>8. n <= Cardinality(R \ {p}) /\ Cardinality(R) \in Nat
  BY <1>1, <1>3, <1>7
<1> QED
  BY <1>4, <1>6, <1>8

(* Flushes that wait for each other's rows never form a cycle, of two or of *)
(* more (_reserve_sequences takes them in sorted order), for any processes  *)
(* and batches over any correlations.                                       *)
THEOREM FlushesNeverDeadlock == Spec => []NoLockCycle
<1>1. Init => LockInv
  <2> SUFFICES ASSUME Init, NEW p \in Processes PROVE Locks(p)
    BY DEF LockInv
  <2>1. sink[p].pc = "get" /\ \A c \in Correlations : holder[c] # p
    BY NewKeeps, AuditAssumption DEF Init
  <2> QED
    BY <2>1 DEF Locks
<1>2. TypeOK /\ LockInv => NoLockCycle
  BY NobodyStuck DEF NoLockCycle, Stuck
<1> QED
  BY <1>1, <1>2, TypedInit, TypedStep, LockStep, PTL DEF Spec

-----------------------------------------------------------------------------
(* Losses.  What a process was given and has not any more was written, or   *)
(* counted.                                                                 *)
TableEvents == {table[i].event : i \in DOMAIN table}

LEMMA TableGrows ==
  ASSUME TypeOK, NEW p \in Processes, Land(p)
  PROVE  TableEvents' = TableEvents \cup In(sink[p].pending)
<1> DEFINE q == Batch(p)
           n == Len(table)
<1>1. /\ DOMAIN table \subseteq DOMAIN table'
      /\ \A i \in DOMAIN table : table'[i] = table[i]
      /\ \A j \in DOMAIN q : n + j \in DOMAIN table' /\ table'[n + j].event = q[j]
      /\ \A i \in DOMAIN table' : i \in DOMAIN table \/ \E j \in DOMAIN q : i = n + j
  BY LandTable
<1> HIDE DEF q, n
<1>2. TableEvents' \subseteq TableEvents \cup In(q)
  <2> SUFFICES ASSUME NEW i \in DOMAIN table' PROVE table'[i].event \in TableEvents \cup In(q)
    BY DEF TableEvents
  <2>1. CASE i \in DOMAIN table
    BY <1>1, <2>1 DEF TableEvents
  <2>2. CASE \E j \in DOMAIN q : i = n + j
    BY <1>1, <2>2 DEF In
  <2> QED
    BY <1>1, <2>1, <2>2
<1>3. TableEvents \subseteq TableEvents'
  <2> SUFFICES ASSUME NEW i \in DOMAIN table PROVE table[i].event \in TableEvents'
    BY DEF TableEvents
  <2> QED
    BY <1>1 DEF TableEvents
<1>4. In(q) \subseteq TableEvents'
  <2> SUFFICES ASSUME NEW j \in DOMAIN q PROVE q[j] \in TableEvents'
    BY DEF In
  <2>1. n + j \in DOMAIN table' /\ table'[n + j].event = q[j]
    BY <1>1
  <2> HIDE DEF q
  <2> QED
    BY <2>1 DEF TableEvents
<1> QED
  BY <1>2, <1>3, <1>4 DEF q, Batch

LEMMA InCounts ==
  ASSUME NEW q \in Seq(Events)
  PROVE  IsFiniteSet(In(q)) /\ Cardinality(In(q)) \in Nat /\ Len(q) \in Nat /\ Cardinality(In(q)) <= Len(q)
<1>1. Len(q) \in Nat /\ DOMAIN q = 1 .. Len(q)
  OBVIOUS
<1>2. IsFiniteSet(1 .. Len(q)) /\ Cardinality(1 .. Len(q)) = Len(q)
  BY <1>1, FS_Interval
<1>3. q \in Surjection(1 .. Len(q), In(q))
  BY <1>1 DEF Surjection, In
<1> QED
  BY <1>1, <1>2, <1>3, FS_Surjection, FS_CardinalityType

LEMMA OneMore ==
  ASSUME NEW A, IsFiniteSet(A), NEW B, IsFiniteSet(B), NEW C \in SUBSET (A \cup B)
  PROVE  /\ IsFiniteSet(C) /\ Cardinality(C) <= Cardinality(A) + Cardinality(B)
         /\ Cardinality(A) \in Nat /\ Cardinality(B) \in Nat /\ Cardinality(C) \in Nat
<1>1. IsFiniteSet(A \cup B) /\ Cardinality(A \cup B) = Cardinality(A) + Cardinality(B) - Cardinality(A \cap B)
  BY FS_Union
<1>2. IsFiniteSet(C) /\ Cardinality(C) <= Cardinality(A \cup B)
  BY <1>1, FS_Subset
<1>3. IsFiniteSet(A \cap B)
  BY FS_Intersection
<1>4. Cardinality(A) \in Nat /\ Cardinality(B) \in Nat /\ Cardinality(C) \in Nat
      /\ Cardinality(A \cup B) \in Nat /\ Cardinality(A \cap B) \in Nat
  BY <1>1, <1>2, <1>3, FS_CardinalityType
<1> QED
  BY <1>1, <1>2, <1>4

LossInv == LossCounted /\ \A p \in Processes : IsFiniteSet(seen[p])

LEMMA MissingIs == \A p \in Processes : Missing(p) = seen[p] \ (TableEvents \cup HeldBy(sink[p]))
  BY DEF Missing, TableEvents, HeldBy

(* Nothing more is missing, or what is was counted.                         *)
LEMMA NoMoreLost ==
  ASSUME LossInv, NEW p \in Processes, NEW B, IsFiniteSet(B), NEW n \in Nat, Cardinality(B) <= n,
         Missing(p)' \subseteq Missing(p) \cup B, sink[p].dropped \in Nat,
         sink'[p].dropped = sink[p].dropped + n
  PROVE  Cardinality(Missing(p)') <= sink'[p].dropped
<1>1. IsFiniteSet(Missing(p)) /\ Cardinality(Missing(p)) <= sink[p].dropped
  BY FS_Subset DEF LossInv, LossCounted, Missing
<1>2. /\ Cardinality(Missing(p)') <= Cardinality(Missing(p)) + Cardinality(B)
      /\ Cardinality(Missing(p)) \in Nat /\ Cardinality(B) \in Nat /\ Cardinality(Missing(p)') \in Nat
  BY <1>1, OneMore
<1> QED
  BY <1>1, <1>2

LEMMA LossStep == TypeOK /\ Sinks /\ LossInv /\ [Next]_vars => LossInv'
<1> SUFFICES ASSUME TypeOK, Sinks, LossInv, [Next]_vars, NEW q \in Processes
             PROVE  IsFiniteSet(seen'[q]) /\ Cardinality(Missing(q)') <= sink'[q].dropped
  BY DEF LossInv, LossCounted
<1>0. /\ sink \in [Processes -> Sink] /\ seen \in [Processes -> SUBSET Events]
      /\ sink[q] \in Sink /\ Sound(sink[q]) /\ sink[q].dropped \in Nat /\ IsFiniteSet(seen[q])
      /\ sink[q].pending \in Seq(Events) /\ sink[q].queue \in Seq(Events)
  BY DEF TypeOK, Sinks, LossInv, Sink
<1>e. IsFiniteSet({}) /\ Cardinality({}) = 0
  BY FS_EmptySet
<1>m. /\ Missing(q) = seen[q] \ (TableEvents \cup HeldBy(sink[q]))
      /\ Missing(q)' = seen'[q] \ (TableEvents' \cup HeldBy(sink'[q]))
  BY DEF Missing, TableEvents, HeldBy
<1>u. (UNCHANGED <<table, counter>>) => TableEvents' = TableEvents
  BY DEF TableEvents
<1>1. ASSUME NEW p \in Processes, Living(p)
      PROVE  IsFiniteSet(seen'[q]) /\ Cardinality(Missing(q)') <= sink'[q].dropped
  <2>1. PICK t : sink' = [sink EXCEPT ![p] = t]
    BY <1>1, SinkStep DEF Goes
  <2>2. TableEvents \subseteq TableEvents' /\ (Land(p) => TableEvents' = TableEvents \cup In(sink[p].pending))
    BY <1>1, <1>u, LandOrNot, TableGrows
  <2>3. seen' = seen \/ seen' = [seen EXCEPT ![p] = {}]
    BY <1>1, SeenStep
  <2>4. IsFiniteSet(seen'[q]) /\ seen'[q] \subseteq seen[q]
    BY <1>0, <1>e, <2>3
  <2>5. ASSUME NEW B, IsFiniteSet(B), NEW n \in Nat, Cardinality(B) <= n,
               Missing(q)' \subseteq Missing(q) \cup B, sink'[q].dropped = sink[q].dropped + n
        PROVE  Cardinality(Missing(q)') <= sink'[q].dropped
    BY <1>0, <2>5, NoMoreLost
  <2>6. CASE Missing(q)' \subseteq Missing(q) /\ sink'[q].dropped = sink[q].dropped
    <3>1. sink'[q].dropped = sink[q].dropped + 0 /\ Missing(q)' \subseteq Missing(q) \cup {}
      BY <1>0, <2>6
    <3> QED
      BY <1>e, <2>4, <2>5, <3>1
  <2>7. CASE q # p
    <3>1. sink'[q] = sink[q]
      BY <1>0, <2>1, <2>7
    <3> QED
      BY <1>m, <2>2, <2>4, <2>6, <3>1
  <2>8. CASE q = p /\ (Keeping(p) \/ Dying(p))
    <3>1. CASE seen'[q] = {} /\ sink'[q].dropped = 0
      <4>1. Missing(q)' = {}
        BY <1>m, <3>1
      <4> QED
        BY <1>e, <2>4, <3>1, <4>1
    <3>2. CASE HeldBy(sink'[q]) = HeldBy(sink[q]) /\ sink'[q].dropped = sink[q].dropped
      BY <1>m, <2>2, <2>4, <2>6, <3>2
    <3>3. Dying(p) => seen'[q] = {}
      BY <1>0, <2>8 DEF Dying, Crash
    <3> QED
      BY <2>8, <3>1, <3>2, <3>3 DEF Keeping, Dying
  <2>9. CASE q = p /\ Flushing(p)
    <3> DEFINE B == In(sink[q].pending)
    <3>1. IsFiniteSet(B) /\ Cardinality(B) \in Nat /\ Len(sink[q].pending) \in Nat
          /\ Cardinality(B) <= Len(sink[q].pending)
      BY <1>0, InCounts
    <3>2. HeldBy(sink'[q]) = In(sink[q].queue) /\ HeldBy(sink[q]) = B \cup In(sink[q].queue)
      BY <2>9 DEF Flushing, HeldBy
    <3> HIDE DEF B
    <3>3. Missing(q)' \subseteq Missing(q) \cup B
      BY <1>m, <2>2, <2>4, <3>2
    <3>4. CASE Land(p) /\ sink'[p].dropped = sink[p].dropped
      <4>1. B \subseteq TableEvents'
        BY <2>2, <2>9, <3>4 DEF B
      <4>2. Missing(q)' \subseteq Missing(q)
        BY <1>m, <3>3, <4>1
      <4> QED
        BY <2>6, <2>9, <3>4, <4>2
    <3>5. CASE sink'[p].dropped = sink[p].dropped + Len(sink[p].pending)
      BY <2>4, <2>5, <2>9, <3>1, <3>3, <3>5
    <3> QED
      BY <2>9, <3>4, <3>5 DEF Flushing
  <2>10. CASE q = p /\ Closing(p)
    <3> DEFINE A == In(sink[q].pending)
               B == In(sink[q].queue)
               n == Len(sink[q].pending) + Len(sink[q].queue)
    <3>1. /\ IsFiniteSet(A) /\ Cardinality(A) \in Nat /\ Len(sink[q].pending) \in Nat
          /\ Cardinality(A) <= Len(sink[q].pending)
          /\ IsFiniteSet(B) /\ Cardinality(B) \in Nat /\ Len(sink[q].queue) \in Nat
          /\ Cardinality(B) <= Len(sink[q].queue)
      BY <1>0, InCounts
    <3>2. IsFiniteSet(A \cup B) /\ Cardinality(A \cup B) <= Cardinality(A) + Cardinality(B)
          /\ Cardinality(A \cup B) \in Nat
      BY <3>1, OneMore
    <3>3. HeldBy(sink[q]) = A \cup B
      BY DEF HeldBy
    <3> HIDE DEF A, B
    <3>4. Cardinality(A \cup B) <= n /\ n \in Nat
      <4> DEFINE a == Cardinality(A)
                 b == Cardinality(B)
                 c == Cardinality(A \cup B)
                 k == Len(sink[q].pending)
                 l == Len(sink[q].queue)
      <4>1. a \in Nat /\ b \in Nat /\ c \in Nat /\ k \in Nat /\ l \in Nat /\ a <= k /\ b <= l /\ c <= a + b
        BY <3>1, <3>2
      <4> HIDE DEF a, b, c, k, l
      <4>2. c <= k + l /\ k + l \in Nat
        BY <4>1
      <4> QED
        BY <4>2 DEF c, k, l
    <3>5. Missing(q)' \subseteq Missing(q) \cup (A \cup B) /\ sink'[q].dropped = sink[q].dropped + n
      BY <1>m, <2>2, <2>4, <2>10, <3>3 DEF Closing
    <3> HIDE DEF n
    <3> QED
      BY <2>4, <2>5, <3>2, <3>4, <3>5
  <2> QED
    BY <1>1, <2>7, <2>8, <2>9, <2>10, SinkStep DEF Living, Drain
<1>2. ASSUME NEW p \in Processes, NEW e \in Events, Record(p, e)
      PROVE  IsFiniteSet(seen'[q]) /\ Cardinality(Missing(q)') <= sink'[q].dropped
  <2>1. /\ sink' = [sink EXCEPT ![p] = Accepted(sink[p], e)] /\ seen' = [seen EXCEPT ![p] = @ \cup {e}]
        /\ TableEvents' = TableEvents
    BY <1>2, <1>u, RecordStep
  <2>2. IsFiniteSet({e}) /\ Cardinality({e}) = 1
    BY FS_Singleton
  <2>3. CASE q # p
    <3>1. sink'[q] = sink[q] /\ seen'[q] = seen[q]
      BY <1>0, <2>1, <2>3
    <3>2. sink'[q].dropped = sink[q].dropped + 0 /\ Missing(q)' \subseteq Missing(q) \cup {}
      BY <1>0, <1>m, <2>1, <3>1
    <3>3. Cardinality(Missing(q)') <= sink'[q].dropped
      BY <1>0, <1>e, <3>2, NoMoreLost
    <3> QED
      BY <1>0, <3>1, <3>3
  <2>4. CASE q = p
    <3>1. sink'[q] = Accepted(sink[q], e) /\ seen'[q] = seen[q] \cup {e}
      BY <1>0, <2>1, <2>4
    <3>2. IsFiniteSet(seen'[q])
      <4>1. IsFiniteSet(seen[q] \cup {e})
        BY <1>0, FS_AddElement
      <4> QED
        BY <3>1, <4>1
    <3>3. CASE HeldBy(sink'[q]) = HeldBy(sink[q]) \cup {e} /\ sink'[q].dropped = sink[q].dropped
      <4>1. sink'[q].dropped = sink[q].dropped + 0 /\ Missing(q)' \subseteq Missing(q) \cup {}
        BY <1>0, <1>m, <2>1, <3>1, <3>3
      <4> QED
        BY <1>0, <1>e, <3>2, <4>1, NoMoreLost
    <3>4. CASE HeldBy(sink'[q]) = HeldBy(sink[q]) /\ sink'[q].dropped = sink[q].dropped + 1
      <4>1. Missing(q)' \subseteq Missing(q) \cup {e}
        BY <1>m, <2>1, <3>1, <3>4
      <4> QED
        BY <1>0, <2>2, <3>2, <3>4, <4>1, NoMoreLost
    <3> QED
      BY <1>0, <3>1, <3>3, <3>4, AcceptedKeeps
  <2> QED
    BY <2>3, <2>4
<1>3. CASE UNCHANGED vars
  <2>1. seen'[q] = seen[q] /\ Missing(q)' = Missing(q) /\ sink'[q] = sink[q]
    BY <1>3 DEF vars, Missing
  <2> QED
    BY <1>0, <2>1 DEF LossInv, LossCounted
<1> QED
  BY <1>1, <1>2, <1>3 DEF Next, Living

(* No event is lost silently: what a process's sink was given and neither   *)
(* wrote nor holds is within its dropped_count, however often batches fail, *)
(* commits go unacknowledged and stops time out.                            *)
THEOREM LossesAreCounted == Spec => []LossCounted
<1>1. Init => LossInv
  <2> SUFFICES ASSUME Init, NEW p \in Processes
               PROVE  IsFiniteSet(seen[p]) /\ Cardinality(Missing(p)) <= sink[p].dropped
    BY DEF LossInv, LossCounted
  <2>1. seen[p] = {} /\ Missing(p) = {} /\ sink[p].dropped = 0
    BY NewKeeps DEF Init, Missing
  <2> QED
    BY <2>1, FS_EmptySet
<1>2. LossInv => LossCounted
  BY DEF LossInv
<1> QED
  BY <1>1, <1>2, TypedInit, TypedStep, LossStep, PTL DEF Spec

-----------------------------------------------------------------------------
(* The trail.  The sequences a batch reserves follow the counter in the     *)
(* order of the batch: a row's place among those of its correlation.        *)
UpToIn(S, i) == {j \in S : j <= i}
Rank(S, i) == Cardinality(UpToIn(S, i))

LEMMA RankOrder ==
  ASSUME NEW n \in Nat, NEW S \in SUBSET (1 .. n)
  PROVE  /\ IsFiniteSet(S) /\ Cardinality(S) \in Nat
         /\ \A i \in S : Rank(S, i) \in 1 .. Cardinality(S)
         /\ \A i, j \in S : i < j => Rank(S, i) < Rank(S, j)
<1>1. IsFiniteSet(S) /\ Cardinality(S) \in Nat
  BY UpTo
<1>2. ASSUME NEW i \in S PROVE IsFiniteSet(UpToIn(S, i)) /\ Rank(S, i) \in 1 .. Cardinality(S)
  <2>1. UpToIn(S, i) \in SUBSET S /\ i \in UpToIn(S, i)
    BY DEF UpToIn
  <2>2. IsFiniteSet(UpToIn(S, i)) /\ Cardinality(UpToIn(S, i)) <= Cardinality(S)
    BY <1>1, <2>1, FS_Subset
  <2>3. Cardinality(UpToIn(S, i)) \in Nat /\ Cardinality(UpToIn(S, i)) # 0
    BY <2>1, <2>2, FS_CardinalityType, FS_EmptySet
  <2> QED
    BY <1>1, <2>2, <2>3 DEF Rank
<1>3. ASSUME NEW i \in S, NEW j \in S, i < j PROVE Rank(S, i) < Rank(S, j)
  <2>1. UpToIn(S, i) \subseteq UpToIn(S, j) \ {j} /\ j \in UpToIn(S, j)
    <3>1. i \in Nat /\ j \in Nat /\ \A l \in S : l \in Nat
      OBVIOUS
    <3>2. j \in UpToIn(S, j)
      BY <3>1 DEF UpToIn
    <3>3. ASSUME NEW l \in UpToIn(S, i) PROVE l \in UpToIn(S, j) \ {j}
      <4>1. l \in S /\ l <= i
        BY DEF UpToIn
      <4>2. l <= j /\ l # j
        BY <1>3, <3>1, <4>1
      <4> QED
        BY <4>1, <4>2 DEF UpToIn
    <3> QED
      BY <3>2, <3>3
  <2>2. IsFiniteSet(UpToIn(S, j) \ {j}) /\ Cardinality(UpToIn(S, j) \ {j}) = Cardinality(UpToIn(S, j)) - 1
    <3>1. IsFiniteSet(UpToIn(S, j))
      BY <1>2
    <3> QED
      BY <2>1, <3>1, FS_RemoveElement
  <2>3. Cardinality(UpToIn(S, i)) <= Cardinality(UpToIn(S, j) \ {j})
    BY <2>1, <2>2, FS_Subset
  <2>4. Rank(S, i) \in Int /\ Rank(S, j) \in Int
    BY <1>1, <1>2
  <2> QED
    BY <2>2, <2>3, <2>4 DEF Rank
<1> QED
  BY <1>1, <1>2, <1>3

LEMMA RanksFill ==
  ASSUME NEW n \in Nat, NEW S \in SUBSET (1 .. n), NEW k \in 1 .. Cardinality(S)
  PROVE  \E i \in S : Rank(S, i) = k
<1> DEFINE f == [i \in S |-> Rank(S, i)]
           T == 1 .. Cardinality(S)
<1>1. /\ IsFiniteSet(S) /\ Cardinality(S) \in Nat
      /\ \A i \in S : Rank(S, i) \in T
      /\ \A i, j \in S : i < j => Rank(S, i) < Rank(S, j)
  BY RankOrder
<1>2. ASSUME NEW i \in S, NEW j \in S, Rank(S, i) = Rank(S, j) PROVE i = j
  <2>1. i \in Nat /\ j \in Nat /\ Rank(S, i) \in Int
    BY <1>1
  <2>2. ~(i < j) /\ ~(j < i)
    BY <1>1, <1>2, <2>1
  <2> QED
    BY <2>1, <2>2
<1>3. f \in [S -> T] /\ \A i \in S : f[i] = Rank(S, i)
  BY <1>1
<1>4. f \in Injection(S, T)
  <2> HIDE DEF f, T
  <2>1. \A i, j \in S : f[i] = f[j] => i = j
    BY <1>2, <1>3
  <2> QED
    BY <1>3, <2>1 DEF Injection, IsInjective
<1>5. IsFiniteSet(T) /\ Cardinality(T) = Cardinality(S)
  BY <1>1, FS_Interval
<1>6. f \in Surjection(S, T)
  <2> HIDE DEF f, T
  <2> QED
    BY <1>4, <1>5, FS_Injection
<1> QED
  BY <1>6 DEF Surjection

LEMMA NthIsRank ==
  ASSUME TypeOK, NEW p \in Processes, NEW c, NEW i \in OfCorr(Batch(p), c)
  PROVE  /\ NthOf(Batch(p), i) = Rank(OfCorr(Batch(p), c), i)
         /\ OfCorr(Batch(p), c) \in SUBSET (1 .. Len(Batch(p)))
<1> DEFINE q == Batch(p)
<1>1. DOMAIN q = 1 .. Len(q) /\ Len(q) \in Nat
  BY RowsAre
<1> HIDE DEF q
<1>2. i \in 1 .. Len(q) /\ CorrOf[q[i]] = c
  BY <1>1 DEF OfCorr, q
<1>3. {j \in 1 .. i : CorrOf[q[j]] = CorrOf[q[i]]} = UpToIn(OfCorr(q, c), i)
  BY <1>1, <1>2 DEF OfCorr, UpToIn
<1> QED
  BY <1>1, <1>3 DEF NthOf, Rank, OfCorr, q

LEMMA GaplessLand ==
  ASSUME TypeOK, SequencesGapless, NEW p \in Processes, Land(p)
  PROVE  SequencesGapless'
<1> SUFFICES ASSUME NEW c \in Correlations
             PROVE  /\ {table'[i].seq : i \in Written(c)'} = 1 .. counter'[c]
                    /\ Cardinality(Written(c)') = counter'[c]
  BY DEF SequencesGapless
<1> DEFINE q == Batch(p)
           n == Len(table)
           O == OfCorr(q, c)
           W == Written(c)
           M == {n + j : j \in O}
           k == counter[c]
           m == Cardinality(O)
<1>1. /\ n \in Nat /\ DOMAIN table = 1 .. n /\ DOMAIN q = 1 .. Len(q) /\ Len(q) \in Nat
      /\ DOMAIN table \subseteq DOMAIN table'
      /\ \A i \in DOMAIN table : table'[i] = table[i]
      /\ \A j \in DOMAIN q : /\ n + j \in DOMAIN table' /\ table'[n + j].event = q[j]
                             /\ table'[n + j].seq = counter[CorrOf[q[j]]] + NthOf(q, j)
      /\ \A i \in DOMAIN table' : i \in DOMAIN table \/ \E j \in DOMAIN q : i = n + j
  BY LandTable
<1>2. O \in SUBSET (1 .. Len(q)) /\ \A j \in O : NthOf(q, j) = Rank(O, j)
  BY <1>1, NthIsRank DEF OfCorr
<1>3. counter'[c] = k + m /\ k \in Nat
  BY LandCounts DEF TypeOK
<1>4. IsFiniteSet(O) /\ m \in Nat /\ \A j \in O : Rank(O, j) \in 1 .. m
  BY <1>1, <1>2, RankOrder
<1>5. \A r \in 1 .. m : \E j \in O : Rank(O, j) = r
  BY <1>1, <1>2, RanksFill
<1>6. {table[i].seq : i \in W} = 1 .. k /\ Cardinality(W) = k
  BY DEF SequencesGapless
<1>7. W \subseteq 1 .. n /\ \A i \in W : CorrOf[table[i].event] = c
  BY <1>1 DEF Written
<1>8. \A j \in O : j \in DOMAIN q /\ CorrOf[q[j]] = c
  BY DEF OfCorr
<1>9. Written(c)' = W \cup M
  <2>1. Written(c)' = {i \in DOMAIN table' : CorrOf[table'[i].event] = c}
    BY DEF Written
  <2>2. W = {i \in DOMAIN table : CorrOf[table[i].event] = c}
    BY DEF Written
  <2>3. O = {j \in DOMAIN q : CorrOf[q[j]] = c}
    BY DEF OfCorr
  <2> HIDE DEF q, n, O, W
  <2>4. W \subseteq Written(c)' /\ M \subseteq Written(c)'
    BY <1>1, <2>1, <2>2, <2>3
  <2>5. Written(c)' \subseteq W \cup M
    <3> SUFFICES ASSUME NEW i \in DOMAIN table', CorrOf[table'[i].event] = c PROVE i \in W \cup M
      BY <2>1
    <3>1. CASE i \in DOMAIN table
      BY <1>1, <2>2, <3>1
    <3>2. CASE \E j \in DOMAIN q : i = n + j
      BY <1>1, <2>3, <3>2
    <3> QED
      BY <1>1, <3>1, <3>2
  <2> QED
    BY <2>4, <2>5
<1> HIDE DEF q, n, O, W, k, m
<1>10. \A i \in W : table'[i].seq = table[i].seq
  BY <1>1, <1>7
<1>11. \A j \in O : table'[n + j].seq = k + Rank(O, j)
  BY <1>1, <1>2, <1>8 DEF k
<1>12. {table'[i].seq : i \in W \cup M} = 1 .. k + m
  <2>1. ASSUME NEW i \in W PROVE table'[i].seq \in 1 .. k + m
    BY <1>3, <1>4, <1>6, <1>10
  <2>2. ASSUME NEW j \in O PROVE table'[n + j].seq \in 1 .. k + m
    BY <1>3, <1>4, <1>11
  <2>3. ASSUME NEW s \in 1 .. k + m PROVE \E i \in W \cup M : table'[i].seq = s
    <3>1. CASE s <= k
      <4>1. s \in 1 .. k
        BY <1>3, <1>4, <3>1
      <4> QED
        BY <1>6, <1>10, <4>1
    <3>2. CASE ~(s <= k)
      <4>1. s - k \in 1 .. m /\ s = k + (s - k)
        BY <1>3, <1>4, <3>2
      <4>2. PICK j \in O : Rank(O, j) = s - k
        BY <1>5, <4>1
      <4> QED
        BY <1>11, <4>1, <4>2
    <3> QED
      BY <3>1, <3>2
  <2> QED
    BY <2>1, <2>2, <2>3
<1>13. IsFiniteSet(M) /\ Cardinality(M) = m
  <2> DEFINE f == [j \in O |-> n + j]
  <2>1. f \in Bijection(O, M)
    <3>1. \A i, j \in O : n + i = n + j => i = j
      BY <1>1, <1>2
    <3>2. f \in [O -> M] /\ (\A j \in O : f[j] = n + j) /\ \A x \in M : \E j \in O : x = n + j
      OBVIOUS
    <3> HIDE DEF f, M
    <3>3. f \in Injection(O, M)
      <4>1. \A i, j \in O : f[i] = f[j] => i = j
        BY <3>1, <3>2
      <4> QED
        BY <3>2, <4>1 DEF Injection, IsInjective
    <3>4. f \in Surjection(O, M)
      BY <3>2 DEF Surjection
    <3> QED
      BY <3>3, <3>4 DEF Bijection
  <2> HIDE DEF f, M
  <2>2. ExistsBijection(O, M)
    BY <2>1 DEF ExistsBijection
  <2> QED
    BY <1>4, <2>2, FS_Bijection DEF m
<1>14. W \cap M = {}
  BY <1>1, <1>2, <1>7
<1>15. IsFiniteSet(W)
  BY <1>1, <1>7, UpTo
<1> HIDE DEF M
<1>16. Cardinality(W \cup M) = k + m
  <2>1. Cardinality(W \cup M) = Cardinality(W) + Cardinality(M) - Cardinality(W \cap M)
    BY <1>13, <1>15, FS_Union
  <2>2. Cardinality(W \cap M) = 0
    BY <1>14, FS_EmptySet
  <2> QED
    BY <1>3, <1>4, <1>6, <1>13, <2>1, <2>2
<1> QED
  BY <1>3, <1>9, <1>12, <1>16

(* The rows of a batch follow those of the same process and correlation     *)
(* that are in the table, and each other in the order of emission.          *)
LEMMA OrderedLand ==
  ASSUME TypeOK, SequencesGapless, OrderKept, NEW p \in Processes, Land(p), Inc(Batch(p)),
         \A e \in In(Batch(p)) : HomeOf[e] = p,
         \A d \in TableEvents, e \in In(Batch(p)) : HomeOf[d] = p => d < e
  PROVE  OrderKept'
<1> DEFINE q == Batch(p)
           n == Len(table)
<1>1. /\ n \in Nat /\ DOMAIN table = 1 .. n /\ DOMAIN q = 1 .. Len(q) /\ Len(q) \in Nat
      /\ \A i \in DOMAIN table : table'[i] = table[i]
      /\ \A j \in DOMAIN q : /\ table'[n + j].event = q[j]
                             /\ table'[n + j].seq = counter[CorrOf[q[j]]] + NthOf(q, j)
      /\ \A i \in DOMAIN table' : i \in DOMAIN table \/ \E j \in DOMAIN q : i = n + j
  BY LandTable
<1>2. q \in Seq(Events) /\ \A j \in DOMAIN q : q[j] \in In(q) /\ q[j] \in Events
  <2>1. sink[p] \in Sink
    BY DEF TypeOK
  <2>2. q \in Seq(Events)
    BY <2>1 DEF Sink, Batch
  <2> HIDE DEF q
  <2>3. \A j \in DOMAIN q : q[j] \in Events
    BY <2>2
  <2> QED
    BY <2>2, <2>3 DEF In
<1>3. Inc(q) /\ \A e \in In(q) : HomeOf[e] = p
  OBVIOUS
<1>4. \A i \in DOMAIN table : table[i].event \in Events /\ table[i].event \in TableEvents /\ table[i].seq \in Nat
  <2> DEFINE Row == [event : Events, seq : Nat]
  <2>1. table \in Seq(Row)
    BY DEF TypeOK
  <2>2. \A r \in Row : r.event \in Events /\ r.seq \in Nat
    OBVIOUS
  <2> HIDE DEF Row
  <2>3. \A i \in DOMAIN table : table[i] \in Row
    BY <2>1
  <2> QED
    BY <2>2, <2>3 DEF TableEvents
<1>5. ASSUME NEW j \in DOMAIN q
      PROVE  counter[CorrOf[q[j]]] \in Nat /\ NthOf(q, j) \in Nat \ {0}
  <2>1. j \in OfCorr(q, CorrOf[q[j]]) /\ CorrOf[q[j]] \in Correlations
    BY <1>2, NumberedEvents DEF OfCorr
  <2>2. /\ NthOf(q, j) = Rank(OfCorr(q, CorrOf[q[j]]), j)
        /\ OfCorr(q, CorrOf[q[j]]) \in SUBSET (1 .. Len(q))
    BY <2>1, NthIsRank
  <2>3. Rank(OfCorr(q, CorrOf[q[j]]), j) \in 1 .. Cardinality(OfCorr(q, CorrOf[q[j]]))
        /\ Cardinality(OfCorr(q, CorrOf[q[j]])) \in Nat
    BY <1>1, <2>1, <2>2, RankOrder
  <2> QED
    BY <2>1, <2>2, <2>3 DEF TypeOK
<1>6. ASSUME NEW i \in DOMAIN table PROVE table[i].seq <= counter[CorrOf[table[i].event]]
  <2>1. CorrOf[table[i].event] \in Correlations /\ i \in Written(CorrOf[table[i].event])
    BY <1>4, NumberedEvents DEF Written
  <2>2. table[i].seq \in 1 .. counter[CorrOf[table[i].event]]
    BY <2>1 DEF SequencesGapless
  <2> QED
    BY <2>1, <2>2 DEF TypeOK
<1> SUFFICES ASSUME NEW i \in DOMAIN table', NEW j \in DOMAIN table',
                    HomeOf[table'[i].event] = HomeOf[table'[j].event],
                    CorrOf[table'[i].event] = CorrOf[table'[j].event],
                    table'[i].event < table'[j].event
             PROVE  table'[i].seq < table'[j].seq
  BY DEF OrderKept
<1>7. CASE i \in DOMAIN table /\ j \in DOMAIN table
  BY <1>1, <1>7 DEF OrderKept
<1> HIDE DEF n, q
<1>8. CASE i \in DOMAIN table /\ \E v \in DOMAIN q : j = n + v
  <2>1. PICK v \in DOMAIN q : j = n + v
    BY <1>8
  <2>2. /\ table'[j].seq = counter[CorrOf[q[v]]] + NthOf(q, v) /\ table'[j].event = q[v]
        /\ table'[i] = table[i]
    BY <1>1, <1>8, <2>1
  <2>3. table[i].seq <= counter[CorrOf[q[v]]] /\ table[i].seq \in Nat
    BY <1>4, <1>6, <1>8, <2>2
  <2> QED
    BY <1>5, <2>2, <2>3
<1>9. CASE j \in DOMAIN table /\ \E u \in DOMAIN q : i = n + u
  <2>1. PICK u \in DOMAIN q : i = n + u
    BY <1>9
  <2>2. table'[i].event = q[u] /\ table'[j] = table[j] /\ table[j].event \in TableEvents
    BY <1>1, <1>4, <1>9, <2>1
  <2>3. HomeOf[table[j].event] = p /\ q[u] \in In(q)
    BY <1>2, <1>3, <2>2
  <2>4. table[j].event < q[u] /\ q[u] < table[j].event
    BY <2>2, <2>3 DEF q
  <2>5. table[j].event \in Nat /\ q[u] \in Nat
    BY <1>2, <1>4, <1>9, NumberedEvents
  <2> QED
    BY <2>4, <2>5
<1>10. CASE (\E u \in DOMAIN q : i = n + u) /\ \E v \in DOMAIN q : j = n + v
  <2>1. PICK u \in DOMAIN q, v \in DOMAIN q : i = n + u /\ j = n + v
    BY <1>10
  <2>2. /\ table'[i].event = q[u] /\ table'[i].seq = counter[CorrOf[q[u]]] + NthOf(q, u)
        /\ table'[j].event = q[v] /\ table'[j].seq = counter[CorrOf[q[v]]] + NthOf(q, v)
    BY <1>1, <2>1
  <2>3. u < v
    <3>1. u \in Nat /\ v \in Nat
      BY <1>1
    <3>2. q[u] \in Nat /\ q[v] \in Nat /\ q[u] < q[v]
      BY <1>2, <2>2, NumberedEvents
    <3>3. ~(v < u) /\ u # v
      BY <1>3, <3>2 DEF Inc
    <3> QED
      BY <3>1, <3>3
  <2> DEFINE c == CorrOf[q[u]]
  <2>4. u \in OfCorr(q, c) /\ v \in OfCorr(q, c) /\ CorrOf[q[v]] = c
    BY <2>2 DEF OfCorr
  <2> HIDE DEF c
  <2>5. /\ NthOf(q, u) = Rank(OfCorr(q, c), u) /\ NthOf(q, v) = Rank(OfCorr(q, c), v)
        /\ OfCorr(q, c) \in SUBSET (1 .. Len(q))
    BY <2>4, NthIsRank DEF q
  <2>6. Rank(OfCorr(q, c), u) < Rank(OfCorr(q, c), v)
    BY <1>1, <2>3, <2>4, <2>5, RankOrder
  <2>7. NthOf(q, u) < NthOf(q, v) /\ counter[c] \in Nat
    BY <1>5, <2>4, <2>5, <2>6 DEF c
  <2> QED
    BY <1>5, <2>2, <2>4, <2>7 DEF c
<1> QED
  BY <1>1, <1>7, <1>8, <1>9, <1>10

(* What the order rests on: a sink holds events of its own process, all     *)
(* emitted after those of that process in the table, and no event is        *)
(* emitted before an earlier one of its process.                            *)
HeldInOrder ==
  \A p \in Processes :
    /\ Ordered(sink[p])
    /\ \A e \in HeldBy(sink[p]) :
         /\ HomeOf[e] = p /\ e \in emitted
         /\ \A d \in TableEvents : HomeOf[d] = p => d < e
EmittedInOrder ==
  /\ TableEvents \subseteq emitted
  /\ \A e \in emitted, d \in Events : HomeOf[d] = HomeOf[e] /\ d < e => d \in emitted
OrderInv == TrailInOrder /\ HeldInOrder /\ EmittedInOrder

LEMMA LandedAreGone ==
  ASSUME TypeOK, Sinks, NEW p \in Processes, Commit(p) \/ StopTimesOut(p) \/ Crash(p)
  PROVE  HeldBy(sink'[p]) \subseteq In(sink[p].queue)
  BY SinkStep DEF Flushing, Closing, Dying

LEMMA FewerHeld ==
  ASSUME TypeOK, Sinks, NEW p \in Processes, Living(p)
  PROVE  HeldBy(sink'[p]) \subseteq HeldBy(sink[p])
<1>1. Keeping(p) \/ Flushing(p) \/ Closing(p) \/ Dying(p)
  BY SinkStep DEF Living, Drain
<1> QED
  BY <1>1 DEF Keeping, Flushing, Closing, Dying, HeldBy

LEMMA OrderLiving ==
  ASSUME TypeOK, Sinks, OrderInv, NEW p \in Processes, Living(p)
  PROVE  OrderInv'
<1>1. /\ emitted' = emitted
      /\ UNCHANGED <<table, counter>> \/ (Land(p) /\ (Commit(p) \/ StopTimesOut(p) \/ Crash(p)))
  BY LandOrNot
<1>2. PICK t : Ordered(t) /\ sink' = [sink EXCEPT ![p] = t]
  BY SinkStep DEF Goes, OrderInv, HeldInOrder
<1>3. sink'[p] = t /\ \A q \in Processes : q # p => sink'[q] = sink[q]
  BY <1>2 DEF TypeOK
<1>4. HeldBy(sink'[p]) \subseteq HeldBy(sink[p])
  BY FewerHeld
<1>5. \A q \in Processes :
        /\ Ordered(sink'[q])
        /\ \A e \in HeldBy(sink'[q]) : HomeOf[e] = q /\ e \in emitted' /\ e \in HeldBy(sink[q])
  BY <1>1, <1>2, <1>3, <1>4 DEF OrderInv, HeldInOrder
<1>6. CASE UNCHANGED <<table, counter>>
  <2>1. TrailInOrder' /\ TableEvents' = TableEvents
    BY <1>6 DEF OrderInv, TrailInOrder, SequencesGapless, OrderKept, Written, TableEvents
  <2> QED
    BY <1>1, <1>5, <2>1 DEF OrderInv, HeldInOrder, EmittedInOrder
<1>7. CASE Land(p) /\ (Commit(p) \/ StopTimesOut(p) \/ Crash(p))
  <2>1. In(Batch(p)) \subseteq HeldBy(sink[p]) /\ Inc(Batch(p))
        /\ \A a \in In(Batch(p)), b \in In(sink[p].queue) : a < b
    BY DEF OrderInv, HeldInOrder, HeldBy, Ordered, Batch
  <2>2. \A e \in In(Batch(p)) :
          HomeOf[e] = p /\ e \in emitted /\ \A d \in TableEvents : HomeOf[d] = p => d < e
    BY <2>1 DEF OrderInv, HeldInOrder
  <2>3. TrailInOrder'
    BY <1>7, <2>1, <2>2, GaplessLand, OrderedLand DEF OrderInv, TrailInOrder
  <2>4. TableEvents' = TableEvents \cup In(Batch(p))
    BY <1>7, TableGrows DEF Batch
  <2>5. HeldBy(sink'[p]) \subseteq In(sink[p].queue)
    BY <1>7, LandedAreGone
  <2>6. HeldInOrder'
    <3> SUFFICES ASSUME NEW q \in Processes, NEW e \in HeldBy(sink'[q]), NEW d \in TableEvents',
                        HomeOf[d] = q
                 PROVE  d < e
      BY <1>5 DEF HeldInOrder
    <3>1. CASE d \in TableEvents
      BY <1>5, <3>1 DEF OrderInv, HeldInOrder
    <3>2. CASE d \in In(Batch(p))
      <4>1. q = p
        BY <2>2, <3>2
      <4> QED
        BY <2>1, <2>5, <3>2, <4>1
    <3> QED
      BY <2>4, <3>1, <3>2
  <2>7. EmittedInOrder'
    BY <1>1, <2>2, <2>4 DEF OrderInv, EmittedInOrder
  <2> QED
    BY <2>3, <2>6, <2>7 DEF OrderInv
<1> QED
  BY <1>1, <1>6, <1>7

LEMMA OrderRecord ==
  ASSUME TypeOK, Sinks, OrderInv, NEW p \in Processes, NEW e \in Events, Record(p, e)
  PROVE  OrderInv'
<1> DEFINE t == Accepted(sink[p], e)
<1>1. /\ sink' = [sink EXCEPT ![p] = t] /\ emitted' = emitted \cup {e} /\ UNCHANGED <<table, counter>>
      /\ sink[p] \in Sink /\ Sound(sink[p])
  BY RecordStep DEF TypeOK, Sinks
<1>2. HomeOf[e] = p /\ e \notin emitted /\ \A d \in Events : HomeOf[d] = p /\ d < e => d \in emitted
  BY DEF Record
<1>3. TrailInOrder' /\ TableEvents' = TableEvents
  BY <1>1 DEF OrderInv, TrailInOrder, SequencesGapless, OrderKept, Written, TableEvents
<1>4. ASSUME NEW d \in emitted, HomeOf[d] = p PROVE d < e
  <2>1. d \in Nat /\ e \in Nat /\ d # e
    BY <1>2, NumberedEvents DEF TypeOK
  <2>2. ~(e < d)
    BY <1>2, <1>4 DEF OrderInv, EmittedInOrder
  <2> QED
    BY <2>1, <2>2
<1>5. \A d \in HeldBy(sink[p]) : d < e
  BY <1>4 DEF OrderInv, HeldInOrder
<1>6. Ordered(t) /\ HeldBy(t) \subseteq HeldBy(sink[p]) \cup {e}
  BY <1>1, <1>5, AcceptedKeeps DEF OrderInv, HeldInOrder
<1>7. sink'[p] = t /\ \A q \in Processes : q # p => sink'[q] = sink[q]
  BY <1>1 DEF TypeOK
<1>8. HeldInOrder'
  <2> SUFFICES ASSUME NEW q \in Processes
               PROVE  /\ Ordered(sink'[q])
                      /\ \A d \in HeldBy(sink'[q]) :
                           /\ HomeOf[d] = q /\ d \in emitted'
                           /\ \A c \in TableEvents' : HomeOf[c] = q => c < d
    BY DEF HeldInOrder
  <2>1. CASE q = p
    <3>1. \A c \in TableEvents : HomeOf[c] = p => c < e
      BY <1>4 DEF OrderInv, EmittedInOrder
    <3> QED
      BY <1>1, <1>2, <1>3, <1>6, <1>7, <2>1, <3>1 DEF OrderInv, HeldInOrder
  <2>2. CASE q # p
    BY <1>1, <1>3, <1>7, <2>2 DEF OrderInv, HeldInOrder
  <2> QED
    BY <2>1, <2>2
<1>9. EmittedInOrder'
  BY <1>1, <1>2, <1>3 DEF OrderInv, EmittedInOrder
<1> QED
  BY <1>3, <1>8, <1>9 DEF OrderInv

LEMMA OrderStep == TypeOK /\ Sinks /\ OrderInv /\ [Next]_vars => OrderInv'
<1> SUFFICES ASSUME TypeOK, Sinks, OrderInv, [Next]_vars PROVE OrderInv'
  OBVIOUS
<1>1. CASE UNCHANGED vars
  BY <1>1 DEF vars, OrderInv, TrailInOrder, SequencesGapless, OrderKept, Written, HeldInOrder, EmittedInOrder,
              TableEvents
<1>2. CASE Next
  BY <1>2, OrderLiving, OrderRecord DEF Next, Living
<1> QED
  BY <1>1, <1>2

(* The sequences of a correlation are 1 .. n, each given once, and number   *)
(* the events of each process in the order in which it emitted them: over   *)
(* any number of processes, failed batches, timed-out stops and crashes.    *)
THEOREM TrailReadsBack == Spec => []TrailInOrder
<1>1. Init => OrderInv
  <2> SUFFICES ASSUME Init PROVE OrderInv
    OBVIOUS
  <2>1. /\ table = <<>> /\ emitted = {} /\ counter = [c \in Correlations |-> 0]
        /\ \A p \in Processes : sink[p] = NewSink
    BY DEF Init
  <2>2. DOMAIN table = {} /\ TableEvents = {} /\ \A c : Written(c) = {}
    BY <2>1 DEF TableEvents, Written
  <2>3. TrailInOrder
    <3>1. Cardinality({}) = 0 /\ 1 .. 0 = {}
      BY FS_EmptySet
    <3> QED
      BY <2>1, <2>2, <3>1 DEF TrailInOrder, SequencesGapless, OrderKept
  <2>4. HeldInOrder
    BY <2>1, NewKeeps DEF HeldInOrder
  <2> QED
    BY <2>1, <2>2, <2>3, <2>4 DEF OrderInv, EmittedInOrder
<1>2. OrderInv => TrailInOrder
  BY DEF OrderInv
<1> QED
  BY <1>1, <1>2, TypedInit, TypedStep, OrderStep, PTL DEF Spec

-----------------------------------------------------------------------------
(* The final batch.  A closed sink has an empty queue and its drainer never *)
(* waits for an event again: it flushes its last batch or has ended.        *)
Sealed(s) == s.closed => s.queue = <<>> /\ s.pc # "get"
SealInv == \A p \in Processes : Sealed(sink[p])

LEMMA LoopSeals ==
  ASSUME NEW s \in Sink, ~s.closed
  PROVE  Loop(s) \in Sink /\ Sealed(Loop(s))
<1>1. s.queue \in Seq(Events) /\ s.pending \in Seq(Events) /\ s.pending \o s.queue \in Seq(Events)
  BY ConcatEvents DEF Sink
<1> QED
  BY <1>1, EmptyEvents DEF Loop, Sink, Sealed

LEMMA FlushSeals ==
  ASSUME NEW s \in Sink
  PROVE  Sealed(Flushed(s)) \/ (s.closed /\ s.queue # <<>>)
<1> DEFINE t == [s EXCEPT !.pending = <<>>]
<1>1. t \in Sink /\ t.closed = s.closed
  BY EmptyEvents DEF Sink
<1>2. CASE s.closed
  <2>1. Flushed(s).pc = "done" /\ Flushed(s).queue = s.queue
    BY <1>2 DEF Flushed, Sink
  <2> QED
    BY <1>2, <2>1 DEF Sealed
<1>3. CASE ~s.closed
  <2>1. Flushed(s) = Loop(t)
    BY <1>3 DEF Flushed
  <2> HIDE DEF t
  <2> QED
    BY <1>1, <1>3, <2>1, LoopSeals
<1> QED
  BY <1>2, <1>3

LEMMA SealStep == TypeOK /\ Sinks /\ SealInv /\ [Next]_vars => SealInv'
<1> SUFFICES ASSUME TypeOK, Sinks, SealInv, [Next]_vars, NEW q \in Processes PROVE Sealed(sink'[q])
  BY DEF SealInv
<1>0. sink \in [Processes -> Sink]
  BY DEF TypeOK
<1>a. ASSUME NEW p \in Processes, NEW t, Sealed(t), Put(p, t) PROVE Sealed(sink'[q])
  BY <1>0, <1>a DEF Put, SealInv
<1>1. ASSUME NEW p \in Processes, Living(p) PROVE Sealed(sink'[q])
  <2> DEFINE s == sink[p]
  <2>0. s \in Sink /\ Sealed(s)
    BY <1>0 DEF SealInv
  <2> HIDE DEF s
  <2>1. CASE Start(p)
    <3>1. Sealed([NewSink EXCEPT !.life = "up"])
      BY DEF Sealed, NewSink
    <3> QED
      BY <1>a, <2>1, <3>1 DEF Start
  <2>2. CASE BeginStop(p)
    <3>1. Sealed([s EXCEPT !.life = "stopping"])
      BY <2>0 DEF Sealed, Sink
    <3> QED
      BY <1>a, <2>2, <3>1 DEF BeginStop, s
  <2>3. CASE EndStop(p) \/ StopTimesOut(p)
    <3>1. Sealed(Closed(s)) /\ Sealed([Closed(s) EXCEPT !.life = "off"])
      BY <2>0 DEF Sealed, Closed, Counting, Sink
    <3> QED
      BY <1>a, <2>3, <3>1 DEF EndStop, StopTimesOut, s
  <2>4. CASE Crash(p)
    <3>1. Sealed(NewSink)
      BY DEF Sealed, NewSink
    <3> QED
      BY <1>a, <2>4, <3>1 DEF Crash
  <2>5. CASE Get(p)
    <3>1. ~s.closed
      BY <2>0, <2>5 DEF Get, Sealed, s
    <3> DEFINE u == IF s.queue = <<>> THEN s
                    ELSE [s EXCEPT !.queue = Tail(@), !.pending = Append(@, Head(s.queue))]
    <3>2. PICK t \in FlushOrLoop(u) : Put(p, t)
      BY <2>5 DEF Get, s
    <3>3. u \in Sink /\ ~u.closed
      <4>1. s.queue \in Seq(Events) /\ s.pending \in Seq(Events)
        BY <2>0 DEF Sink
      <4>2. s.queue # <<>> => Tail(s.queue) \in Seq(Events) /\ Append(s.pending, Head(s.queue)) \in Seq(Events)
        BY <4>1, TailEvents, AppendEvent
      <4> QED
        BY <2>0, <3>1, <4>2 DEF Sink
    <3> HIDE DEF u
    <3>4. Sealed([u EXCEPT !.pc = "reserve"]) /\ Sealed(Loop(u))
      <4>1. ~[u EXCEPT !.pc = "reserve"].closed
        BY <3>3 DEF Sink
      <4> QED
        BY <3>3, <4>1, LoopSeals DEF Sealed
    <3>5. Sealed(t)
      BY <3>2, <3>4 DEF FlushOrLoop
    <3> QED
      BY <1>a, <3>2, <3>5
  <2>6. CASE Reserve(p)
    <3>1. Sealed([s EXCEPT !.pc = "commit"])
      BY <2>0 DEF Sealed, Sink
    <3> QED
      BY <1>a, <2>0, <2>6, <3>1 DEF Reserve, s
  <2>7. CASE Commit(p) \/ FlushFails(p)
    <3> DEFINE u == Counting(s, Len(s.pending))
    <3>1. u \in Sink /\ u.closed = s.closed /\ u.queue = s.queue
      <4>1. s.pending \in Seq(Events) /\ s.dropped \in Nat
        BY <2>0 DEF Sink
      <4>2. s.dropped + Len(s.pending) \in Nat
        BY <4>1
      <4> QED
        BY <2>0, <4>2 DEF Counting, Sink
    <3>2. Sealed(Flushed(s))
      BY <2>0, FlushSeals DEF Sealed
    <3>3. Sealed(FailureCounted(s))
      <4>1. FailureCounted(s) = Flushed(u)
        BY DEF FailureCounted
      <4> HIDE DEF u
      <4> QED
        BY <2>0, <3>1, <4>1, FlushSeals DEF Sealed
    <3> QED
      BY <1>a, <2>7, <3>2, <3>3 DEF Commit, FlushFails, s
  <2> QED
    BY <1>1, <2>1, <2>2, <2>3, <2>4, <2>5, <2>6, <2>7 DEF Living, Drain
<1>2. ASSUME NEW p \in Processes, NEW e \in Events, Record(p, e) PROVE Sealed(sink'[q])
  <2> DEFINE s == sink[p]
             t == Accepted(s, e)
  <2>1. s \in Sink /\ Sealed(s)
    BY <1>0 DEF SealInv
  <2> HIDE DEF s
  <2>2. Sealed(t)
    BY <2>1 DEF Accepted, Counting, Sealed, Sink
  <2> HIDE DEF t
  <2> QED
    BY <1>2, <1>a, <2>2 DEF Record, s, t
<1>3. CASE UNCHANGED vars
  BY <1>3 DEF vars, SealInv
<1> QED
  BY <1>1, <1>2, <1>3 DEF Next, Living

(* "Every event record() accepted is in this final batch": once the drainer *)
(* has swept its queue, nothing enters it that nobody would read again.     *)
THEOREM LastBatchIsComplete == Spec => []NothingStranded
<1>1. Init => SealInv
  BY DEF Init, SealInv, Sealed, NewSink
<1>2. SealInv => NothingStranded
  BY DEF SealInv, Sealed, NothingStranded
<1> QED
  BY <1>1, <1>2, TypedInit, TypedStep, SealStep, PTL DEF Spec
=============================================================================

----------------------------- MODULE AppProofs ------------------------------
(***************************************************************************)
(* The application around its requests, for any number of them: what a     *)
(* health report says (HealthReport), what boot and shutdown leave open    *)
(* (AppLifespan), and what an agent's definition comes out of the chain of *)
(* files it is read from (RoleResolution).                                 *)
(***************************************************************************)
EXTENDS AppLifespan, HealthReport, RoleResolution, WellFoundedInduction, TLAPS

-----------------------------------------------------------------------------
(* Health.  The places a request passes, and what it can find wrong.        *)

Places == {"idle", "probe", "waiting", "asking", "postgres", "redis", "backlog", "done"}
Report == [pc : Places, now : Nat, running : BOOLEAN, bad : SUBSET (Services \cup {"outbox"}),
           known : BOOLEAN]

HealthTyped ==
    /\ clock \in Nat /\ since \in Nat
    /\ down \subseteq Services
    /\ worker \in BOOLEAN /\ backlog \in BOOLEAN
    /\ cached \in SUBSET [at : Nat, up : BOOLEAN]
    /\ req \in [Requests -> Report]
    /\ sends \in Seq(Nat)
    /\ trouble \in [Requests -> SUBSET (Services \cup {"outbox"})]

LEMMA IdleIsReport == Idle \in Report
  BY DEF Idle, Report, Places

LEMMA WrongTyped ==
  ASSUME HealthTyped
  PROVE  Wrong \subseteq Services \cup {"outbox"}
  BY DEF HealthTyped, Wrong, Undrained, Services

LEMMA BadTyped == ProviderBad \in SUBSET (Services \cup {"outbox"})
  BY DEF ProviderBad, Services

LEMMA PlacesNamed ==
  /\ "probe" \in Places /\ "waiting" \in Places /\ "asking" \in Places
  /\ "postgres" \in Places /\ "redis" \in Places /\ "backlog" \in Places
  /\ "done" \in Places
  BY DEF Places

(* What an update of one request's record leaves a record.                  *)
LEMMA ReachTyped ==
  ASSUME HealthTyped, NEW r \in Requests, NEW place \in Places, Reach(r, place)
  PROVE  req' \in [Requests -> Report]
  BY DEF HealthTyped, Reach, Report

LEMMA FoundTyped ==
  ASSUME HealthTyped, NEW r \in Requests, NEW place \in Places,
         NEW bad \in SUBSET (Services \cup {"outbox"}), Found(r, place, bad)
  PROVE  req' \in [Requests -> Report]
  BY ZenonT(40) DEF HealthTyped, Found, Report

LEMMA KeepTyped ==
  ASSUME HealthTyped, Keep
  PROVE  trouble' \in [Requests -> SUBSET (Services \cup {"outbox"})]
  BY DEF HealthTyped, Keep

LEMMA HealthInitTyped == HealthInit => HealthTyped
  BY IdleIsReport DEF HealthInit, HealthTyped, Services

LEMMA HealthStepTyped == HealthTyped /\ [HealthStep]_healthVars => HealthTyped'
<1> SUFFICES ASSUME HealthTyped, [HealthStep]_healthVars
             PROVE  HealthTyped'
  OBVIOUS
<1>1. CASE Tick
  BY <1>1, KeepTyped DEF Tick, HealthTyped
<1>2. CASE Change
  <2>1. down' \subseteq Services
    BY <1>2 DEF Change, HealthTyped
  <2>2. since' \in Nat /\ worker' \in BOOLEAN /\ backlog' \in BOOLEAN
    BY <1>2 DEF Change, HealthTyped
  <2> QED
    BY <1>2, <2>1, <2>2, KeepTyped DEF Change, HealthTyped
<1>3. ASSUME NEW r \in Requests, Start(r) PROVE HealthTyped'
  <2>1. [Idle EXCEPT !.pc = "probe"] \in Report
    BY IdleIsReport DEF Report, Places
  <2> QED
    BY <1>3, <2>1, WrongTyped DEF Start, HealthTyped, env
<1>4. ASSUME NEW r \in Requests, Look(r) PROVE HealthTyped'
  <2>1. req' \in [Requests -> Report]
    <3>1. CASE Found(r, "postgres", ProviderBad)
      BY <3>1, PlacesNamed, FoundTyped, BadTyped
    <3>2. CASE Reach(r, "waiting")
      BY <3>2, PlacesNamed, ReachTyped
    <3> QED
      BY <1>4, <3>1, <3>2 DEF Look
  <2> QED
    BY <1>4, <2>1 DEF Look, HealthTyped, env
<1>5. ASSUME NEW r \in Requests, Locked(r) PROVE HealthTyped'
  <2>1. CASE LookAgain
    <3>1. req' \in [Requests -> Report]
      <4>1. Found(r, "postgres", ProviderBad)
        BY <1>5, <2>1 DEF Locked
      <4> QED
        BY <4>1, PlacesNamed, FoundTyped, BadTyped
    <3> QED
      BY <1>5, <2>1, <3>1 DEF Locked, HealthTyped, env
  <2>2. CASE ~LookAgain
    <3>1. /\ sends' = Append(sends, clock)
          /\ req' = [req EXCEPT ![r].pc = "asking", ![r].now = clock]
          /\ UNCHANGED <<clock, down, worker, backlog, changes, since, cached, trouble>>
      BY <1>5, <2>2 DEF Locked, env
    <3>2. req' \in [Requests -> Report]
      BY <3>1, PlacesNamed DEF HealthTyped, Report
    <3>3. sends' \in Seq(Nat)
      BY <3>1 DEF HealthTyped
    <3> QED
      BY <3>1, <3>2, <3>3 DEF HealthTyped
  <2> QED
    BY <2>1, <2>2
<1>6. ASSUME NEW r \in Requests, Answer(r) PROVE HealthTyped'
  <2>1. req' \in [Requests -> Report]
    BY <1>6, FoundTyped DEF Answer, Places, Services
  <2>2. cached' \in SUBSET [at : Nat, up : BOOLEAN]
    BY <1>6 DEF Answer, HealthTyped, Report
  <2> QED
    BY <1>6, <2>1, <2>2 DEF Answer, HealthTyped, env
<1>7. ASSUME NEW r \in Requests, ProbePostgres(r) PROVE HealthTyped'
  <2>1. req' \in [Requests -> Report]
    BY <1>7, FoundTyped DEF ProbePostgres, Places, Services
  <2> QED
    BY <1>7, <2>1 DEF ProbePostgres, HealthTyped, env
<1>8. ASSUME NEW r \in Requests, ProbeRedis(r) PROVE HealthTyped'
  <2>1. req' \in [Requests -> Report]
    <3>1. ({"redis"} \cap down) \in SUBSET (Services \cup {"outbox"}) /\ worker \in BOOLEAN
      BY DEF HealthTyped, Services
    <3>2. req' = [req EXCEPT ![r].pc = "backlog", ![r].bad = @ \cup ({"redis"} \cap down),
                             ![r].running = worker]
      BY <1>8 DEF ProbeRedis
    <3> QED
      BY <3>1, <3>2, PlacesNamed, ZenonT(40) DEF HealthTyped, Report
  <2> QED
    BY <1>8, <2>1 DEF ProbeRedis, HealthTyped, env
<1>9. ASSUME NEW r \in Requests, CountBacklog(r) PROVE HealthTyped'
  <2>1. req' \in [Requests -> Report]
    <3>1. CASE Found(r, "done", IF Undrained(req[r].running, backlog) THEN {"outbox"} ELSE {})
      BY <3>1, PlacesNamed, FoundTyped
    <3>2. CASE req' = [req EXCEPT ![r].pc = "done", ![r].known = FALSE]
      BY <3>2, PlacesNamed DEF HealthTyped, Report
    <3> QED
      BY <1>9, <3>1, <3>2 DEF CountBacklog
  <2> QED
    BY <1>9, <2>1 DEF CountBacklog, HealthTyped, env
<1>10. ASSUME NEW r \in Requests, Delivered(r) PROVE HealthTyped'
  BY <1>10, IdleIsReport DEF Delivered, HealthTyped, env
<1>11. CASE UNCHANGED healthVars
  BY <1>11 DEF healthVars, HealthTyped
<1> QED
  BY <1>1, <1>2, <1>3, <1>4, <1>5, <1>6, <1>7, <1>8, <1>9, <1>10, <1>11 DEF HealthStep

-----------------------------------------------------------------------------
(* Who asks the provider holds the lock; whoever asked last left an answer  *)
(* as old as the question.                                                  *)
LockInv ==
    /\ lock \in Requests \cup {NoRequest}
    /\ \A r \in Requests : req[r].pc = "asking" <=> lock = r

LastSend == sends[Len(sends)]
AskedInv ==
    /\ lock # NoRequest => sends # <<>> /\ req[lock].now = LastSend
    /\ lock = NoRequest /\ sends # <<>> =>
          cached # {} /\ \A c \in cached : c.at = LastSend

(* An answer that says the provider is up is not newer than the outage.     *)
CacheInv ==
    /\ \A c \in cached : c.at <= clock /\ (c.up /\ "provider" \in down => c.at <= since)
    /\ \A r \in Requests : req[r].pc = "asking" => req[r].now <= clock

(* What a report has already looked at it has found, if it was wrong from   *)
(* the start; the worker's loop never comes back.                           *)
Past(r, places) == req[r].pc \in places
FoundInv ==
    \A r \in Requests :
        /\ trouble[r] \subseteq Wrong
        /\ Past(r, {"postgres", "redis", "backlog", "done"}) /\ "provider" \in trouble[r] =>
              "provider" \in req[r].bad
        /\ Past(r, {"redis", "backlog", "done"}) /\ "postgres" \in trouble[r] =>
              "postgres" \in req[r].bad
        /\ Past(r, {"backlog", "done"}) /\ "redis" \in trouble[r] => "redis" \in req[r].bad
        /\ Past(r, {"backlog"}) /\ "outbox" \in trouble[r] => ~req[r].running
        /\ Past(r, {"done"}) /\ req[r].known /\ "outbox" \in trouble[r] => "outbox" \in req[r].bad

HealthInv == HealthTyped /\ LockInv /\ AskedInv /\ CacheInv /\ FoundInv /\ ProbesAreSpaced

LEMMA HealthInitInv == HealthInit => HealthInv
<1> SUFFICES ASSUME HealthInit PROVE HealthInv
  OBVIOUS
<1>1. LockInv
  BY HealthAssumption DEF HealthInit, LockInv, Idle
<1>2. AskedInv /\ ProbesAreSpaced
  BY DEF HealthInit, AskedInv, ProbesAreSpaced
<1>3. CacheInv /\ FoundInv
  BY DEF HealthInit, CacheInv, FoundInv, Past, Idle
<1> QED
  BY <1>1, <1>2, <1>3, HealthInitTyped DEF HealthInv

(* A step of the world: what a report holds stays as it is, what is wrong   *)
(* all along can only become less, and the worker does not come back.       *)
LEMMA WorldKeeps ==
  ASSUME HealthInv, HealthTyped', Keep, worker' \in {worker, FALSE},
         UNCHANGED <<cached, lock, req, sends>>, clock' >= clock,
         "provider" \in down' => IF "provider" \in down THEN since' = since ELSE since' = clock
  PROVE  HealthInv'
<1> USE DEF HealthInv
<1>1. LockInv' /\ AskedInv' /\ ProbesAreSpaced'
  BY DEF LockInv, AskedInv, LastSend, ProbesAreSpaced
<1>2. CacheInv'
  BY DEF CacheInv, HealthTyped, Report
<1>3. FoundInv'
  BY DEF FoundInv, Keep, Past, HealthTyped
<1> QED
  BY <1>1, <1>2, <1>3

LEMMA TickKeeps ==
  ASSUME HealthInv, HealthTyped', Tick
  PROVE  HealthInv'
<1>1. clock' >= clock
  BY DEF Tick, HealthInv, HealthTyped
<1> QED
  BY <1>1, WorldKeeps DEF Tick

LEMMA ChangeKeeps ==
  ASSUME HealthInv, HealthTyped', Change
  PROVE  HealthInv'
<1>1. clock' >= clock
  BY DEF Change, HealthInv, HealthTyped
<1>2. "provider" \in down' => IF "provider" \in down THEN since' = since ELSE since' = clock
  BY DEF Change
<1> QED
  BY <1>1, <1>2, WorldKeeps DEF Change

-----------------------------------------------------------------------------
(* A fresh answer that calls the provider up proves that it was not down    *)
(* for longer than the answer is cached.                                    *)
LEMMA FreshSaysDown ==
  ASSUME HealthInv, NEW r \in Requests, Fresh(clock), "provider" \in trouble[r]
  PROVE  "provider" \in ProviderBad
<1>1. PICK c \in cached : clock < c.at + Ttl
  BY DEF Fresh
<1>2. "provider" \in down /\ clock >= since + Ttl
  BY DEF HealthInv, FoundInv, Wrong
<1>3. ~c.up
  BY <1>1, <1>2, HealthAssumption DEF HealthInv, CacheInv, HealthTyped
<1> QED
  BY <1>1, <1>3 DEF ProviderBad

(* What a request's step leaves to show: the world stays, its own record    *)
(* says what it looked at, and the others' records stay.                    *)
LEMMA RequestKeeps ==
  ASSUME HealthInv, HealthTyped', NEW r \in Requests, UNCHANGED <<env, trouble>>,
         \A q \in Requests \ {r} : req'[q] = req[q],
         /\ Past(r, {"postgres", "redis", "backlog", "done"})' /\ "provider" \in trouble[r] =>
               "provider" \in req'[r].bad
         /\ Past(r, {"redis", "backlog", "done"})' /\ "postgres" \in trouble[r] =>
               "postgres" \in req'[r].bad
         /\ Past(r, {"backlog", "done"})' /\ "redis" \in trouble[r] => "redis" \in req'[r].bad
         /\ Past(r, {"backlog"})' /\ "outbox" \in trouble[r] => ~req'[r].running
         /\ Past(r, {"done"})' /\ req'[r].known /\ "outbox" \in trouble[r] =>
               "outbox" \in req'[r].bad
  PROVE  FoundInv'
<1>1. Wrong' = Wrong
  BY DEF env, Wrong
<1>2. ASSUME NEW q \in Requests, q # r
      PROVE  /\ req'[q] = req[q]
             /\ trouble'[q] = trouble[q]
  BY <1>2 DEF env
<1> QED
  BY <1>1, <1>2 DEF FoundInv, HealthInv, Past, env

(* No lock is taken, given back or asked under: a step between two places   *)
(* neither of which asks.                                                   *)
LEMMA NobodyAsks ==
  ASSUME HealthInv, HealthTyped', NEW r \in Requests,
         UNCHANGED <<clock, down, since, cached, lock, sends>>,
         \A q \in Requests \ {r} : req'[q] = req[q],
         req[r].pc # "asking", req'[r].pc # "asking"
  PROVE  LockInv' /\ AskedInv' /\ CacheInv' /\ ProbesAreSpaced'
<1>1. LockInv'
  BY DEF HealthInv, LockInv
<1>2. AskedInv'
  BY HealthAssumption DEF HealthInv, LockInv, AskedInv, LastSend
<1>3. CacheInv'
  BY DEF HealthInv, CacheInv
<1>4. ProbesAreSpaced'
  BY DEF HealthInv, ProbesAreSpaced
<1> QED
  BY <1>1, <1>2, <1>3, <1>4

LEMMA FoundSets ==
  ASSUME HealthTyped, NEW r \in Requests, NEW place, NEW bad, Found(r, place, bad)
  PROVE  /\ req'[r].pc = place /\ req'[r].bad = req[r].bad \cup bad
         /\ req'[r].running = req[r].running /\ req'[r].known = req[r].known
         /\ \A q \in Requests \ {r} : req'[q] = req[q]
  BY DEF Found, HealthTyped, Report

LEMMA ReachSets ==
  ASSUME HealthTyped, NEW r \in Requests, NEW place, Reach(r, place)
  PROVE  /\ req'[r].pc = place
         /\ \A q \in Requests \ {r} : req'[q] = req[q]
  BY DEF Reach, HealthTyped, Report

LEMMA StartKeeps ==
  ASSUME HealthInv, HealthTyped', NEW r \in Requests, Start(r)
  PROVE  HealthInv'
<1>1. /\ req'[r].pc = "probe" /\ req[r].pc = "idle"
      /\ \A q \in Requests \ {r} : req'[q] = req[q] /\ trouble'[q] = trouble[q]
      /\ trouble'[r] = Wrong
  BY DEF Start, HealthInv, HealthTyped, Idle
<1>2. LockInv' /\ AskedInv' /\ CacheInv' /\ ProbesAreSpaced'
  BY <1>1, NobodyAsks DEF Start, env
<1>3. Wrong' = Wrong
  BY DEF Start, env, Wrong
<1>4. FoundInv'
  BY <1>1, <1>3 DEF FoundInv, HealthInv, Past
<1> QED
  BY <1>2, <1>4 DEF HealthInv

LEMMA LookKeeps ==
  ASSUME HealthInv, HealthTyped', NEW r \in Requests, Look(r)
  PROVE  HealthInv'
<1> USE DEF HealthInv
<1>1. CASE Fresh(clock)
  <2>1. /\ req'[r].pc = "postgres" /\ req'[r].bad = req[r].bad \cup ProviderBad
        /\ \A q \in Requests \ {r} : req'[q] = req[q]
    BY <1>1, FoundSets DEF Look
  <2>2. LockInv' /\ AskedInv' /\ CacheInv' /\ ProbesAreSpaced'
    BY <2>1, NobodyAsks DEF Look, env
  <2>3. "provider" \in trouble[r] => "provider" \in req'[r].bad
    BY <1>1, <2>1, FreshSaysDown
  <2>4. FoundInv'
    BY <2>1, <2>3, RequestKeeps DEF Look, Past
  <2> QED
    BY <2>2, <2>4
<1>2. CASE ~Fresh(clock)
  <2>1. /\ req'[r].pc = "waiting"
        /\ \A q \in Requests \ {r} : req'[q] = req[q]
    BY <1>2, ReachSets DEF Look
  <2>2. LockInv' /\ AskedInv' /\ CacheInv' /\ ProbesAreSpaced'
    BY <2>1, NobodyAsks DEF Look, env
  <2>3. FoundInv'
    BY <2>1, RequestKeeps DEF Look, Past
  <2> QED
    BY <2>2, <2>3
<1> QED
  BY <1>1, <1>2

LEMMA LockedKeeps ==
  ASSUME HealthInv, HealthTyped', NEW r \in Requests, Locked(r)
  PROVE  HealthInv'
<1> USE DEF HealthInv
<1>1. CASE LookAgain
  <2>0. Fresh(clock) /\ Found(r, "postgres", ProviderBad) /\ UNCHANGED <<lock, sends>>
    BY <1>1 DEF Locked, LookAgain
  <2>1. /\ req'[r].pc = "postgres" /\ req'[r].bad = req[r].bad \cup ProviderBad
        /\ \A q \in Requests \ {r} : req'[q] = req[q]
    BY <2>0, FoundSets
  <2>2. LockInv' /\ AskedInv' /\ CacheInv' /\ ProbesAreSpaced'
    BY <2>0, <2>1, NobodyAsks DEF Locked, env
  <2>3. "provider" \in trouble[r] => "provider" \in req'[r].bad
    BY <2>0, <2>1, FreshSaysDown
  <2>4. FoundInv'
    BY <2>1, <2>3, RequestKeeps DEF Locked, Past
  <2> QED
    BY <2>2, <2>4
<1>2. CASE ~LookAgain
  <2>0. /\ lock = NoRequest /\ lock' = r /\ sends' = Append(sends, clock)
        /\ req' = [req EXCEPT ![r].pc = "asking", ![r].now = clock]
        /\ \A c \in cached : clock >= c.at + Ttl
        /\ UNCHANGED <<env, cached, trouble>>
    <3>1. ~Fresh(clock) => \A c \in cached : clock >= c.at + Ttl
      BY HealthAssumption DEF Fresh, HealthTyped
    <3> QED
      BY <1>2, <3>1 DEF Locked, LookAgain
  <2>1. /\ req'[r].pc = "asking" /\ req'[r].now = clock
        /\ \A q \in Requests \ {r} : req'[q] = req[q]
    BY <2>0 DEF HealthTyped, Report
  <2>2. LockInv'
    BY <2>0, <2>1, HealthAssumption DEF LockInv
  <2>3. sends' # <<>> /\ sends'[Len(sends')] = clock
        /\ Len(sends') = Len(sends) + 1
        /\ \A i \in 1..Len(sends) : sends'[i] = sends[i]
    BY <2>0 DEF HealthTyped
  <2>4. AskedInv'
    BY <2>0, <2>1, <2>3, HealthAssumption DEF AskedInv, LastSend
  <2>5. CacheInv'
    BY <2>0, <2>1 DEF CacheInv, HealthTyped, env
  <2>6. ProbesAreSpaced'
    <3>1. sends # <<>> => clock >= sends[Len(sends)] + Ttl
      BY <2>0 DEF AskedInv, LastSend
    <3> SUFFICES ASSUME NEW i \in 1..(Len(sends') - 1)
                 PROVE  sends'[i + 1] >= sends'[i] + Ttl
      BY DEF ProbesAreSpaced
    <3>2. CASE i = Len(sends)
      BY <2>3, <3>1, <3>2 DEF HealthTyped
    <3>3. CASE i # Len(sends)
      <4>1. Len(sends) \in Nat
        BY DEF HealthTyped
      <4>2. i \in 1..(Len(sends) - 1) /\ i \in 1..Len(sends) /\ i + 1 \in 1..Len(sends)
        BY <2>3, <3>3, <4>1
      <4> QED
        BY <2>3, <4>2 DEF ProbesAreSpaced
    <3> QED
      BY <3>2, <3>3
  <2>7. FoundInv'
    BY <2>0, <2>1, RequestKeeps DEF Past
  <2> QED
    BY <2>2, <2>4, <2>5, <2>6, <2>7
<1> QED
  BY <1>1, <1>2

LEMMA AnswerKeeps ==
  ASSUME HealthInv, HealthTyped', NEW r \in Requests, Answer(r)
  PROVE  HealthInv'
<1> USE DEF HealthInv
<1>1. /\ req[r].pc = "asking" /\ lock' = NoRequest
      /\ cached' = {[at |-> req[r].now, up |-> "provider" \notin down]}
      /\ Found(r, "postgres", IF "provider" \notin down THEN {} ELSE {"provider"})
      /\ UNCHANGED <<env, sends, trouble>>
  BY DEF Answer
<1>2. /\ req'[r].pc = "postgres"
      /\ "provider" \in down => "provider" \in req'[r].bad
      /\ \A q \in Requests \ {r} : req'[q] = req[q]
  BY <1>1, FoundSets
<1>3. lock = r
  BY <1>1 DEF LockInv
<1>4. LockInv'
  BY <1>1, <1>2, <1>3, HealthAssumption DEF LockInv
<1>5. AskedInv' /\ ProbesAreSpaced'
  BY <1>1, <1>3, HealthAssumption DEF AskedInv, LastSend, ProbesAreSpaced
<1>6. CacheInv'
  <2>1. req[r].now <= clock
    BY <1>1 DEF CacheInv
  <2>2. ASSUME NEW c \in cached'
        PROVE  c.at <= clock /\ ~(c.up /\ "provider" \in down)
    <3>1. c = [at |-> req[r].now, up |-> "provider" \notin down]
      BY <1>1
    <3>2. c.at = req[r].now /\ c.up = ("provider" \notin down)
      BY <3>1
    <3> QED
      BY <2>1, <3>2
  <2>3. \A q \in Requests : req'[q].pc = "asking" => req'[q].now <= clock
    BY <1>2 DEF CacheInv
  <2> QED
    BY <1>1, <2>2, <2>3 DEF CacheInv, env
<1>7. "provider" \in trouble[r] => "provider" \in down
  BY DEF FoundInv, Wrong
<1>8. FoundInv'
  BY <1>1, <1>2, <1>7, RequestKeeps DEF Past
<1> QED
  BY <1>4, <1>5, <1>6, <1>8

(* What was wrong from the start is wrong when it is looked at.             *)
LEMMA StillWrong ==
  ASSUME HealthInv, NEW r \in Requests
  PROVE  /\ "postgres" \in trouble[r] => "postgres" \in down
         /\ "redis" \in trouble[r] => "redis" \in down
         /\ "outbox" \in trouble[r] => Undrained(worker, backlog)
  BY DEF HealthInv, HealthTyped, FoundInv, Wrong, Services

LEMMA ProbePostgresKeeps ==
  ASSUME HealthInv, HealthTyped', NEW r \in Requests, ProbePostgres(r)
  PROVE  HealthInv'
<1> USE DEF HealthInv
<1>1. /\ req[r].pc = "postgres" /\ req'[r].pc = "redis"
      /\ req'[r].bad = req[r].bad \cup ({"postgres"} \cap down)
      /\ \A q \in Requests \ {r} : req'[q] = req[q]
      /\ UNCHANGED <<env, cached, lock, sends, trouble>>
  BY FoundSets DEF ProbePostgres
<1>2. LockInv' /\ AskedInv' /\ CacheInv' /\ ProbesAreSpaced'
  BY <1>1, NobodyAsks DEF env
<1>3. FoundInv'
  BY <1>1, StillWrong, RequestKeeps DEF Past, FoundInv
<1> QED
  BY <1>2, <1>3

LEMMA ProbeRedisKeeps ==
  ASSUME HealthInv, HealthTyped', NEW r \in Requests, ProbeRedis(r)
  PROVE  HealthInv'
<1> USE DEF HealthInv
<1>1. /\ req[r].pc = "redis" /\ req'[r].pc = "backlog"
      /\ req'[r].bad = req[r].bad \cup ({"redis"} \cap down) /\ req'[r].running = worker
      /\ \A q \in Requests \ {r} : req'[q] = req[q]
      /\ UNCHANGED <<env, cached, lock, sends, trouble>>
  BY DEF ProbeRedis, HealthTyped, Report
<1>2. LockInv' /\ AskedInv' /\ CacheInv' /\ ProbesAreSpaced'
  BY <1>1, NobodyAsks DEF env
<1>3. "outbox" \in trouble[r] => ~worker
  BY StillWrong DEF Undrained
<1>4. FoundInv'
  BY <1>1, <1>3, StillWrong, RequestKeeps DEF Past, FoundInv
<1> QED
  BY <1>2, <1>4

LEMMA CountBacklogKeeps ==
  ASSUME HealthInv, HealthTyped', NEW r \in Requests, CountBacklog(r)
  PROVE  HealthInv'
<1> USE DEF HealthInv
<1>1. CASE Found(r, "done", IF Undrained(req[r].running, backlog) THEN {"outbox"} ELSE {})
  <2>1. /\ req[r].pc = "backlog" /\ req'[r].pc = "done"
        /\ \A x \in req[r].bad : x \in req'[r].bad
        /\ Undrained(req[r].running, backlog) => "outbox" \in req'[r].bad
        /\ \A q \in Requests \ {r} : req'[q] = req[q]
        /\ UNCHANGED <<env, cached, lock, sends, trouble>>
    BY <1>1, FoundSets DEF CountBacklog
  <2>2. LockInv' /\ AskedInv' /\ CacheInv' /\ ProbesAreSpaced'
    BY <2>1, NobodyAsks DEF env
  <2>3. "outbox" \in trouble[r] => Undrained(req[r].running, backlog)
    BY <2>1, StillWrong DEF Undrained, FoundInv, Past
  <2>4. FoundInv'
    BY <2>1, <2>3, RequestKeeps DEF Past, FoundInv
  <2> QED
    BY <2>2, <2>4
<1>2. CASE req' = [req EXCEPT ![r].pc = "done", ![r].known = FALSE]
  <2>1. /\ req[r].pc = "backlog" /\ req'[r].pc = "done" /\ ~req'[r].known
        /\ req'[r].bad = req[r].bad
        /\ \A q \in Requests \ {r} : req'[q] = req[q]
        /\ UNCHANGED <<env, cached, lock, sends, trouble>>
    BY <1>2 DEF CountBacklog, HealthTyped, Report
  <2>2. LockInv' /\ AskedInv' /\ CacheInv' /\ ProbesAreSpaced'
    BY <2>1, NobodyAsks DEF env
  <2>3. FoundInv'
    BY <2>1, RequestKeeps DEF Past, FoundInv
  <2> QED
    BY <2>2, <2>3
<1> QED
  BY <1>1, <1>2 DEF CountBacklog

LEMMA DeliveredKeeps ==
  ASSUME HealthInv, HealthTyped', NEW r \in Requests, Delivered(r)
  PROVE  HealthInv'
<1>1. /\ req'[r].pc = "idle" /\ req[r].pc = "done"
      /\ \A q \in Requests \ {r} : req'[q] = req[q] /\ trouble'[q] = trouble[q]
      /\ trouble'[r] = {}
  BY DEF Delivered, HealthInv, HealthTyped, Idle
<1>2. LockInv' /\ AskedInv' /\ CacheInv' /\ ProbesAreSpaced'
  BY <1>1, NobodyAsks DEF Delivered, env
<1>3. Wrong' = Wrong
  BY DEF Delivered, env, Wrong
<1>4. FoundInv'
  BY <1>1, <1>3 DEF FoundInv, HealthInv, Past
<1> QED
  BY <1>2, <1>4 DEF HealthInv

LEMMA HealthStepKeeps == HealthInv /\ [HealthStep]_healthVars => HealthInv'
<1> SUFFICES ASSUME HealthInv, [HealthStep]_healthVars
             PROVE  HealthInv'
  OBVIOUS
<1>1. HealthTyped'
  BY HealthStepTyped DEF HealthInv
<1>2. CASE UNCHANGED healthVars
  BY <1>2 DEF healthVars, HealthInv, HealthTyped, LockInv, AskedInv, LastSend, CacheInv, FoundInv,
              Past, Wrong, ProbesAreSpaced
<1> QED
  BY <1>1, <1>2, TickKeeps, ChangeKeeps, StartKeeps, LookKeeps, LockedKeeps, AnswerKeeps,
     ProbePostgresKeeps, ProbeRedisKeeps, CountBacklogKeeps, DeliveredKeeps DEF HealthStep

(* A health report names what was wrong all the time it was put together,   *)
(* and the provider is asked at most once per cache lifetime, however many  *)
(* requests race for its lock and whatever changes between two reads.       *)
THEOREM ReportsAreTrue == HealthSpec => []HealthIsTrue
<1>1. HealthInv => HealthIsTrue
  <2> SUFFICES ASSUME HealthInv PROVE HealthIsTrue
    OBVIOUS
  <2>1. ASSUME NEW r \in Requests, req[r].pc = "done"
        PROVE  trouble[r] \ (IF req[r].known THEN {} ELSE {"outbox"}) \subseteq req[r].bad
    <3>1. trouble[r] \subseteq {"provider", "postgres", "redis", "outbox"}
      BY DEF HealthInv, HealthTyped, Services
    <3> QED
      BY <2>1, <3>1 DEF HealthInv, FoundInv, Past
  <2> QED
    BY <2>1 DEF HealthIsTrue, TroubleIsReported, HealthInv
<1> QED
  BY <1>1, HealthInitInv, HealthStepKeeps, PTL DEF HealthSpec

-----------------------------------------------------------------------------
(* Boot and shutdown.  A callback runs before the ones it lies above; two   *)
(* of them (the sink's registration, the Redis pool) hold no resource of    *)
(* the app's own.                                                           *)

Resources == {"engine", "sink", "whatsapp", "bi", "saver", "purger", "retention", "worker"}
Callbacks == Resources \cup {"current", "redis"}

Depth(c) ==
    CASE c = "engine"    -> 1
      [] c = "current"   -> 2
      [] c = "sink"      -> 3
      [] c = "whatsapp"  -> 4
      [] c = "redis"     -> 5
      [] c = "bi"        -> 6
      [] c = "saver"     -> 7
      [] c = "purger"    -> 8
      [] c = "retention" -> 9
      [] OTHER           -> 10

Members(s) == {s[i] : i \in DOMAIN s}
Held(a) == Members(stack[a])

Ordered(s) == \A i, j \in DOMAIN s : i < j => Depth(s[i]) > Depth(s[j])

(* A stack is a sequence of callbacks, each above those pushed before it,   *)
(* and what it holds is what is open.                                       *)
Stacked(s) == s \in Seq(Callbacks) /\ Ordered(s)

LEMMA DepthsDiffer ==
  ASSUME NEW c \in Callbacks, NEW d \in Callbacks, Depth(c) = Depth(d)
  PROVE  c = d
  BY SMTT(30) DEF Callbacks, Resources, Depth

LEMMA DepthTyped == \A c \in Callbacks : Depth(c) \in 1..10
  BY DEF Callbacks, Resources, Depth

(* A sequence put before another.                                           *)
LEMMA Joined ==
  ASSUME NEW s, Stacked(s), NEW t, Stacked(t)
  PROVE  /\ t \o s \in Seq(Callbacks) /\ Len(t \o s) = Len(t) + Len(s)
         /\ \A i \in 1..Len(t) : (t \o s)[i] = t[i]
         /\ \A i \in 1..Len(s) : (t \o s)[Len(t) + i] = s[i]
         /\ DOMAIN s = 1..Len(s) /\ DOMAIN t = 1..Len(t)
         /\ DOMAIN (t \o s) = 1..(Len(t) + Len(s))
         /\ Len(s) \in Nat /\ Len(t) \in Nat
  BY DEF Stacked

LEMMA JoinMembers ==
  ASSUME NEW s, Stacked(s), NEW t, Stacked(t)
  PROVE  Members(t \o s) = Members(t) \cup Members(s)
<1>1. ASSUME NEW i \in DOMAIN (t \o s)
      PROVE  (t \o s)[i] \in Members(t) \cup Members(s)
  <2>1. CASE i <= Len(t)
    BY Joined, <2>1 DEF Members
  <2>2. CASE i > Len(t)
    <3>1. i - Len(t) \in DOMAIN s /\ i = Len(t) + (i - Len(t))
      BY Joined, <2>2
    <3> QED
      BY Joined, <3>1 DEF Members
  <2> QED
    BY Joined, <2>1, <2>2
<1>2. ASSUME NEW i \in DOMAIN t PROVE t[i] \in Members(t \o s)
  <2>1. i \in DOMAIN (t \o s) /\ (t \o s)[i] = t[i]
    BY Joined
  <2> QED
    BY <2>1 DEF Members
<1>3. ASSUME NEW i \in DOMAIN s PROVE s[i] \in Members(t \o s)
  <2>1. Len(t) + i \in DOMAIN (t \o s) /\ (t \o s)[Len(t) + i] = s[i]
    BY Joined
  <2> QED
    BY <2>1 DEF Members
<1> QED
  BY <1>1, <1>2, <1>3 DEF Members

(* Pushing callbacks that lie above everything keeps a stack one.           *)
LEMMA PushStacked ==
  ASSUME NEW s, Stacked(s), NEW t, Stacked(t),
         \A c \in Members(t) : \A d \in Members(s) : Depth(c) > Depth(d)
  PROVE  Stacked(t \o s) /\ Members(t \o s) = Members(t) \cup Members(s)
<1>1. /\ t \o s \in Seq(Callbacks) /\ Len(t \o s) = Len(t) + Len(s)
      /\ \A i \in 1..Len(t) : (t \o s)[i] = t[i]
      /\ \A i \in 1..Len(s) : (t \o s)[Len(t) + i] = s[i]
      /\ DOMAIN s = 1..Len(s) /\ DOMAIN t = 1..Len(t) /\ DOMAIN (t \o s) = 1..(Len(t) + Len(s))
      /\ Len(s) \in Nat /\ Len(t) \in Nat
  BY Joined
<1>2. Ordered(t \o s)
  <2> SUFFICES ASSUME NEW i \in DOMAIN (t \o s), NEW j \in DOMAIN (t \o s), i < j
               PROVE  Depth((t \o s)[i]) > Depth((t \o s)[j])
    BY DEF Ordered
  <2>1. CASE j <= Len(t)
    <3>1. i \in DOMAIN t /\ j \in DOMAIN t
      BY <1>1, <2>1
    <3>2. (t \o s)[i] = t[i] /\ (t \o s)[j] = t[j]
      BY <1>1, <3>1
    <3> QED
      BY <3>1, <3>2 DEF Stacked, Ordered
  <2>2. CASE i > Len(t)
    <3>1. i - Len(t) \in DOMAIN s /\ j - Len(t) \in DOMAIN s /\ i - Len(t) < j - Len(t)
      BY <1>1, <2>2
    <3>2. (t \o s)[i] = s[i - Len(t)] /\ (t \o s)[j] = s[j - Len(t)]
      <4>1. i = Len(t) + (i - Len(t)) /\ j = Len(t) + (j - Len(t))
        BY <1>1
      <4> QED
        BY <1>1, <3>1, <4>1
    <3> QED
      BY <3>1, <3>2 DEF Stacked, Ordered
  <2>3. CASE i <= Len(t) /\ j > Len(t)
    <3>1. i \in DOMAIN t /\ j - Len(t) \in DOMAIN s
      BY <1>1, <2>3
    <3>2. (t \o s)[i] = t[i] /\ (t \o s)[j] = s[j - Len(t)]
      <4>1. j = Len(t) + (j - Len(t))
        BY <1>1
      <4> QED
        BY <1>1, <3>1, <4>1
    <3> QED
      BY <3>1, <3>2 DEF Members
  <2> QED
    BY <1>1, <2>1, <2>2, <2>3
<1> QED
  BY <1>1, <1>2, JoinMembers DEF Stacked

(* Popping takes the callback that lies above all the others.               *)
LEMMA PopStacked ==
  ASSUME NEW s, Stacked(s), s # <<>>
  PROVE  /\ Stacked(Tail(s)) /\ Head(s) \in Callbacks
         /\ Members(Tail(s)) = Members(s) \ {Head(s)}
         /\ \A d \in Members(Tail(s)) : Depth(Head(s)) > Depth(d)
<1>1. /\ Tail(s) \in Seq(Callbacks) /\ Len(s) \in Nat \ {0} /\ Len(Tail(s)) = Len(s) - 1
      /\ DOMAIN s = 1..Len(s) /\ DOMAIN Tail(s) = 1..(Len(s) - 1)
      /\ \A i \in 1..(Len(s) - 1) : Tail(s)[i] = s[i + 1]
      /\ Head(s) = s[1] /\ s[1] \in Callbacks
  BY DEF Stacked
<1>2. ASSUME NEW i \in DOMAIN Tail(s) PROVE i + 1 \in DOMAIN s /\ Tail(s)[i] = s[i + 1]
  BY <1>1
<1>3. \A i \in DOMAIN s : i # 1 => i - 1 \in DOMAIN Tail(s) /\ Tail(s)[i - 1] = s[i]
  BY <1>1
<1>4. \A i \in DOMAIN s : i # 1 => Depth(s[1]) > Depth(s[i])
  BY <1>1 DEF Stacked, Ordered
<1>5. Ordered(Tail(s))
  BY <1>1, <1>2 DEF Stacked, Ordered
<1>6. \A i \in DOMAIN s : i # 1 => s[i] # s[1]
  <2>1. ASSUME NEW i \in DOMAIN s, i # 1 PROVE s[i] # s[1]
    <3>1. Depth(s[1]) \in 1..10 /\ Depth(s[1]) > Depth(s[i])
      BY <1>1, <1>4, <2>1, DepthTyped
    <3> QED
      BY <3>1
  <2> QED
    BY <2>1
<1>7. Members(Tail(s)) = Members(s) \ {Head(s)}
  <2>1. ASSUME NEW i \in DOMAIN Tail(s) PROVE Tail(s)[i] \in Members(s) \ {s[1]}
    BY <1>1, <1>2, <1>6, <2>1 DEF Members
  <2>2. ASSUME NEW i \in DOMAIN s, s[i] # s[1] PROVE s[i] \in Members(Tail(s))
    BY <1>3, <2>2 DEF Members
  <2> QED
    BY <1>1, <2>1, <2>2 DEF Members
<1>8. \A d \in Members(Tail(s)) : Depth(Head(s)) > Depth(d)
  <2>1. ASSUME NEW i \in DOMAIN Tail(s) PROVE Depth(s[1]) > Depth(Tail(s)[i])
    BY <1>1, <1>2, <1>4, <2>1
  <2> QED
    BY <1>1, <2>1 DEF Members
<1> QED
  BY <1>1, <1>5, <1>7, <1>8 DEF Stacked

-----------------------------------------------------------------------------
(* How far up the stack reaches at each phase, what it surely holds by      *)
(* then, and what the boot has checked by then.                             *)

AfterClients == {"reports", "saver", "retention", "runtimes", "worker", "serving"}
AfterSink == {"clients"} \cup AfterClients
AfterStores == {"sink"} \cup AfterSink
AfterEngine == {"scope", "stores"} \cup AfterStores
Booting == {"engine"} \cup AfterEngine
Equipped == {"runtimes", "worker", "serving"}

Height(p) ==
    CASE p \in {"down", "engine"}            -> 0
      [] p \in {"scope", "stores", "sink"}   -> 1
      [] p = "clients"                       -> 3
      [] p = "reports"                       -> 5
      [] p = "saver"                         -> 6
      [] p = "retention"                     -> 8
      [] p \in {"runtimes", "worker"}        -> 9
      [] OTHER                               -> 10

OpenBy(p) ==
    {c \in {"engine"} : p \in AfterEngine} \cup {c \in {"sink", "current"} : p \in AfterSink}
        \cup {c \in {"whatsapp", "redis"} : p \in AfterClients}

Checked(p, c, s, r) ==
    /\ r \subseteq Registered(c)
    /\ p \in Booting => Accepted(c)
    /\ p \notin Equipped \cup {"unwinding"} => r = {}
    /\ p \in AfterStores => (c.budgets /= {} => c.provider /= "none")
    /\ p \in Equipped => \A id \in r : RuntimeBuilds(c, id)
    /\ p \in Equipped \cup {"retention"} /\ Registered(c) /= {} /\ c.saver /= "none" =>
          "saver" \in Members(s)
    /\ p \in {"worker", "serving"} => /\ r = Registered(c)
                                      /\ Registered(c) /= {} => c.budgets \subseteq r
    /\ p = "serving" => /\ WorkerFits(c)
                        /\ DOMAIN c.channels /= {} => "worker" \in Members(s)

(* An app at phase p, deployed as c, with stack s, open resources o and     *)
(* runtimes r.                                                              *)
AppGood(p, c, s, o, r) ==
    /\ Stacked(s) /\ o = Members(s) \cap Resources
    /\ \A x \in Members(s) : Needs(x) \subseteq Members(s) /\ Depth(x) <= Height(p)
    /\ "worker" \in Members(s) /\ c.saver /= "none" => "saver" \in Members(s)
    /\ OpenBy(p) \subseteq Members(s)
    /\ Checked(p, c, s, r)

Shape == /\ DOMAIN phase = Apps /\ DOMAIN stack = Apps /\ DOMAIN open = Apps
         /\ DOMAIN runtimes = Apps /\ DOMAIN boots = Apps

SharedOK ==
    /\ current \in Apps \cup {NoApp} /\ proactive \in Apps \cup {NoApp} /\ redis \in BOOLEAN
    /\ current \in Apps => "current" \in Held(current)
    /\ redis => \E a \in Apps : "redis" \in Held(a)

LifeInv ==
    /\ Shape /\ SharedOK
    /\ \A a \in Apps : /\ AppGood(phase[a], cfg[a], stack[a], open[a], runtimes[a])
                       /\ boots[a] \in 0..MaxBoots[a]

-----------------------------------------------------------------------------
(* What a phase change or a push has to show.                               *)

LEMMA MembersTyped ==
  ASSUME NEW s, Stacked(s)
  PROVE  Members(s) \subseteq Callbacks
  BY DEF Stacked, Members

LEMMA HeightTyped == \A p : Height(p) \in 0..10
  BY DEF Height

LEMMA AdvanceGood ==
  ASSUME NEW p, NEW c, NEW s, NEW o, NEW r, AppGood(p, c, s, o, r),
         NEW q, NEW t, Height(p) <= Height(q), OpenBy(q) \subseteq Members(s), Checked(q, c, s, t)
  PROVE  AppGood(q, c, s, o, t)
<1>1. \A x \in Members(s) : Depth(x) <= Height(q)
  <2>1. ASSUME NEW x \in Members(s) PROVE Depth(x) <= Height(q)
    <3>1. Depth(x) \in 1..10 /\ Height(p) \in 0..10 /\ Height(q) \in 0..10
      BY MembersTyped, DepthTyped, HeightTyped DEF AppGood
    <3>2. Depth(x) <= Height(p)
      BY DEF AppGood
    <3> QED
      BY <3>1, <3>2
  <2> QED
    BY <2>1
<1> QED
  BY <1>1 DEF AppGood

LEMMA PushGood ==
  ASSUME NEW p, NEW c, NEW s, NEW o, NEW r, AppGood(p, c, s, o, r),
         NEW q, Height(p) <= Height(q), NEW t, Stacked(t),
         \A x \in Members(t) : /\ Height(p) < Depth(x) /\ Depth(x) <= Height(q)
                               /\ Needs(x) \subseteq Members(t) \cup Members(s),
         "worker" \in Members(t) /\ c.saver /= "none" => "saver" \in Members(s),
         OpenBy(q) \subseteq Members(t) \cup Members(s), Checked(q, c, t \o s, r)
  PROVE  AppGood(q, c, t \o s, o \cup (Members(t) \cap Resources), r)
<1>1. \A x \in Members(s) : Depth(x) \in 1..10 /\ Depth(x) <= Height(p)
  BY MembersTyped, DepthTyped DEF AppGood
<1>2. Height(p) \in 0..10 /\ Height(q) \in 0..10 /\ \A x \in Members(t) : Depth(x) \in 1..10
  BY MembersTyped, DepthTyped, HeightTyped
<1>3. \A x \in Members(t) : \A y \in Members(s) : Depth(x) > Depth(y)
  BY <1>1, <1>2
<1>4. Stacked(t \o s) /\ Members(t \o s) = Members(t) \cup Members(s)
  BY <1>3, PushStacked DEF AppGood
<1>5. \A x \in Members(t \o s) : Needs(x) \subseteq Members(t \o s) /\ Depth(x) <= Height(q)
  BY <1>1, <1>2, <1>4 DEF AppGood
<1>6. "worker" \in Members(t \o s) /\ c.saver /= "none" => "saver" \in Members(t \o s)
  BY <1>4 DEF AppGood
<1> QED
  BY <1>4, <1>5, <1>6 DEF AppGood

(* The sequences the boot pushes.                                           *)
LEMMA OnePushed ==
  ASSUME NEW c \in Callbacks
  PROVE  Stacked(<<c>>) /\ Members(<<c>>) = {c}
  BY DEF Stacked, Ordered, Members

LEMMA TwoPushed ==
  ASSUME NEW c \in Callbacks, NEW d \in Callbacks, Depth(c) > Depth(d)
  PROVE  Stacked(<<c, d>>) /\ Members(<<c, d>>) = {c, d}
<1>1. DOMAIN <<c, d>> = {1, 2} /\ <<c, d>>[1] = c /\ <<c, d>>[2] = d
  OBVIOUS
<1> QED
  BY <1>1 DEF Stacked, Ordered, Members

-----------------------------------------------------------------------------
(* A step is one app's; the others' lives go on as they were.               *)

LEMMA OneApp ==
  ASSUME LifeInv, Shape', SharedOK', cfg' = cfg, NEW a \in Apps,
         AppGood(phase'[a], cfg[a], stack'[a], open'[a], runtimes'[a]),
         boots'[a] \in 0..MaxBoots[a],
         \A b \in Apps \ {a} : /\ phase'[b] = phase[b] /\ stack'[b] = stack[b]
                               /\ open'[b] = open[b] /\ runtimes'[b] = runtimes[b]
                               /\ boots'[b] = boots[b]
  PROVE  LifeInv'
<1>1. ASSUME NEW b \in Apps
      PROVE  /\ AppGood(phase'[b], cfg'[b], stack'[b], open'[b], runtimes'[b])
             /\ boots'[b] \in 0..MaxBoots[b]
  BY DEF LifeInv
<1> QED
  BY <1>1 DEF LifeInv

LEMMA SharedKept ==
  ASSUME LifeInv, UNCHANGED <<current, redis, proactive>>,
         \A b \in Apps : Members(stack[b]) \subseteq Members(stack'[b])
  PROVE  SharedOK'
  BY DEF LifeInv, SharedOK, Held

LEMMA BootCounted ==
  ASSUME LifeInv, NEW a \in Apps,
         boots' = [boots EXCEPT ![a] = @ + 1], boots[a] < MaxBoots[a]
  PROVE  /\ DOMAIN boots' = Apps /\ boots'[a] \in 0..MaxBoots[a]
         /\ \A b \in Apps \ {a} : boots'[b] = boots[b]
<1>1. DOMAIN boots = Apps /\ boots[a] \in 0..MaxBoots[a] /\ MaxBoots[a] \in Nat
  BY LifespanAssumption DEF LifeInv, Shape
<1> QED
  BY <1>1

(* A step that moves app a to phase q and pushes nothing.                   *)
LEMMA Moves ==
  ASSUME LifeInv, NEW a \in Apps, NEW q, Goto(a, q),
         Height(phase[a]) <= Height(q), OpenBy(q) \subseteq Members(stack[a]),
         Checked(q, cfg[a], stack[a], runtimes[a]),
         UNCHANGED <<cfg, stack, open, runtimes, current, redis>>,
         proactive' \in {proactive, a},
         \/ UNCHANGED boots
         \/ boots' = [boots EXCEPT ![a] = @ + 1] /\ boots[a] < MaxBoots[a]
  PROVE  LifeInv'
<1>1. /\ phase'[a] = q /\ DOMAIN phase' = Apps
      /\ \A b \in Apps \ {a} : phase'[b] = phase[b]
  BY DEF Goto, LifeInv, Shape
<1>2. AppGood(phase'[a], cfg[a], stack'[a], open'[a], runtimes'[a])
  <2>1. AppGood(phase[a], cfg[a], stack[a], open[a], runtimes[a])
    BY DEF LifeInv
  <2>2. AppGood(q, cfg[a], stack[a], open[a], runtimes[a])
    BY <2>1, AdvanceGood
  <2> QED
    BY <1>1, <2>2
<1>3. /\ DOMAIN boots' = Apps /\ boots'[a] \in 0..MaxBoots[a]
      /\ \A b \in Apps \ {a} : boots'[b] = boots[b]
  BY BootCounted DEF LifeInv, Shape
<1>4. Shape'
  BY <1>1, <1>3 DEF Shape, LifeInv
<1>5. SharedOK'
  BY DEF LifeInv, SharedOK, Held
<1> QED
  BY <1>1, <1>2, <1>3, <1>4, <1>5, OneApp

LEMMA HeightRises ==
  /\ Height("down") = 0 /\ Height("engine") = 0 /\ Height("scope") = 1
  /\ Height("stores") = 1 /\ Height("sink") = 1 /\ Height("clients") = 3
  /\ Height("reports") = 5 /\ Height("saver") = 6 /\ Height("retention") = 8
  /\ Height("runtimes") = 9 /\ Height("worker") = 9 /\ Height("serving") = 10
  /\ Height("unwinding") = 10
  BY DEF Height

(* Raising leaves everything to the unwinding.                              *)
LEMMA Raises ==
  ASSUME LifeInv, NEW a \in Apps, Raise(a),
         UNCHANGED <<cfg, stack, open, runtimes, boots, current, redis, proactive>>
  PROVE  LifeInv'
<1>1. Checked("unwinding", cfg[a], stack[a], runtimes[a])
  BY DEF LifeInv, AppGood, Checked, Equipped, Booting, AfterEngine, AfterStores, AfterSink,
         AfterClients
<1>2. OpenBy("unwinding") \subseteq Members(stack[a])
  BY DEF OpenBy, AfterEngine, AfterStores, AfterSink, AfterClients
<1>3. Height(phase[a]) <= Height("unwinding")
  BY HeightTyped, HeightRises
<1> QED
  BY <1>1, <1>2, <1>3, Moves DEF Raise

LEMMA PlanKeeps ==
  ASSUME LifeInv, NEW a \in Apps, Plan(a)
  PROVE  LifeInv'
<1>1. CASE Accepted(cfg[a])
  <2>1. Checked("engine", cfg[a], stack[a], runtimes[a])
    BY <1>1 DEF Plan, LifeInv, AppGood, Checked, Equipped, Booting, AfterEngine, AfterStores,
                AfterSink, AfterClients
  <2>2. OpenBy("engine") \subseteq Members(stack[a])
    BY DEF OpenBy, AfterEngine, AfterStores, AfterSink, AfterClients
  <2>3. /\ phase[a] = "down" /\ Goto(a, "engine")
        /\ boots' = [boots EXCEPT ![a] = @ + 1] /\ boots[a] < MaxBoots[a]
        /\ UNCHANGED <<cfg, stack, open, runtimes, current, redis, proactive>>
    BY <1>1 DEF Plan
  <2>4. Height(phase[a]) <= Height("engine")
    BY <2>3, HeightRises
  <2> QED
    BY <2>1, <2>2, <2>3, <2>4, Moves
<1>2. CASE ~Accepted(cfg[a])
  <2>1. /\ boots' = [boots EXCEPT ![a] = @ + 1] /\ boots[a] < MaxBoots[a]
        /\ UNCHANGED <<phase, cfg, stack, open, runtimes, current, redis, proactive>>
    BY <1>2 DEF Plan
  <2>2. /\ DOMAIN boots' = Apps /\ boots'[a] \in 0..MaxBoots[a]
        /\ \A b \in Apps \ {a} : boots'[b] = boots[b]
    BY <2>1, BootCounted
  <2>3. Shape' /\ SharedOK'
    BY <2>1, <2>2 DEF LifeInv, Shape, SharedOK, Held
  <2>4. AppGood(phase'[a], cfg[a], stack'[a], open'[a], runtimes'[a])
    BY <2>1 DEF LifeInv
  <2> QED
    BY <2>1, <2>2, <2>3, <2>4, OneApp
<1> QED
  BY <1>1, <1>2

LEMMA BindScopeKeeps ==
  ASSUME LifeInv, NEW a \in Apps, BindScope(a)
  PROVE  LifeInv'
<1>1. Checked("stores", cfg[a], stack[a], runtimes[a])
  BY DEF BindScope, LifeInv, AppGood, Checked, Equipped, Booting, AfterEngine, AfterStores,
         AfterSink, AfterClients
<1>2. OpenBy("stores") \subseteq Members(stack[a])
  BY DEF BindScope, LifeInv, AppGood, OpenBy, AfterEngine, AfterStores, AfterSink, AfterClients
<1> QED
  BY <1>1, <1>2, HeightRises, Moves DEF BindScope

LEMMA BindStoresKeeps ==
  ASSUME LifeInv, NEW a \in Apps, BindStores(a)
  PROVE  LifeInv'
<1>1. CASE BudgetsParse(cfg[a]) /\ StoresBind(a)
  <2>1. Checked("sink", cfg[a], stack[a], runtimes[a])
    BY <1>1 DEF BindStores, StoresBind, LifeInv, AppGood, Checked, Equipped, Booting, AfterEngine,
                AfterStores, AfterSink, AfterClients
  <2>2. OpenBy("sink") \subseteq Members(stack[a])
    BY DEF BindStores, LifeInv, AppGood, OpenBy, AfterEngine, AfterStores, AfterSink, AfterClients
  <2> QED
    BY <1>1, <2>1, <2>2, HeightRises, Moves DEF BindStores
<1>2. CASE ~(BudgetsParse(cfg[a]) /\ StoresBind(a))
  BY <1>2, Raises DEF BindStores
<1> QED
  BY <1>1, <1>2

(* A step that pushes t and moves app a to phase q.                         *)
LEMMA Pushes ==
  ASSUME LifeInv, NEW a \in Apps, NEW t, Stacked(t), NEW q, Goto(a, q),
         Push(a, t, Members(t) \cap Resources), Height(phase[a]) <= Height(q),
         \A x \in Members(t) : /\ Height(phase[a]) < Depth(x) /\ Depth(x) <= Height(q)
                               /\ Needs(x) \subseteq Members(t) \cup Held(a),
         "worker" \in Members(t) /\ cfg[a].saver /= "none" => "saver" \in Held(a),
         OpenBy(q) \subseteq Members(t) \cup Held(a),
         Checked(q, cfg[a], t \o stack[a], runtimes[a]),
         UNCHANGED <<cfg, runtimes, boots, redis, proactive>>,
         current' = current \/ (current' = a /\ "current" \in Members(t))
  PROVE  LifeInv'
<1>1. /\ phase'[a] = q /\ DOMAIN phase' = Apps
      /\ \A b \in Apps \ {a} : phase'[b] = phase[b]
  BY DEF Goto, LifeInv, Shape
<1>2. /\ stack'[a] = t \o stack[a] /\ DOMAIN stack' = Apps
      /\ \A b \in Apps \ {a} : stack'[b] = stack[b]
      /\ open'[a] = open[a] \cup (Members(t) \cap Resources) /\ DOMAIN open' = Apps
      /\ \A b \in Apps \ {a} : open'[b] = open[b]
  BY DEF Push, LifeInv, Shape
<1>3. AppGood(phase[a], cfg[a], stack[a], open[a], runtimes[a])
  BY DEF LifeInv
<1>4. AppGood(q, cfg[a], t \o stack[a], open[a] \cup (Members(t) \cap Resources), runtimes[a])
  BY <1>3, PushGood DEF Held
<1>5. AppGood(phase'[a], cfg[a], stack'[a], open'[a], runtimes'[a])
  BY <1>1, <1>2, <1>4
<1>6. Members(stack'[a]) = Members(t) \cup Members(stack[a])
  <2>1. \A x \in Members(t) : \A y \in Members(stack[a]) : Depth(x) > Depth(y)
    <3>1. \A y \in Members(stack[a]) : Depth(y) \in 1..10 /\ Depth(y) <= Height(phase[a])
      BY <1>3, MembersTyped, DepthTyped DEF AppGood
    <3>2. \A x \in Members(t) : Depth(x) \in 1..10
      BY MembersTyped, DepthTyped
    <3> QED
      BY <3>1, <3>2, HeightTyped
  <2> QED
    BY <1>2, <1>3, <2>1, PushStacked DEF AppGood
<1>7. Shape'
  BY <1>1, <1>2 DEF Shape, LifeInv
<1>8. \A b \in Apps : Members(stack[b]) \subseteq Members(stack'[b])
  BY <1>2, <1>6
<1>9. SharedOK'
  BY <1>6, <1>8 DEF LifeInv, SharedOK, Held
<1> QED
  BY <1>1, <1>2, <1>5, <1>7, <1>9, OneApp DEF LifeInv

LEMMA UnwindingChecked ==
  ASSUME NEW p, NEW c, NEW s, NEW o, NEW r, AppGood(p, c, s, o, r), NEW t
  PROVE  Checked("unwinding", c, t, r) /\ OpenBy("unwinding") = {}
  BY DEF AppGood, Checked, OpenBy, Equipped, Booting, AfterEngine, AfterStores, AfterSink,
         AfterClients

LEMMA OpenEngineKeeps ==
  ASSUME LifeInv, NEW a \in Apps, OpenEngine(a)
  PROVE  LifeInv'
<1>1. Stacked(<<"engine">>) /\ Members(<<"engine">>) = {"engine"}
  BY OnePushed DEF Callbacks, Resources
<1>2. Checked("scope", cfg[a], <<"engine">> \o stack[a], runtimes[a])
  BY DEF OpenEngine, LifeInv, AppGood, Checked, Equipped, Booting, AfterEngine, AfterStores,
         AfterSink, AfterClients
<1>3. OpenBy("scope") = {"engine"}
  BY DEF OpenBy, AfterEngine, AfterStores, AfterSink, AfterClients
<1>4. Depth("engine") = 1 /\ Needs("engine") = {} /\ {"engine"} \cap Resources = {"engine"}
  BY DEF Depth, Needs, Resources
<1> QED
  BY <1>1, <1>2, <1>3, <1>4, HeightRises, Pushes DEF OpenEngine

LEMMA StartSinkKeeps ==
  ASSUME LifeInv, NEW a \in Apps, StartSink(a)
  PROVE  LifeInv'
<1>1. Depth("sink") = 3 /\ Depth("current") = 2
  BY DEF Depth
<1>2. Stacked(<<"sink", "current">>) /\ Members(<<"sink", "current">>) = {"sink", "current"}
  BY <1>1, TwoPushed DEF Callbacks, Resources
<1>3. "engine" \in Held(a)
  BY DEF StartSink, LifeInv, AppGood, OpenBy, AfterEngine, AfterStores, Held
<1>4. Checked("clients", cfg[a], <<"sink", "current">> \o stack[a], runtimes[a])
  BY DEF StartSink, LifeInv, AppGood, Checked, Equipped, Booting, AfterEngine, AfterStores,
         AfterSink, AfterClients
<1>5. OpenBy("clients") \subseteq {"engine", "sink", "current"}
  BY DEF OpenBy, AfterEngine, AfterStores, AfterSink, AfterClients
<1>6. /\ Needs("sink") = {"engine"} /\ Needs("current") = {}
      /\ {"sink", "current"} \cap Resources = {"sink"}
  BY DEF Needs, Resources
<1>7. Height(phase[a]) = 1 /\ Height("clients") = 3
  BY HeightRises DEF StartSink
<1>8. /\ Goto(a, "clients") /\ Push(a, <<"sink", "current">>, {"sink"}) /\ current' = a
      /\ UNCHANGED <<cfg, runtimes, boots, redis, proactive>>
  BY DEF StartSink
<1>9. \A x \in {"sink", "current"} : 1 < Depth(x) /\ Depth(x) <= 3
                                     /\ Needs(x) \subseteq {"sink", "current"} \cup Held(a)
  BY <1>1, <1>3, <1>6
<1> QED
  BY <1>2, <1>3, <1>4, <1>5, <1>6, <1>7, <1>8, <1>9, Pushes

LEMMA OpenClientsKeeps ==
  ASSUME LifeInv, NEW a \in Apps, OpenClients(a)
  PROVE  LifeInv'
<1> DEFINE q == IF Registered(cfg[a]) = {} THEN "worker" ELSE "reports"
           t == <<"redis", "whatsapp">>
<1>1. Depth("redis") = 5 /\ Depth("whatsapp") = 4
  BY DEF Depth
<1>2. Stacked(t) /\ Members(t) = {"redis", "whatsapp"}
  BY <1>1, TwoPushed DEF Callbacks, Resources
<1>3. {"engine", "sink", "current"} \subseteq Held(a)
  BY DEF OpenClients, LifeInv, AppGood, OpenBy, AfterEngine, AfterStores, AfterSink, Held
<1>4. /\ runtimes[a] = {} /\ Accepted(cfg[a])
      /\ cfg[a].budgets /= {} => cfg[a].provider /= "none"
  BY DEF OpenClients, LifeInv, AppGood, Checked, Equipped, Booting, AfterEngine, AfterStores,
         AfterSink
<1>5. Checked(q, cfg[a], t \o stack[a], runtimes[a])
  <2>1. CASE Registered(cfg[a]) = {}
    BY <1>4, <2>1 DEF Checked, Equipped, Booting, AfterEngine, AfterStores, AfterSink, AfterClients
  <2>2. CASE Registered(cfg[a]) # {}
    BY <1>4, <2>2 DEF Checked, Equipped, Booting, AfterEngine, AfterStores, AfterSink, AfterClients
  <2> QED
    BY <2>1, <2>2
<1>6. OpenBy(q) \subseteq {"engine", "sink", "current", "whatsapp", "redis"}
  BY DEF OpenBy
<1>7. /\ Needs("redis") = {} /\ Needs("whatsapp") = {}
      /\ {"redis", "whatsapp"} \cap Resources = {"whatsapp"}
  BY DEF Needs, Resources
<1>8. Height(phase[a]) = 3 /\ Height(q) \in {5, 9}
  BY HeightRises DEF OpenClients
<1>9. /\ Goto(a, q) /\ Push(a, t, {"whatsapp"})
      /\ UNCHANGED <<cfg, runtimes, boots, current, redis, proactive>>
  BY DEF OpenClients
<1>10. \A x \in {"redis", "whatsapp"} : 3 < Depth(x) /\ Depth(x) <= Height(q)
                                        /\ Needs(x) \subseteq {"redis", "whatsapp"} \cup Held(a)
  BY <1>1, <1>7, <1>8
<1> HIDE DEF q, t
<1> QED
  BY <1>2, <1>3, <1>5, <1>6, <1>7, <1>8, <1>9, <1>10, Pushes

LEMMA OpenReportsKeeps ==
  ASSUME LifeInv, NEW a \in Apps, OpenReports(a)
  PROVE  LifeInv'
<1> DEFINE q == IF "default tool" \in cfg[a].flaws THEN "unwinding" ELSE "saver"
<1>1. ASSUME NEW t PROVE Checked(q, cfg[a], t, runtimes[a])
  BY DEF OpenReports, LifeInv, AppGood, Checked, Equipped, Booting, AfterEngine, AfterStores,
         AfterSink, AfterClients
<1>2. OpenBy(q) \subseteq Held(a)
  BY DEF OpenReports, LifeInv, AppGood, OpenBy, AfterEngine, AfterStores, AfterSink, AfterClients,
         Held
<1>3. Height(phase[a]) = 5 /\ Height(q) \in {6, 10}
  BY HeightRises DEF OpenReports
<1>4. /\ Goto(a, q)
      /\ UNCHANGED <<cfg, runtimes, boots, current, redis, proactive>>
  BY DEF OpenReports, Raise
<1>5. CASE cfg[a].bi = "none"
  <2>1. UNCHANGED <<stack, open>>
    BY <1>5 DEF OpenReports
  <2> HIDE DEF q
  <2> QED
    BY <1>1, <1>2, <1>3, <1>4, <2>1, Moves DEF Held
<1>6. CASE cfg[a].bi # "none"
  <2>1. Push(a, <<"bi">>, {"bi"})
    BY <1>6 DEF OpenReports
  <2>2. Stacked(<<"bi">>) /\ Members(<<"bi">>) = {"bi"}
    BY OnePushed DEF Callbacks, Resources
  <2>3. Depth("bi") = 6 /\ Needs("bi") = {} /\ {"bi"} \cap Resources = {"bi"}
    BY DEF Depth, Needs, Resources
  <2> HIDE DEF q
  <2> QED
    BY <1>1, <1>2, <1>3, <1>4, <2>1, <2>2, <2>3, Pushes
<1> QED
  BY <1>5, <1>6

LEMMA OpenSaverKeeps ==
  ASSUME LifeInv, NEW a \in Apps, OpenSaver(a)
  PROVE  LifeInv'
<1> DEFINE t == SaverCallbacks(cfg[a])
<1>1. OpenBy("retention") \subseteq Held(a)
  BY DEF OpenSaver, LifeInv, AppGood, OpenBy, AfterEngine, AfterStores, AfterSink, AfterClients,
         Held
<1>2. Height(phase[a]) = 6 /\ Height("retention") = 8
  BY HeightRises DEF OpenSaver
<1>3. /\ Goto(a, "retention")
      /\ UNCHANGED <<cfg, runtimes, boots, current, redis, proactive>>
  BY DEF OpenSaver
<1>4. CASE cfg[a].saver = "none"
  <2>1. Checked("retention", cfg[a], stack[a], runtimes[a])
    BY <1>4 DEF OpenSaver, LifeInv, AppGood, Checked, Equipped, Booting, AfterEngine, AfterStores,
                AfterSink, AfterClients
  <2>2. UNCHANGED <<stack, open>>
    BY <1>4 DEF OpenSaver
  <2> QED
    BY <1>1, <1>2, <1>3, <2>1, <2>2, Moves DEF Held
<1>5. CASE cfg[a].saver # "none"
  <2>1. Depth("purger") = 8 /\ Depth("saver") = 7 /\ Needs("purger") = {"saver"} /\ Needs("saver") = {}
    BY DEF Depth, Needs
  <2>2. Stacked(t) /\ "saver" \in Members(t) /\ Members(t) \subseteq {"saver", "purger"}
    <3>1. Stacked(<<"purger", "saver">>) /\ Members(<<"purger", "saver">>) = {"purger", "saver"}
      BY <2>1, TwoPushed DEF Callbacks, Resources
    <3>2. Stacked(<<"saver">>) /\ Members(<<"saver">>) = {"saver"}
      BY OnePushed DEF Callbacks, Resources
    <3> QED
      BY <3>1, <3>2 DEF SaverCallbacks
  <2>3. Push(a, t, Members(t) \cap Resources)
    <3>1. Members(t) \cap Resources = Members(t)
      BY <2>2 DEF Resources
    <3>2. Push(a, t, Members(t))
      BY <1>5 DEF OpenSaver, Members
    <3> QED
      BY <3>1, <3>2
  <2>4. Stacked(stack[a])
    BY DEF LifeInv, AppGood
  <2>5. "saver" \in Members(t \o stack[a])
    BY <2>2, <2>4, JoinMembers
  <2>6. Checked("retention", cfg[a], t \o stack[a], runtimes[a])
    <3> HIDE DEF t
    <3> QED
      BY <2>5 DEF OpenSaver, LifeInv, AppGood, Checked, Equipped, Booting, AfterEngine,
                  AfterStores, AfterSink, AfterClients
  <2>7. \A x \in Members(t) : 6 < Depth(x) /\ Depth(x) <= 8
                              /\ Needs(x) \subseteq Members(t) \cup Held(a)
    BY <2>1, <2>2
  <2>8. "worker" \notin Members(t)
    BY <2>2
  <2> HIDE DEF t
  <2> QED
    BY <1>1, <1>2, <1>3, <2>2, <2>3, <2>6, <2>7, <2>8, Pushes
<1> QED
  BY <1>4, <1>5

LEMMA StartPurgerKeeps ==
  ASSUME LifeInv, NEW a \in Apps, StartPurger(a)
  PROVE  LifeInv'
<1> DEFINE q == IF cfg[a].retention = "unknown" \/ ~MarginCovers(cfg[a]) THEN "unwinding"
                                                                      ELSE "runtimes"
<1>1. ASSUME NEW t, Members(stack[a]) \subseteq Members(t)
      PROVE  Checked(q, cfg[a], t, runtimes[a])
  BY <1>1 DEF StartPurger, LifeInv, AppGood, Checked, Equipped, Booting, AfterEngine, AfterStores,
              AfterSink, AfterClients
<1>2. OpenBy(q) \subseteq Held(a) /\ "engine" \in Held(a)
  BY DEF StartPurger, LifeInv, AppGood, OpenBy, AfterEngine, AfterStores, AfterSink, AfterClients,
         Held
<1>3. Height(phase[a]) = 8 /\ Height(q) \in {9, 10}
  BY HeightRises DEF StartPurger
<1>4. /\ Goto(a, q)
      /\ UNCHANGED <<cfg, runtimes, boots, current, redis, proactive>>
  BY DEF StartPurger, Raise
<1>5. CASE cfg[a].retention # "known"
  <2>1. UNCHANGED <<stack, open>>
    BY <1>5 DEF StartPurger
  <2> HIDE DEF q
  <2> QED
    BY <1>1, <1>2, <1>3, <1>4, <2>1, Moves DEF Held
<1>6. CASE cfg[a].retention = "known"
  <2>1. Push(a, <<"retention">>, {"retention"})
    BY <1>6 DEF StartPurger
  <2>2. Stacked(<<"retention">>) /\ Members(<<"retention">>) = {"retention"}
    BY OnePushed DEF Callbacks, Resources
  <2>3. /\ Depth("retention") = 9 /\ Needs("retention") = {"engine"}
        /\ {"retention"} \cap Resources = {"retention"}
    BY DEF Depth, Needs, Resources
  <2>4. Checked(q, cfg[a], <<"retention">> \o stack[a], runtimes[a])
    <3>1. Stacked(stack[a])
      BY DEF LifeInv, AppGood
    <3>2. Members(stack[a]) \subseteq Members(<<"retention">> \o stack[a])
      BY <2>2, <3>1, JoinMembers
    <3> HIDE DEF q
    <3> QED
      BY <1>1, <3>2
  <2> HIDE DEF q
  <2> QED
    BY <1>2, <1>3, <1>4, <2>1, <2>2, <2>3, <2>4, Pushes
<1> QED
  BY <1>5, <1>6

LEMMA BuildRuntimeKeeps ==
  ASSUME LifeInv, NEW a \in Apps, BuildRuntime(a)
  PROVE  LifeInv'
<1>1. PICK id \in Registered(cfg[a]) \ runtimes[a] :
         IF RuntimeBuilds(cfg[a], id)
           THEN runtimes' = [runtimes EXCEPT ![a] = @ \cup {id}] /\ UNCHANGED phase
           ELSE Raise(a) /\ UNCHANGED runtimes
  BY DEF BuildRuntime
<1>2. CASE RuntimeBuilds(cfg[a], id)
  <2>1. /\ runtimes'[a] = runtimes[a] \cup {id} /\ DOMAIN runtimes' = Apps
        /\ \A b \in Apps \ {a} : runtimes'[b] = runtimes[b]
        /\ phase[a] = "runtimes"
        /\ UNCHANGED <<phase, cfg, stack, open, reports, bound, boots, current, redis, proactive>>
    BY <1>1, <1>2 DEF BuildRuntime, LifeInv, Shape
  <2>2. Checked("runtimes", cfg[a], stack[a], runtimes[a] \cup {id})
    BY <1>2, <2>1 DEF LifeInv, AppGood, Checked, Equipped, Booting, AfterEngine, AfterStores,
                      AfterSink, AfterClients
  <2>3. AppGood("runtimes", cfg[a], stack[a], open[a], runtimes[a])
    BY <2>1 DEF LifeInv
  <2>4. AppGood("runtimes", cfg[a], stack[a], open[a], runtimes[a] \cup {id})
    BY <2>2, <2>3 DEF AppGood
  <2>5. Shape' /\ SharedOK'
    BY <2>1 DEF LifeInv, Shape, SharedOK, Held
  <2> QED
    BY <2>1, <2>4, <2>5, OneApp DEF LifeInv
<1>3. CASE ~RuntimeBuilds(cfg[a], id)
  BY <1>1, <1>3, Raises DEF BuildRuntime
<1> QED
  BY <1>2, <1>3

LEMMA RuntimesBuiltKeeps ==
  ASSUME LifeInv, NEW a \in Apps, RuntimesBuilt(a)
  PROVE  LifeInv'
<1>1. CASE cfg[a].budgets \subseteq runtimes[a]
  <2>1. Checked("worker", cfg[a], stack[a], runtimes[a])
    BY <1>1 DEF RuntimesBuilt, LifeInv, AppGood, Checked, Equipped, Booting, AfterEngine,
                AfterStores, AfterSink, AfterClients
  <2>2. OpenBy("worker") \subseteq Members(stack[a])
    BY DEF RuntimesBuilt, LifeInv, AppGood, OpenBy, AfterEngine, AfterStores, AfterSink, AfterClients
  <2> QED
    BY <1>1, <2>1, <2>2, HeightRises, Moves DEF RuntimesBuilt
<1>2. CASE ~(cfg[a].budgets \subseteq runtimes[a])
  BY <1>2, Raises DEF RuntimesBuilt
<1> QED
  BY <1>1, <1>2

LEMMA StartWorkerKeeps ==
  ASSUME LifeInv, NEW a \in Apps, StartWorker(a)
  PROVE  LifeInv'
<1>1. CASE ~WorkerFits(cfg[a])
  BY <1>1, Raises DEF StartWorker
<1>2. CASE WorkerFits(cfg[a])
  <2>1. /\ phase[a] = "worker" /\ Goto(a, "serving")
        /\ UNCHANGED <<cfg, runtimes, boots, current, redis, proactive>>
    BY <1>2 DEF StartWorker
  <2>2. {"engine", "sink", "current", "whatsapp", "redis"} \subseteq Held(a)
    BY <2>1 DEF LifeInv, AppGood, OpenBy, AfterEngine, AfterStores, AfterSink, AfterClients, Held
  <2>3. OpenBy("serving") \subseteq Held(a)
    BY <2>2 DEF OpenBy
  <2>4. Height(phase[a]) = 9 /\ Height("serving") = 10
    BY <2>1, HeightRises
  <2>5. Checked("worker", cfg[a], stack[a], runtimes[a])
    BY <2>1 DEF LifeInv, AppGood
  <2>6. CASE DOMAIN cfg[a].channels = {}
    <3>1. Checked("serving", cfg[a], stack[a], runtimes[a])
      BY <1>2, <2>5, <2>6 DEF Checked, Equipped, Booting, AfterEngine, AfterStores, AfterSink,
                              AfterClients
    <3>2. UNCHANGED <<stack, open>>
      BY <1>2, <2>6 DEF StartWorker
    <3> QED
      BY <2>1, <2>3, <2>4, <3>1, <3>2, Moves DEF Held
  <2>7. CASE DOMAIN cfg[a].channels # {}
    <3>1. Push(a, <<"worker">>, {"worker"})
      BY <1>2, <2>7 DEF StartWorker
    <3>2. Stacked(<<"worker">>) /\ Members(<<"worker">>) = {"worker"}
      BY OnePushed DEF Callbacks, Resources
    <3>3. /\ Depth("worker") = 10 /\ Needs("worker") = {"engine", "sink", "whatsapp"}
          /\ {"worker"} \cap Resources = {"worker"}
      BY DEF Depth, Needs, Resources
    <3>4. Members(<<"worker">> \o stack[a]) = {"worker"} \cup Members(stack[a])
      BY <3>2, JoinMembers DEF LifeInv, AppGood
    <3>5. Checked("serving", cfg[a], <<"worker">> \o stack[a], runtimes[a])
      BY <1>2, <2>5, <3>4 DEF Checked, Equipped, Booting, AfterEngine, AfterStores, AfterSink,
                              AfterClients
    <3>6. cfg[a].saver /= "none" => "saver" \in Held(a)
      <4>1. PICK n : n \in DOMAIN cfg[a].channels
        BY <2>7
      <4>2. cfg[a].channels[n] \in Registered(cfg[a])
        BY <2>5, <4>1 DEF Checked, Booting, AfterEngine, AfterStores, AfterSink, AfterClients,
                          Accepted, ChannelIds
      <4> QED
        BY <2>5, <4>2 DEF Checked, Equipped, Held
    <3> QED
      BY <2>1, <2>2, <2>3, <2>4, <3>1, <3>2, <3>3, <3>5, <3>6, Pushes
  <2> QED
    BY <2>6, <2>7
<1> QED
  BY <1>1, <1>2

LEMMA UseRedisKeeps ==
  ASSUME LifeInv, NEW a \in Apps, UseRedis(a)
  PROVE  LifeInv'
<1>1. "redis" \in Held(a)
  BY DEF UseRedis, LifeInv, AppGood, OpenBy, AfterEngine, AfterStores, AfterSink, AfterClients, Held
<1>2. SharedOK'
  BY <1>1 DEF UseRedis, app, LifeInv, SharedOK, Held
<1> QED
  BY <1>2 DEF UseRedis, app, LifeInv, Shape

-----------------------------------------------------------------------------
(* What a callback's resource needs lies below it, so the newest one is     *)
(* needed by nothing that is left.                                          *)
LEMMA NeedsBelow ==
  ASSUME NEW x \in Callbacks, NEW y \in Needs(x)
  PROVE  Depth(y) < Depth(x) /\ y \in Resources
  BY DEF Callbacks, Resources, Needs, Depth

LEMMA PopGood ==
  ASSUME NEW c, NEW s, NEW o, NEW r, AppGood("unwinding", c, s, o, r), s # <<>>
  PROVE  AppGood("unwinding", c, Tail(s), o \ {Head(s)}, r)
<1>1. /\ Stacked(Tail(s)) /\ Head(s) \in Callbacks
      /\ Members(Tail(s)) = Members(s) \ {Head(s)}
      /\ \A d \in Members(Tail(s)) : Depth(Head(s)) > Depth(d)
  BY PopStacked DEF AppGood
<1>2. ASSUME NEW x \in Members(Tail(s)) PROVE Needs(x) \subseteq Members(Tail(s))
  <2>1. x \in Callbacks /\ x \in Members(s)
    BY <1>1, MembersTyped
  <2>2. ASSUME NEW y \in Needs(x) PROVE y # Head(s)
    <3>1. Depth(y) < Depth(x) /\ y \in Callbacks
      BY <2>1, NeedsBelow DEF Callbacks
    <3>2. Depth(x) \in 1..10 /\ Depth(y) \in 1..10 /\ Depth(Head(s)) \in 1..10
      BY <1>1, <2>1, <3>1, DepthTyped
    <3> QED
      BY <1>1, <3>1, <3>2
  <2> QED
    BY <1>1, <2>1, <2>2 DEF AppGood
<1>3. "worker" \in Members(Tail(s)) => Head(s) # "saver"
  <2>1. Depth("worker") = 10 /\ Depth("saver") = 7
    BY DEF Depth
  <2> QED
    BY <1>1, <2>1
<1>4. Checked("unwinding", c, Tail(s), r) /\ OpenBy("unwinding") = {}
  BY UnwindingChecked
<1> QED
  BY <1>1, <1>2, <1>3, <1>4 DEF AppGood

LEMMA UnwindKeeps ==
  ASSUME LifeInv, NEW a \in Apps, Unwind(a)
  PROVE  LifeInv'
<1>1. /\ phase[a] = "unwinding" /\ stack[a] # <<>>
      /\ stack' = [stack EXCEPT ![a] = Tail(@)]
      /\ open' = [open EXCEPT ![a] = @ \ {Head(stack[a])}]
      /\ UNCHANGED <<phase, cfg, runtimes, boots, proactive>>
  BY DEF Unwind, AfterCallback
<1>2. /\ stack'[a] = Tail(stack[a]) /\ open'[a] = open[a] \ {Head(stack[a])}
      /\ \A b \in Apps \ {a} : stack'[b] = stack[b] /\ open'[b] = open[b]
      /\ Shape'
  BY <1>1 DEF LifeInv, Shape
<1>3. AppGood("unwinding", cfg[a], stack[a], open[a], runtimes[a])
  BY <1>1 DEF LifeInv
<1>4. AppGood(phase'[a], cfg[a], stack'[a], open'[a], runtimes'[a])
  BY <1>1, <1>2, <1>3, PopGood
<1>5. Members(stack'[a]) = Members(stack[a]) \ {Head(stack[a])}
  BY <1>1, <1>2, <1>3, PopStacked DEF AppGood
<1>6. SharedOK'
  <2>1. current' \in Apps \cup {NoApp} /\ proactive' \in Apps \cup {NoApp} /\ redis' \in BOOLEAN
    BY DEF Unwind, ClearCurrent, LifeInv, SharedOK
  <2>2. current' \in Apps => "current" \in Held(current)'
    <3>1. CASE Head(stack[a]) = "current"
      BY <1>2, <3>1, LifespanAssumption DEF Unwind, ClearCurrent, LifeInv, SharedOK, Held
    <3>2. CASE Head(stack[a]) # "current"
      BY <1>2, <1>5, <3>2 DEF Unwind, LifeInv, SharedOK, Held
    <3> QED
      BY <3>1, <3>2
  <2>3. redis' => \E b \in Apps : "redis" \in Members(stack'[b])
    <3> SUFFICES ASSUME redis' PROVE \E b \in Apps : "redis" \in Members(stack'[b])
      OBVIOUS
    <3>1. redis /\ Head(stack[a]) # "redis"
      BY DEF Unwind
    <3>2. PICK b \in Apps : "redis" \in Members(stack[b])
      BY <3>1 DEF LifeInv, SharedOK, Held
    <3>3. CASE b = a
      BY <1>5, <3>1, <3>2, <3>3
    <3>4. CASE b # a
      BY <1>2, <3>2, <3>4
    <3> QED
      BY <3>3, <3>4
  <2> QED
    BY <2>1, <2>2, <2>3 DEF SharedOK, Held
<1> QED
  BY <1>1, <1>2, <1>4, <1>6, OneApp DEF LifeInv

LEMMA EndedKeeps ==
  ASSUME LifeInv, NEW a \in Apps, Ended(a)
  PROVE  LifeInv'
<1>1. /\ stack[a] = <<>> /\ phase'[a] = "down" /\ runtimes'[a] = {}
      /\ \A b \in Apps \ {a} : phase'[b] = phase[b] /\ runtimes'[b] = runtimes[b]
      /\ UNCHANGED <<cfg, stack, open, boots, current, redis, proactive>>
      /\ Shape'
  BY DEF Ended, Goto, LifeInv, Shape
<1>2. Members(stack[a]) = {}
  BY <1>1 DEF Members
<1>3. Checked("down", cfg[a], stack[a], {}) /\ OpenBy("down") = {}
  BY DEF Checked, OpenBy, Equipped, Booting, AfterEngine, AfterStores, AfterSink, AfterClients
<1>4. AppGood("down", cfg[a], stack[a], open[a], {})
  BY <1>2, <1>3 DEF LifeInv, AppGood
<1>5. SharedOK'
  BY <1>1 DEF LifeInv, SharedOK, Held
<1> QED
  BY <1>1, <1>4, <1>5, OneApp DEF LifeInv

-----------------------------------------------------------------------------
LEMMA LifeInitInv == LifespanInit => LifeInv
<1> SUFFICES ASSUME LifespanInit PROVE LifeInv
  OBVIOUS
<1>1. Shape /\ SharedOK
  BY LifespanAssumption DEF LifespanInit, Shape, SharedOK
<1>2. ASSUME NEW a \in Apps
      PROVE  /\ AppGood(phase[a], cfg[a], stack[a], open[a], runtimes[a])
             /\ boots[a] \in 0..MaxBoots[a]
  <2>1. /\ phase[a] = "down" /\ stack[a] = <<>> /\ open[a] = {} /\ runtimes[a] = {}
        /\ boots[a] = 0
    BY DEF LifespanInit
  <2>2. Stacked(<<>>) /\ Members(<<>>) = {}
    BY DEF Stacked, Ordered, Members
  <2>3. Checked("down", cfg[a], <<>>, {}) /\ OpenBy("down") = {}
    BY DEF Checked, OpenBy, Equipped, Booting, AfterEngine, AfterStores, AfterSink, AfterClients
  <2>4. AppGood("down", cfg[a], <<>>, {}, {})
    BY <2>2, <2>3 DEF AppGood
  <2> QED
    BY <2>1, <2>4, LifespanAssumption
<1> QED
  BY <1>1, <1>2 DEF LifeInv

LEMMA LifeStepKeeps == LifeInv /\ [LifespanStep]_lifespanVars => LifeInv'
<1> SUFFICES ASSUME LifeInv, [LifespanStep]_lifespanVars
             PROVE  LifeInv'
  OBVIOUS
<1>1. CASE UNCHANGED lifespanVars
  BY <1>1 DEF lifespanVars, app, LifeInv, Shape, SharedOK, Held
<1>2. ASSUME NEW a \in Apps, Fail(a) \/ Stop(a) PROVE LifeInv'
  BY <1>2, Raises DEF Fail, Stop
<1> QED
  BY <1>1, <1>2, PlanKeeps, OpenEngineKeeps, BindScopeKeeps, BindStoresKeeps, StartSinkKeeps,
     OpenClientsKeeps, OpenReportsKeeps, OpenSaverKeeps, StartPurgerKeeps, BuildRuntimeKeeps,
     RuntimesBuiltKeeps, StartWorkerKeeps, UseRedisKeeps, UnwindKeeps, EndedKeeps
     DEF LifespanStep, BootStep

LEMMA LifeIsSafe == LifeInv => LifespanTypeOK /\ LifespanSafe
<1> SUFFICES ASSUME LifeInv PROVE LifespanTypeOK /\ LifespanSafe
  OBVIOUS
<1>1. LifespanTypeOK
  BY DEF LifeInv, SharedOK, LifespanTypeOK, AppGood, Checked, Resources
<1>2. UsersGoFirst
  <2> SUFFICES ASSUME NEW a \in Apps, NEW r \in open[a]
               PROVE  /\ Needs(r) \subseteq open[a]
                      /\ r = "worker" /\ cfg[a].saver /= "none" => "saver" \in open[a]
    BY DEF UsersGoFirst
  <2>1. AppGood(phase[a], cfg[a], stack[a], open[a], runtimes[a])
    BY DEF LifeInv
  <2>2. r \in Members(stack[a]) /\ r \in Callbacks
    BY <2>1 DEF AppGood, Callbacks
  <2>3. Needs(r) \subseteq Members(stack[a]) \cap Resources
    BY <2>1, <2>2, NeedsBelow DEF AppGood
  <2> QED
    BY <2>1, <2>2, <2>3 DEF AppGood, Resources
<1>3. NothingLeaks
  <2>1. ASSUME NEW a \in Apps, phase[a] = "down" PROVE Members(stack[a]) = {} /\ open[a] = {}
    <3>1. AppGood("down", cfg[a], stack[a], open[a], runtimes[a])
      BY <2>1 DEF LifeInv
    <3>2. \A x \in Members(stack[a]) : Depth(x) \in 1..10 /\ Depth(x) <= 0
      BY <3>1, MembersTyped, DepthTyped, HeightRises DEF AppGood
    <3> QED
      BY <3>1, <3>2 DEF AppGood
  <2> QED
    BY <2>1 DEF NothingLeaks, LifeInv, SharedOK, Held
<1>4. ServedIsChecked
  <2> SUFFICES ASSUME NEW a \in Apps, phase[a] = "serving"
               PROVE  LET c == cfg[a] IN
                      /\ \A n \in DOMAIN c.channels :
                            /\ "worker" \in open[a] /\ c.channels[n] \in runtimes[a]
                            /\ c.channels[n] \in c.untrusted \cap c.fits
                      /\ c.creds => "worker" \in open[a]
                      /\ c.adapter \subseteq runtimes[a]
                      /\ \A id \in runtimes[a] : /\ id \in c.granted
                                                 /\ id \in c.clients => id \in c.deployed
                      /\ Registered(c) /= {} => c.budgets \subseteq runtimes[a]
                      /\ c.budgets /= {} => c.provider /= "none"
    BY DEF ServedIsChecked
  <2> DEFINE c == cfg[a]
  <2>1. /\ Checked("serving", c, stack[a], runtimes[a])
        /\ open[a] = Members(stack[a]) \cap Resources
    BY DEF LifeInv, AppGood
  <2>2. /\ Accepted(c) /\ WorkerFits(c) /\ runtimes[a] = Registered(c)
        /\ \A id \in runtimes[a] : RuntimeBuilds(c, id)
        /\ DOMAIN c.channels /= {} => "worker" \in open[a]
        /\ Registered(c) /= {} => c.budgets \subseteq runtimes[a]
        /\ c.budgets /= {} => c.provider /= "none"
    BY <2>1 DEF Checked, Equipped, Booting, AfterEngine, AfterStores, AfterSink, AfterClients,
                Resources
  <2>3. ASSUME NEW n \in DOMAIN c.channels
        PROVE  c.channels[n] \in runtimes[a] /\ c.channels[n] \in c.untrusted \cap c.fits
    <3>1. c.channels[n] \in ChannelIds(c) /\ c.channels[n] \in Registered(c)
      BY <2>2 DEF Accepted, ChannelIds
    <3> QED
      BY <2>2, <3>1 DEF RuntimeBuilds, SafeForChannels
  <2>4. c.adapter \subseteq runtimes[a]
    BY <2>2 DEF Accepted
  <2>5. c.creds => "worker" \in open[a]
    BY <2>2 DEF WorkerFits
  <2>6. \A id \in runtimes[a] : id \in c.granted /\ (id \in c.clients => id \in c.deployed)
    BY <2>2 DEF RuntimeBuilds, NarrowedAsAsked
  <2> QED
    BY <2>2, <2>3, <2>4, <2>5, <2>6
<1> QED
  BY <1>1, <1>2, <1>3, <1>4 DEF LifespanSafe, TeardownOrdered

(* The variables keep their types through every boot and shutdown.          *)
THEOREM LifespanTypeCorrect == LifespanSpec => []LifespanTypeOK
  BY LifeInitInv, LifeStepKeeps, LifeIsSafe, PTL DEF LifespanSpec

(* Whatever a deployment says and wherever a boot fails: what an app holds  *)
(* is closed newest first and to the last resource, nothing is closed while *)
(* what needs it is open, no stopped sink and no unused pool is left to the *)
(* process, and an app that serves has passed every check of its boot.      *)
THEOREM BootAndTeardownAreSafe == LifespanSpec => []LifespanSafe
  BY LifeInitInv, LifeStepKeeps, LifeIsSafe, PTL DEF LifespanSpec


-----------------------------------------------------------------------------
(* Resolution.  A chain is leaf first; what chain[m + 1], ... resolve to is *)
(* related to the definitions that lie above m, field by field.             *)

Entry == [at : PlatformRoles \cup Importers, def : RawDefinition]
After(S, m) == {i \in S : i > m}

LEMMA AfterSelf ==
  ASSUME NEW S \in SUBSET Nat, NEW m \in Nat \ {0}, m \in S
  PROVE  After(S, m - 1) # {} /\ Nearest(After(S, m - 1)) = m
<1> DEFINE T == After(S, m - 1)
<1>1. m > m - 1 /\ \A j \in Nat : j > m - 1 <=> m <= j
  OBVIOUS
<1>2. T \subseteq Nat /\ m \in T
  <2>1. m \in T
    BY ONLY <1>1, m \in S DEF After
  <2>2. \A i \in T : i \in S
    BY ONLY DEF After
  <2>q. QED
    BY <2>1, <2>2
<1>3. \A j \in T : m <= j
  BY <1>1 DEF After
<1>4. \A i \in T : (\A j \in T : i <= j) => i = m
  BY <1>2, <1>3
<1>5. Nearest(T) \in T /\ \A j \in T : Nearest(T) <= j
  BY <1>2, <1>3 DEF Nearest
<1>q. QED
  BY <1>2, <1>4, <1>5

LEMMA AfterSkip ==
  ASSUME NEW S \in SUBSET Nat, NEW m \in Nat \ {0}, m \notin S
  PROVE  After(S, m - 1) = After(S, m)
<1>1. \A i \in S : i > m - 1 <=> i > m
  <2> TAKE i \in S
  <2>1. i \in Nat /\ i # m
    OBVIOUS
  <2>q. QED
    BY ONLY <2>1, m \in Nat
<1>q. QED
  BY ONLY <1>1 DEF After

LEMMA AfterAll ==
  ASSUME NEW n \in Nat, NEW S \in SUBSET (1..n)
  PROVE  After(S, 0) = S /\ After(S, n) = {}
<1>1. \A i \in S : i \in 1..n
  OBVIOUS
<1>2. \A i \in S : i > 0 /\ ~(i > n)
  BY <1>1
<1>q. QED
  BY ONLY <1>2 DEF After

(* The nearest speaker's word, or what is said when nobody speaks.          *)
Said(S, m, Of, none) == IF After(S, m) = {} THEN none ELSE Of[Nearest(After(S, m))]

LEMMA SaidSelf ==
  ASSUME NEW S \in SUBSET Nat, NEW m \in Nat \ {0}, m \in S, NEW Of, NEW none
  PROVE  Said(S, m - 1, Of, none) = Of[m]
  BY AfterSelf DEF Said

LEMMA SaidSkip ==
  ASSUME NEW S \in SUBSET Nat, NEW m \in Nat \ {0}, m \notin S, NEW Of, NEW none
  PROVE  Said(S, m - 1, Of, none) = Said(S, m, Of, none)
  BY AfterSkip DEF Said

LEMMA SaidAll ==
  ASSUME NEW n \in Nat, NEW S \in SUBSET (1..n), NEW Of, NEW none
  PROVE  /\ Said(S, n, Of, none) = none
         /\ Said(S, 0, Of, none) = IF S = {} THEN none ELSE Of[Nearest(S)]
  BY AfterAll DEF Said

-----------------------------------------------------------------------------
Shipped(ch) == {i \in DOMAIN ch : ch[i].at \notin Importers}

(* Autonomy.                                                                *)
LevelSpeakers(ch) == {i \in Shipped(ch) : ch[i].def.autonomy # ""}
LevelSays(ch) == [i \in DOMAIN ch |-> ch[i].def.autonomy]
LevelAt(ch, m) == Said(LevelSpeakers(ch), m, LevelSays(ch), "supervised")
LevelFits(ch, m, a) ==
  /\ a \in Levels \cup {""} /\ LevelAt(ch, m) \in Levels
  /\ Rank(EffectiveLevel(a)) <= Rank(LevelAt(ch, m))

LEMMA EffectiveInLevels ==
  \A a \in Levels \cup {""} :
    EffectiveLevel(a) \in Levels /\ EffectiveLevel(EffectiveLevel(a)) = EffectiveLevel(a)
  BY DEF Levels, EffectiveLevel

LEMMA RankInt == \A a \in Levels : Rank(a) \in Int
  BY DEF Levels, Rank

LEMMA RankSame == \A a \in Levels : Rank(a) <= Rank(a)
  BY RankInt

LEMMA RankOrdered ==
  \A a, b, c \in Levels : Rank(a) <= Rank(b) /\ Rank(b) <= Rank(c) => Rank(a) <= Rank(c)
  BY RankInt

LEMMA ChainTyped ==
  ASSUME NEW ch \in Seq(Entry), NEW m \in DOMAIN ch
  PROVE  /\ m \in Nat \ {0} /\ DOMAIN ch = 1..Len(ch) /\ Len(ch) \in Nat
         /\ ch[m] \in Entry /\ ch[m].def \in RawDefinition
         /\ ch[m].at \in PlatformRoles \cup Importers
<1>1. Len(ch) \in Nat /\ DOMAIN ch = 1..Len(ch)
  OBVIOUS
<1>2. m \in Nat /\ m # 0
  BY <1>1
<1>3. ch[m] \in Entry
  OBVIOUS
<1>q. QED
  BY ONLY <1>1, <1>2, <1>3 DEF Entry

(* A chain and the place of the definition that is folded next.             *)
Step(ch, m) == ch \in Seq(Entry) /\ m \in DOMAIN ch

LEMMA StepTyped ==
  ASSUME NEW ch, NEW m, Step(ch, m)
  PROVE  /\ m \in Nat \ {0} /\ m \in DOMAIN ch /\ DOMAIN ch \in SUBSET Nat
         /\ ch[m].def \in RawDefinition /\ ch[m].at \in PlatformRoles \cup Importers
  BY ChainTyped DEF Step

LEMMA FieldsTyped ==
  ASSUME NEW d \in RawDefinition
  PROVE  /\ d.permissions \in Listed /\ d.autonomy \in Levels \cup {""}
         /\ d.untrusted \in {"", "true", "false"} /\ d.limits \in Limits
         /\ d.escalation \in Escalation /\ d.audit \in Audit
         /\ d.tools \in SUBSET Tools /\ d.commands \in SUBSET Commands
         /\ d.declared \in SUBSET Commands
  BY DEF RawDefinition

LEMMA LevelStep ==
  ASSUME NEW ch, NEW m, Step(ch, m), NEW a, LevelFits(ch, m, a),
         ch[m].at \in Importers => WithinLevel(EffectiveLevel(a), ch[m].def.autonomy)
  PROVE  LevelFits(ch, m - 1, IF ch[m].def.autonomy = "" THEN a ELSE ch[m].def.autonomy)
<1> DEFINE d == ch[m].def
           S == LevelSpeakers(ch)
<1>1. S \in SUBSET Nat
  BY StepTyped DEF LevelSpeakers, Shipped
<1>2. m \in Nat \ {0} /\ m \in DOMAIN ch /\ d.autonomy \in Levels \cup {""}
  BY StepTyped, FieldsTyped
<1>3. CASE m \in S
  <2>1. d.autonomy # ""
    BY <1>3 DEF LevelSpeakers
  <2>2. LevelAt(ch, m - 1) = LevelSays(ch)[m]
    BY ONLY <1>1, <1>2, <1>3, SaidSelf DEF LevelAt
  <2>5. LevelSays(ch)[m] = d.autonomy
    BY ONLY <1>2 DEF LevelSays
  <2>3. d.autonomy \in Levels /\ EffectiveLevel(d.autonomy) = d.autonomy
    BY <1>2, <2>1 DEF EffectiveLevel
  <2>4. Rank(d.autonomy) <= Rank(d.autonomy)
    BY ONLY <2>3, RankSame
  <2>q. QED
    BY <2>1, <2>2, <2>3, <2>4, <2>5 DEF LevelFits
<1>4. CASE m \notin S
  <2>1. LevelAt(ch, m - 1) = LevelAt(ch, m)
    BY <1>1, <1>2, <1>4, SaidSkip DEF LevelAt
  <2>2. CASE d.autonomy = ""
    BY <2>1, <2>2 DEF LevelFits
  <2>3. CASE d.autonomy # ""
    <3>1. ch[m].at \in Importers
      BY <1>2, <1>4, <2>3 DEF LevelSpeakers, Shipped
    <3>2. Rank(d.autonomy) <= Rank(EffectiveLevel(a))
      BY <3>1, <2>3 DEF WithinLevel
    <3>3. d.autonomy \in Levels /\ EffectiveLevel(d.autonomy) = d.autonomy
      BY <1>2, <2>3 DEF EffectiveLevel
    <3>4. /\ EffectiveLevel(a) \in Levels /\ LevelAt(ch, m) \in Levels
          /\ Rank(EffectiveLevel(a)) <= Rank(LevelAt(ch, m))
      BY EffectiveInLevels DEF LevelFits
    <3>5. Rank(d.autonomy) <= Rank(LevelAt(ch, m))
      BY ONLY <3>2, <3>3, <3>4, RankOrdered
    <3>q. QED
      BY <2>1, <2>3, <3>3, <3>4, <3>5 DEF LevelFits
  <2>q. QED
    BY <2>2, <2>3
<1>q. QED
  BY <1>3, <1>4

(* Trust.                                                                   *)
TrustFits(ch, m, u) ==
  u \in {"", "true", "false"}
  /\ ((\E i \in DOMAIN ch : i > m /\ ch[i].def.untrusted = "true") => u = "true")

LEMMA Above ==
  ASSUME NEW ch, NEW m, Step(ch, m), NEW i \in DOMAIN ch, i > m - 1
  PROVE  i = m \/ i > m
<1>1. i \in Nat /\ m \in Nat
  BY StepTyped
<1>q. QED
  BY <1>1

LEMMA TrustStep ==
  ASSUME NEW ch, NEW m, Step(ch, m), NEW p, TrustFits(ch, m, p.untrusted),
         StaysUntrusted(p, ch[m].def)
  PROVE  TrustFits(ch, m - 1, Trust(p, ch[m].def))
<1> DEFINE d == ch[m].def
<1>1. d.untrusted \in {"", "true", "false"}
  BY StepTyped, FieldsTyped
<1>2. Trust(p, d) \in {"", "true", "false"}
  BY <1>1 DEF Trust, TrustFits
<1>3. ASSUME NEW i \in DOMAIN ch, i > m - 1, ch[i].def.untrusted = "true"
      PROVE  Trust(p, d) = "true"
  <2>1. CASE i = m
    BY <1>3, <2>1 DEF Trust
  <2>2. CASE i > m
    <3>1. p.untrusted = "true"
      BY <1>3, <2>2 DEF TrustFits
    <3>q. QED
      BY <3>1, <1>1 DEF Trust, StaysUntrusted
  <2>q. QED
    BY <2>1, <2>2, <1>3, Above
<1>q. QED
  BY <1>2, <1>3 DEF TrustFits

(* Permissions.                                                             *)
GrantSpeakers(ch, p) == {i \in DOMAIN ch : Speaks(ch[i].def, p, FALSE)}
GrantAt(ch, m, p) ==
  LET above == After(GrantSpeakers(ch, p), m)
  IN  above # {} /\ Gives(ch[Nearest(above)].def, p)
GrantsFit(ch, m, g) == g \subseteq Permissions /\ \A p \in Permissions : p \in g <=> GrantAt(ch, m, p)

LEMMA Granting ==
  ASSUME NEW d \in RawDefinition, d.permissions.kind # "bad", NEW p \in Permissions,
         NEW g \in SUBSET Permissions
  PROVE  /\ FoldList(g, d.permissions) \subseteq Permissions
         /\ ResolveList(g, d.permissions) \subseteq Permissions
         /\ p \in FoldList(g, d.permissions) <=> (IF Speaks(d, p, FALSE) THEN Gives(d, p) ELSE p \in g)
         /\ p \in ResolveList(g, d.permissions) <=> (IF Speaks(d, p, TRUE) THEN Gives(d, p) ELSE p \in g)
<1> DEFINE l == d.permissions
<1>1. l.kind \in {"inherit", "list", "edit", "override"} /\ l.items \subseteq Permissions
  BY FieldsTyped DEF Listed
<1>2. CASE l.kind = "inherit"
  BY <1>1, <1>2 DEF FoldList, ResolveList, Speaks, Gives
<1>3. CASE l.kind = "list"
  BY <1>1, <1>3 DEF FoldList, ResolveList, Speaks, Gives
<1>4. CASE l.kind = "edit"
  BY <1>1, <1>4 DEF FoldList, ResolveList, Speaks, Gives
<1>5. CASE l.kind = "override"
  BY <1>1, <1>5 DEF FoldList, ResolveList, Speaks, Gives
<1>q. QED
  BY <1>1, <1>2, <1>3, <1>4, <1>5

LEMMA GrantsStep ==
  ASSUME NEW ch, NEW m, Step(ch, m), NEW g, GrantsFit(ch, m, g),
         ch[m].def.permissions.kind # "bad"
  PROVE  GrantsFit(ch, m - 1, FoldList(g, ch[m].def.permissions))
<1> DEFINE d == ch[m].def
<1>1. d \in RawDefinition /\ m \in Nat \ {0} /\ m \in DOMAIN ch /\ DOMAIN ch \in SUBSET Nat
  BY StepTyped
<1>2. g \in SUBSET Permissions
  BY DEF GrantsFit
<1>3. ASSUME NEW p \in Permissions
      PROVE  p \in FoldList(g, d.permissions) <=> GrantAt(ch, m - 1, p)
  <2> DEFINE S == GrantSpeakers(ch, p)
  <2>1. S \in SUBSET Nat
    BY <1>1 DEF GrantSpeakers
  <2>2. m \in S <=> Speaks(d, p, FALSE)
    BY <1>1 DEF GrantSpeakers
  <2>3. p \in g <=> GrantAt(ch, m, p)
    BY DEF GrantsFit
  <2>4. CASE m \in S
    <3>1. GrantAt(ch, m - 1, p) <=> Gives(d, p)
      BY <1>1, <2>1, <2>4, AfterSelf DEF GrantAt
    <3>q. QED
      BY <1>1, <1>2, <2>2, <2>4, <3>1, Granting
  <2>5. CASE m \notin S
    <3>1. GrantAt(ch, m - 1, p) <=> GrantAt(ch, m, p)
      BY <1>1, <2>1, <2>5, AfterSkip DEF GrantAt
    <3>q. QED
      BY <1>1, <1>2, <2>2, <2>3, <2>5, <3>1, Granting
  <2>q. QED
    BY <2>4, <2>5
<1>4. FoldList(g, d.permissions) \subseteq Permissions
  <2>1. CASE Permissions = {}
    <3>1. d.permissions \in Listed
      BY <1>1, FieldsTyped
    <3>q. QED
      BY <1>2, <3>1 DEF Listed, FoldList, ResolveList
  <2>2. CASE Permissions # {}
    BY <1>1, <1>2, <2>2, Granting
  <2>q. QED
    BY <2>1, <2>2
<1>q. QED
  BY <1>3, <1>4 DEF GrantsFit

(* Escalation: what is required, and in whose words.                        *)
RuleSet == [conditions : SUBSET Conditions, to : People \cup {""}, words : [Conditions -> Texts \cup {""}]]
RequiresFit(ch, m, r) == \A i \in DOMAIN ch : i > m => Requires(ch[i].def) \subseteq r.conditions

WordSpeakers(ch, c) ==
  {i \in Shipped(ch) : ch[i].def.escalation.kind # "inherit" /\ ch[i].def.escalation.words[c] # ""}
WordSays(ch, c) == [i \in DOMAIN ch |-> ch[i].def.escalation.words[c]]
WordAt(ch, m, c) == Said(WordSpeakers(ch, c), m, WordSays(ch, c), "")
ToSpeakers(ch) ==
  {i \in Shipped(ch) : ch[i].def.escalation.kind # "inherit" /\ ch[i].def.escalation.to # "unsaid"}
ToSays(ch) == [i \in DOMAIN ch |-> ch[i].def.escalation.to]
ToAt(ch, m) == Said(ToSpeakers(ch), m, ToSays(ch), "")

AllShipped(ch, m) == \A i \in DOMAIN ch : i > m => i \in Shipped(ch)
Spoken(ch, m, r) == r.to = ToAt(ch, m) /\ \A c \in Conditions : r.words[c] = WordAt(ch, m, c)
WordsFit(ch, m, r) ==
  /\ \A i \in Shipped(ch) : i > m =>
       \A c \in Requires(ch[i].def) : r.words[c] = WordAt(ch, m, c)
  /\ ToAt(ch, m) # "" => r.to = ToAt(ch, m)
  /\ AllShipped(ch, m) => Spoken(ch, m, r)

(* Nothing an importer wrote is above a platform role.                      *)
RootsShipped(ch) == \A i \in Shipped(ch), j \in DOMAIN ch : j > i => j \in Shipped(ch)

LEMMA EscalationTyped ==
  ASSUME NEW e \in Escalation
  PROVE  /\ e.kind \in {"inherit", "plain", "edit", "bad"} /\ e.restates \in BOOLEAN
         /\ e.conditions \in SUBSET Conditions /\ e.removed \in SUBSET Conditions
         /\ e.to \in People \cup {"", "unsaid"} /\ e.words \in [Conditions -> Texts \cup {""}]
  BY DEF Escalation

LEMMA RuleSetTyped ==
  ASSUME NEW r \in RuleSet
  PROVE  /\ r.conditions \in SUBSET Conditions /\ r.to \in People \cup {""}
         /\ r.words \in [Conditions -> Texts \cup {""}]
  BY DEF RuleSet

LEMMA OverTyped ==
  ASSUME NEW p \in RuleSet, NEW e \in Escalation
  PROVE  OverRules(p, e) \in RuleSet
<1> DEFINE r == OverRules(p, e)
<1>1. r.conditions \in SUBSET Conditions
  BY RuleSetTyped, EscalationTyped DEF OverRules
<1>2. r.to \in People \cup {""}
  BY RuleSetTyped, EscalationTyped DEF OverRules
<1>3. r.words \in [Conditions -> Texts \cup {""}]
  BY RuleSetTyped, EscalationTyped DEF OverRules
<1>q. QED
  BY ONLY <1>1, <1>2, <1>3 DEF RuleSet, OverRules

LEMMA NoRulesTyped == NoRules \in RuleSet
  BY DEF NoRules, RuleSet

LEMMA FoldRulesTyped ==
  ASSUME NEW p \in RuleSet, NEW e \in Escalation
  PROVE  FoldRules(p, e) \in RuleSet /\ ResolveRules(p, e) \in RuleSet
  BY OverTyped, NoRulesTyped DEF FoldRules, ResolveRules, InsteadRules

(* The declaration that is folded: an importer's with the conditions of     *)
(* what it extends.                                                         *)
Restating(e, f) ==
  /\ e.kind = f.kind /\ e.restates = f.restates /\ e.removed = f.removed
  /\ e.to = f.to /\ e.words = f.words /\ f.conditions \subseteq e.conditions

LEMMA RequiresStep ==
  ASSUME NEW ch, NEW m, Step(ch, m), NEW p \in RuleSet, RequiresFit(ch, m, p),
         NEW e \in Escalation, Restating(e, ch[m].def.escalation), e.kind # "bad",
         ConditionsKept(p, FoldRules(p, e))
  PROVE  RequiresFit(ch, m - 1, FoldRules(p, e))
<1> DEFINE d == ch[m].def
           r == FoldRules(p, e)
<1>1. p.conditions \subseteq r.conditions
  BY DEF ConditionsKept
<1>2. Requires(d) \subseteq r.conditions
  <2>1. CASE e.kind = "edit"
    BY <2>1 DEF Requires, Restating, FoldRules, OverRules
  <2>2. CASE e.kind = "plain"
    BY <2>2 DEF Requires, Restating, FoldRules, OverRules
  <2>3. CASE e.kind = "inherit"
    BY <2>3 DEF Requires, Restating
  <2>q. QED
    BY <2>1, <2>2, <2>3, EscalationTyped
<1>3. ASSUME NEW i \in DOMAIN ch, i > m - 1
      PROVE  Requires(ch[i].def) \subseteq r.conditions
  <2>1. CASE i = m
    BY <1>2, <2>1
  <2>2. CASE i > m
    BY <1>1, <2>2 DEF RequiresFit
  <2>q. QED
    BY <1>3, <2>1, <2>2, Above
<1>q. QED
  BY <1>3 DEF RequiresFit

LEMMA WordsStepShipped ==
  ASSUME NEW ch, NEW m, Step(ch, m), NEW p \in RuleSet, Spoken(ch, m, p),
         NEW e \in Escalation, Restating(e, ch[m].def.escalation), m \in Shipped(ch)
  PROVE  Spoken(ch, m - 1, FoldRules(p, e))
<1> DEFINE f == ch[m].def.escalation
           r == FoldRules(p, e)
<1>1. /\ m \in Nat \ {0} /\ m \in DOMAIN ch /\ DOMAIN ch \in SUBSET Nat
      /\ e.kind = f.kind /\ e.to = f.to /\ e.words = f.words
  BY StepTyped DEF Restating
<1>2. r.to = ToAt(ch, m - 1)
  <2> DEFINE S == ToSpeakers(ch)
  <2>1. S \in SUBSET Nat
    BY <1>1 DEF ToSpeakers, Shipped
  <2>2. CASE m \in S
    <3>1. ToAt(ch, m - 1) = ToSays(ch)[m]
      BY ONLY <1>1, <2>1, <2>2, SaidSelf DEF ToAt
    <3>2. ToSays(ch)[m] = f.to
      BY ONLY <1>1 DEF ToSays
    <3>3. r.to = f.to
      BY <1>1, <2>2 DEF ToSpeakers, FoldRules, OverRules
    <3>q. QED
      BY <3>1, <3>2, <3>3
  <2>3. CASE m \notin S
    <3>1. ToAt(ch, m - 1) = ToAt(ch, m)
      BY ONLY <1>1, <2>1, <2>3, SaidSkip, ZenonT(40) DEF ToAt
    <3>2. r.to = p.to
      BY <1>1, <2>3 DEF ToSpeakers, FoldRules, OverRules
    <3>q. QED
      BY <3>1, <3>2 DEF Spoken
  <2>q. QED
    BY <2>2, <2>3
<1>3. ASSUME NEW c \in Conditions
      PROVE  r.words[c] = WordAt(ch, m - 1, c)
  <2> DEFINE S == WordSpeakers(ch, c)
  <2>1. S \in SUBSET Nat
    BY <1>1 DEF WordSpeakers, Shipped
  <2>2. CASE m \in S
    <3>1. WordAt(ch, m - 1, c) = WordSays(ch, c)[m]
      BY ONLY <1>1, <2>1, <2>2, SaidSelf DEF WordAt
    <3>2. WordSays(ch, c)[m] = f.words[c]
      BY ONLY <1>1 DEF WordSays
    <3>3. r.words[c] = f.words[c]
      BY <1>1, <2>2 DEF WordSpeakers, FoldRules, OverRules
    <3>q. QED
      BY <3>1, <3>2, <3>3
  <2>3. CASE m \notin S
    <3>1. WordAt(ch, m - 1, c) = WordAt(ch, m, c)
      BY ONLY <1>1, <2>1, <2>3, SaidSkip, ZenonT(40) DEF WordAt
    <3>2. r.words[c] = p.words[c]
      BY <1>1, <2>3 DEF WordSpeakers, FoldRules, OverRules
    <3>q. QED
      BY <3>1, <3>2 DEF Spoken
  <2>q. QED
    BY <2>2, <2>3
<1>q. QED
  BY <1>2, <1>3 DEF Spoken

LEMMA WordsStepAuthored ==
  ASSUME NEW ch, NEW m, Step(ch, m), NEW p, p.rules \in RuleSet, WordsFit(ch, m, p.rules),
         RequiresFit(ch, m, p.rules),
         NEW e \in Escalation, Restating(e, ch[m].def.escalation), m \notin Shipped(ch),
         RulesUnderCeiling(p, ch[m].def)
  PROVE  WordsFit(ch, m - 1, FoldRules(p.rules, e))
<1> DEFINE f == ch[m].def.escalation
           r == FoldRules(p.rules, e)
<1>1. /\ m \in Nat \ {0} /\ m \in DOMAIN ch /\ DOMAIN ch \in SUBSET Nat
      /\ e.kind = f.kind /\ e.to = f.to /\ e.words = f.words
  BY StepTyped DEF Restating
<1>2. ToAt(ch, m - 1) = ToAt(ch, m)
  <2> DEFINE S == ToSpeakers(ch)
  <2>1. S \in SUBSET Nat /\ m \notin S
    BY <1>1 DEF ToSpeakers, Shipped
  <2>2. m \in Nat \ {0}
    BY <1>1
  <2>q. QED
    BY ONLY <2>2, <2>1, SaidSkip DEF ToAt
<1>3. \A c : WordAt(ch, m - 1, c) = WordAt(ch, m, c)
  <2> TAKE c
  <2> DEFINE S == WordSpeakers(ch, c)
  <2>1. S \in SUBSET Nat /\ m \notin S
    BY <1>1 DEF WordSpeakers, Shipped
  <2>2. m \in Nat \ {0}
    BY <1>1
  <2>q. QED
    BY ONLY <2>2, <2>1, SaidSkip DEF WordAt
<1>4. \A c \in p.rules.conditions : r.words[c] = p.rules.words[c]
  <2> TAKE c \in p.rules.conditions
  <2>0. c \in Conditions
    BY RuleSetTyped
  <2>1. CASE f.kind = "inherit"
    BY <1>1, <2>1 DEF FoldRules
  <2>2. CASE f.kind # "inherit"
    <3>1. f.words[c] \in {"", p.rules.words[c]}
      BY <2>2 DEF RulesUnderCeiling, WordingKept
    <3>q. QED
      BY <1>1, <2>0, <2>2, <3>1 DEF FoldRules, OverRules
  <2>q. QED
    BY <2>1, <2>2
<1>5. p.rules.to # "" => r.to = p.rules.to
  <2>1. CASE f.kind = "inherit"
    BY <1>1, <2>1 DEF FoldRules
  <2>2. CASE f.kind # "inherit"
    BY <1>1, <2>2 DEF RulesUnderCeiling, WordingKept, FoldRules, OverRules
  <2>q. QED
    BY <2>1, <2>2
<1>6. ASSUME NEW i \in Shipped(ch), i > m - 1, NEW c \in Requires(ch[i].def)
      PROVE  r.words[c] = WordAt(ch, m - 1, c)
  <2>1. i > m /\ i \in DOMAIN ch
    BY <1>6, Above DEF Shipped
  <2>2. c \in p.rules.conditions
    BY <2>1 DEF RequiresFit
  <2>3. p.rules.words[c] = WordAt(ch, m, c)
    BY <2>1 DEF WordsFit
  <2>q. QED
    BY <1>3, <1>4, <2>2, <2>3
<1>7. ToAt(ch, m - 1) # "" => r.to = ToAt(ch, m - 1)
  BY <1>2, <1>5 DEF WordsFit
<1>8. ~AllShipped(ch, m - 1)
  <2>1. m > m - 1
    BY <1>1
  <2>q. QED
    BY <1>1, <2>1 DEF AllShipped
<1>q. QED
  BY <1>6, <1>7, <1>8 DEF WordsFit

LEMMA WordsStep ==
  ASSUME NEW ch, NEW m, Step(ch, m), RootsShipped(ch), NEW p, p.rules \in RuleSet,
         WordsFit(ch, m, p.rules), RequiresFit(ch, m, p.rules),
         NEW e \in Escalation, Restating(e, ch[m].def.escalation),
         ch[m].at \in Importers => RulesUnderCeiling(p, ch[m].def)
  PROVE  WordsFit(ch, m - 1, FoldRules(p.rules, e))
<1>1. CASE m \in Shipped(ch)
  <2>1. AllShipped(ch, m)
    BY <1>1 DEF AllShipped, RootsShipped
  <2>2. Spoken(ch, m - 1, FoldRules(p.rules, e))
    BY <1>1, <2>1, WordsStepShipped DEF WordsFit
  <2>3. \A i \in DOMAIN ch : Requires(ch[i].def) \subseteq Conditions
    <3> TAKE i \in DOMAIN ch
    <3>1. ch[i].def.escalation \in Escalation
      BY StepTyped, FieldsTyped DEF Step
    <3>q. QED
      BY <3>1, EscalationTyped DEF Requires
  <2>q. QED
    BY <2>2, <2>3 DEF WordsFit, Spoken, Shipped
<1>2. CASE m \notin Shipped(ch)
  <2>1. ch[m].at \in Importers
    BY <1>2, StepTyped DEF Shipped
  <2>q. QED
    BY <1>2, <2>1, WordsStepAuthored
<1>q. QED
  BY <1>1, <1>2

(* Audit: the redacted keys, and whether bodies are captured.               *)
AuditSet == [keys : SUBSET Keys, capture : BOOLEAN]
KeysFit(ch, m, a) ==
  \A i \in DOMAIN ch : i > m /\ ch[i].def.audit.kind # "inherit" /\ ch[i].def.audit.lists =>
                         ch[i].def.audit.keys \subseteq a.keys
RootCaptures(ch) == ch[Len(ch)].at \notin Importers /\ ch[Len(ch)].def.audit.capture = "on"
CaptureFits(ch, a) == a.capture => RootCaptures(ch)

LEMMA AuditTyped ==
  ASSUME NEW e \in Audit
  PROVE  /\ e.kind \in {"inherit", "plain", "edit", "bad"} /\ e.lists \in BOOLEAN
         /\ e.keys \in SUBSET Keys /\ e.capture \in {"unsaid", "on", "off"}
  BY DEF Audit

LEMMA OverAuditTyped ==
  ASSUME NEW a \in AuditSet, NEW e \in Audit
  PROVE  OverAudit(a, e) \in AuditSet
<1>1. (IF e.lists THEN e.keys ELSE a.keys) \in SUBSET Keys
  BY AuditTyped DEF AuditSet
<1>2. (IF e.capture = "unsaid" THEN a.capture ELSE e.capture = "on") \in BOOLEAN
  <2>1. a.capture \in BOOLEAN /\ (e.capture = "on") \in BOOLEAN
    BY DEF AuditSet
  <2>q. QED
    BY <2>1
<1>q. QED
  BY ONLY <1>1, <1>2 DEF OverAudit, AuditSet

LEMMA NoAuditTyped == NoAudit \in AuditSet
  BY DEF NoAudit, AuditSet

LEMMA FoldAuditTyped ==
  ASSUME NEW a \in AuditSet, NEW e \in Audit
  PROVE  FoldAudit(a, e) \in AuditSet /\ ResolveAudit(a, e) \in AuditSet
  BY OverAuditTyped, NoAuditTyped DEF FoldAudit, ResolveAudit

LEMMA KeysStep ==
  ASSUME NEW ch, NEW m, Step(ch, m), NEW a \in AuditSet, KeysFit(ch, m, a),
         a.keys \subseteq FoldAudit(a, ch[m].def.audit).keys
  PROVE  KeysFit(ch, m - 1, FoldAudit(a, ch[m].def.audit))
<1> DEFINE e == ch[m].def.audit
           r == FoldAudit(a, e)
<1>1. e.kind # "inherit" /\ e.lists => e.keys \subseteq r.keys
  BY DEF FoldAudit, OverAudit
<1>2. ASSUME NEW i \in DOMAIN ch, i > m - 1, ch[i].def.audit.kind # "inherit", ch[i].def.audit.lists
      PROVE  ch[i].def.audit.keys \subseteq r.keys
  <2>1. CASE i = m
    BY <1>1, <1>2, <2>1
  <2>2. CASE i > m
    BY <1>2, <2>2 DEF KeysFit
  <2>q. QED
    BY <1>2, <2>1, <2>2, Above
<1>q. QED
  BY <1>2 DEF KeysFit

(* A platform root captures only what it says it captures.                  *)
LEMMA RootCapture ==
  ASSUME NEW ch \in Seq(Entry), ch # <<>>, ch[Len(ch)].at \notin Importers
  PROVE  CaptureFits(ch, FoldAudit(NoAudit, ch[Len(ch)].def.audit))
<1> DEFINE e == ch[Len(ch)].def.audit
<1>1. CASE e.kind = "inherit"
  BY <1>1 DEF CaptureFits, FoldAudit, NoAudit
<1>2. CASE e.kind # "inherit" /\ e.capture = "unsaid"
  BY <1>2 DEF CaptureFits, FoldAudit, OverAudit, NoAudit
<1>3. CASE e.kind # "inherit" /\ e.capture # "unsaid"
  BY <1>3 DEF CaptureFits, RootCaptures, FoldAudit, OverAudit, NoAudit
<1>q. QED
  BY <1>1, <1>2, <1>3

(* Limits, one key at a time.                                               *)
Bound == Nat \cup {Absent, Null}
AtMost(v, x) == IF v \in {Absent, Null} THEN x ELSE v
LimitSpeakers(ch, k) ==
  {i \in Shipped(ch) : ch[i].def.limits.shape = "mapping" /\ ch[i].def.limits.at[k] # Absent}
LimitSays(ch, k) == [i \in DOMAIN ch |-> ch[i].def.limits.at[k]]
LimitAt(ch, m, k) == Said(LimitSpeakers(ch, k), m, LimitSays(ch, k), Absent)
LimitFits(ch, m, k, v, x) ==
  v \in Bound /\ LimitAt(ch, m, k) \in Bound /\ AtMost(v, x) <= AtMost(LimitAt(ch, m, k), x)
Sound(ch) == \A i \in Shipped(ch) : \A k \in LimitKeys : ch[i].def.limits.at[k] # Bad

LEMMA AtMostTyped ==
  /\ \A v \in Bound, x \in Nat : AtMost(v, x) \in Nat
  /\ \A v \in Nat, x \in Nat : AtMost(v, x) = v
  /\ \A x : AtMost(Absent, x) = x /\ AtMost(Null, x) = x
<1>1. \A v \in Nat : v # Absent /\ v # Null
  BY ResolutionAssumption
<1>q. QED
  BY <1>1 DEF Bound, AtMost

LEMMA LimitTyped ==
  ASSUME NEW l \in Limits, NEW k \in LimitKeys
  PROVE  /\ l.at[k] \in Nat \cup {Absent, Null, Bad} /\ l.at \in [LimitKeys -> Nat \cup {Absent, Null, Bad}]
         /\ l.shape \in {"none", "mapping", "other"} /\ (l.shape # "mapping" => l.at[k] = Absent)
  BY DEF Limits

LEMMA Within ==
  ASSUME NEW v, NEW base, NEW defaults, NEW k \in LimitKeys, v # Absent, defaults[k] \in Nat,
         WithinBaseline(v, base, defaults, k)
  PROVE  v \in Bound /\ AtMost(v, defaults[k]) <= AtMost(base[k], defaults[k])
<1>1. Baseline(base, defaults, k) = AtMost(base[k], defaults[k])
  BY DEF Baseline, AtMost
<1>2. CASE v = Null
  BY <1>1, <1>2 DEF WithinBaseline, Bound, AtMost
<1>3. CASE v # Null
  BY <1>1, <1>3 DEF WithinBaseline, Bound, AtMost
<1>q. QED
  BY <1>2, <1>3

LEMMA LimitStep ==
  ASSUME NEW ch, NEW m, Step(ch, m), Sound(ch), NEW k \in LimitKeys, NEW base, NEW defaults,
         defaults[k] \in Nat, LimitFits(ch, m, k, base[k], defaults[k]),
         ch[m].at \in Importers /\ ch[m].def.limits.shape = "mapping"
           => WithinLimits(base, ch[m].def.limits.at, defaults)
  PROVE  LimitFits(ch, m - 1, k,
           IF ch[m].def.limits.at[k] = Absent THEN base[k] ELSE ch[m].def.limits.at[k], defaults[k])
<1> DEFINE l == ch[m].def.limits
           S == LimitSpeakers(ch, k)
           x == defaults[k]
           v == l.at[k]
<1>1. m \in Nat \ {0} /\ m \in DOMAIN ch /\ DOMAIN ch \in SUBSET Nat /\ l \in Limits
  BY StepTyped, FieldsTyped
<1>2. S \in SUBSET Nat
  BY <1>1 DEF LimitSpeakers, Shipped
<1>3. v \in Nat \cup {Absent, Null, Bad} /\ (l.shape # "mapping" => v = Absent)
  BY <1>1, LimitTyped
<1>4. CASE m \in S
  <2>1. LimitAt(ch, m - 1, k) = LimitSays(ch, k)[m]
    BY ONLY <1>1, <1>2, <1>4, SaidSelf DEF LimitAt
  <2>2. LimitSays(ch, k)[m] = v
    BY ONLY <1>1 DEF LimitSays
  <2>3. v # Absent /\ v # Bad
    BY <1>4 DEF LimitSpeakers, Sound
  <2>4. v \in Bound
    BY <1>3, <2>3 DEF Bound
  <2>5. AtMost(v, x) <= AtMost(v, x)
    BY <2>4, AtMostTyped
  <2>q. QED
    BY <2>1, <2>2, <2>3, <2>4, <2>5 DEF LimitFits
<1>5. CASE m \notin S
  <2>1. LimitAt(ch, m - 1, k) = LimitAt(ch, m, k)
    BY ONLY <1>1, <1>2, <1>5, SaidSkip DEF LimitAt
  <2>2. CASE v = Absent
    BY <2>1, <2>2 DEF LimitFits
  <2>3. CASE v # Absent
    <3>1. l.shape = "mapping" /\ ch[m].at \in Importers
      BY <1>1, <1>3, <1>5, <2>3 DEF LimitSpeakers, Shipped
    <3>2. WithinBaseline(v, base, defaults, k)
      BY <3>1, <2>3 DEF WithinLimits
    <3>3. v \in Bound /\ AtMost(v, x) <= AtMost(base[k], x)
      BY <2>3, <3>2, Within
    <3>4. base[k] \in Bound /\ LimitAt(ch, m, k) \in Bound
          /\ AtMost(base[k], x) <= AtMost(LimitAt(ch, m, k), x)
      BY DEF LimitFits
    <3>5. AtMost(v, x) \in Nat /\ AtMost(base[k], x) \in Nat /\ AtMost(LimitAt(ch, m, k), x) \in Nat
      BY ONLY <3>3, <3>4, defaults[k] \in Nat, AtMostTyped
    <3>6. AtMost(v, x) <= AtMost(LimitAt(ch, m, k), x)
      BY ONLY <3>3, <3>4, <3>5
    <3>q. QED
      BY <2>1, <2>3, <3>3, <3>4, <3>6 DEF LimitFits
  <2>q. QED
    BY <2>2, <2>3
<1>q. QED
  BY <1>4, <1>5

(* What a definition folds to.                                              *)
LEMMA ResolvedTyped ==
  ASSUME NEW p \in Resolved
  PROVE  /\ p.tools \in SUBSET Tools /\ p.commands \in SUBSET Commands /\ p.declared \in SUBSET Commands
         /\ p.permissions \in SUBSET Permissions /\ p.autonomy \in Levels \cup {""}
         /\ p.untrusted \in {"", "true", "false"} /\ p.limits \in Limits
         /\ p.audit \in AuditSet /\ p.rules \in RuleSet
  BY DEF Resolved, AuditSet, RuleSet

LEMMA ResolvedIs ==
  ASSUME NEW tools \in SUBSET Tools, NEW commands \in SUBSET Commands, NEW declared \in SUBSET Commands,
         NEW permissions \in SUBSET Permissions, NEW autonomy \in Levels \cup {""},
         NEW untrusted \in {"", "true", "false"}, NEW lim \in Limits,
         NEW rules \in RuleSet, NEW audit \in AuditSet
  PROVE  [tools |-> tools, commands |-> commands, declared |-> declared, permissions |-> permissions,
          autonomy |-> autonomy, untrusted |-> untrusted, limits |-> lim, rules |-> rules,
          audit |-> audit] \in Resolved
  BY DEF Resolved, AuditSet, RuleSet

LEMMA LimitsIs ==
  ASSUME NEW f \in [LimitKeys -> Nat \cup {Absent, Null, Bad}]
  PROVE  [shape |-> "mapping", at |-> f] \in Limits
  BY DEF Limits

LEMMA NoLimitsTyped ==
  /\ NoLimits \in Limits /\ NoLimits.shape = "none" /\ \A k \in LimitKeys : NoLimits.at[k] = Absent
  /\ NoLimits.at \in [LimitKeys -> Nat \cup {Absent, Null, Bad}]
  BY DEF NoLimits, Limits

LEMMA OverlayTyped ==
  ASSUME NEW f \in [LimitKeys -> Nat \cup {Absent, Null, Bad}],
         NEW g \in [LimitKeys -> Nat \cup {Absent, Null, Bad}]
  PROVE  Overlay(f, g) \in [LimitKeys -> Nat \cup {Absent, Null, Bad}]
  BY DEF Overlay

LEMMA FoldedLimitsAre ==
  ASSUME NEW p \in Limits, NEW d \in Limits
  PROVE  /\ FoldedLimits(p, d) \in Limits
         /\ \A k \in LimitKeys :
              FoldedLimits(p, d).at[k] = IF d.at[k] = Absent THEN p.at[k] ELSE d.at[k]
<1>1. /\ \A k \in LimitKeys : d.shape # "mapping" => d.at[k] = Absent
      /\ \A k \in LimitKeys : p.shape # "mapping" => p.at[k] = Absent
      /\ p.at \in [LimitKeys -> Nat \cup {Absent, Null, Bad}]
      /\ d.at \in [LimitKeys -> Nat \cup {Absent, Null, Bad}]
  BY DEF Limits
<1>2. CASE d.shape = "mapping"
  <2> DEFINE b == IF p.shape = "mapping" THEN p.at ELSE NoLimits.at
  <2>1. FoldedLimits(p, d) = [shape |-> "mapping", at |-> Overlay(b, d.at)]
    BY <1>2 DEF FoldedLimits
  <2>2. b \in [LimitKeys -> Nat \cup {Absent, Null, Bad}]
    BY <1>1, NoLimitsTyped
  <2>3. \A k \in LimitKeys : b[k] = p.at[k]
    BY <1>1, NoLimitsTyped
  <2> HIDE DEF b
  <2>4. Overlay(b, d.at) \in [LimitKeys -> Nat \cup {Absent, Null, Bad}]
    BY <1>1, <2>2, OverlayTyped
  <2>5. \A k \in LimitKeys : Overlay(b, d.at)[k] = IF d.at[k] = Absent THEN p.at[k] ELSE d.at[k]
    BY ONLY <2>3 DEF Overlay
  <2>q. QED
    BY <2>1, <2>4, <2>5, LimitsIs
<1>3. CASE d.shape # "mapping"
  <2>1. FoldedLimits(p, d) = IF p.shape = "mapping" THEN p ELSE NoLimits
    BY <1>3 DEF FoldedLimits
  <2>q. QED
    BY <1>1, <1>3, <2>1, NoLimitsTyped
<1>q. QED
  BY <1>2, <1>3

LEMMA TrustTyped ==
  ASSUME NEW p \in Resolved, NEW d \in RawDefinition
  PROVE  Trust(p, d) \in {"", "true", "false"}
  BY ResolvedTyped, FieldsTyped DEF Trust

LEMMA FoldListTyped ==
  ASSUME NEW g \in SUBSET Permissions, NEW l \in Listed
  PROVE  FoldList(g, l) \in SUBSET Permissions /\ ResolveList(g, l) \in SUBSET Permissions
  BY DEF Listed, FoldList, ResolveList

LEMMA FoldedTyped ==
  ASSUME NEW p \in Resolved, NEW d \in RawDefinition
  PROVE  Folded(p, d) \in Resolved
<1>1. /\ p.tools \cup d.tools \in SUBSET Tools /\ p.commands \cup d.commands \in SUBSET Commands
      /\ p.declared \cup d.declared \in SUBSET Commands
  BY ResolvedTyped, FieldsTyped
<1>2. FoldList(p.permissions, d.permissions) \in SUBSET Permissions
  BY ResolvedTyped, FieldsTyped, FoldListTyped
<1>3. (IF d.autonomy = "" THEN p.autonomy ELSE d.autonomy) \in Levels \cup {""}
  BY ResolvedTyped, FieldsTyped
<1>4. Trust(p, d) \in {"", "true", "false"}
  BY TrustTyped
<1>5. FoldedLimits(p.limits, d.limits) \in Limits
  BY ResolvedTyped, FieldsTyped, FoldedLimitsAre
<1>6. FoldRules(p.rules, d.escalation) \in RuleSet
  BY ResolvedTyped, FieldsTyped, FoldRulesTyped
<1>7. FoldAudit(p.audit, d.audit) \in AuditSet
  BY ResolvedTyped, FieldsTyped, FoldAuditTyped
<1>q. QED
  BY ONLY <1>1, <1>2, <1>3, <1>4, <1>5, <1>6, <1>7, ResolvedIs, ZenonT(40) DEF Folded

LEMMA NothingTyped == Nothing \in Resolved
<1>1. {} \in SUBSET Tools /\ {} \in SUBSET Commands /\ {} \in SUBSET Permissions
      /\ "" \in Levels \cup {""} /\ "" \in {"", "true", "false"}
  OBVIOUS
<1>q. QED
  BY ONLY <1>1, NoLimitsTyped, NoRulesTyped, NoAuditTyped, ResolvedIs DEF Nothing

LEMMA DeclaredIs ==
  ASSUME NEW p \in Resolved, NEW d \in RawDefinition
  PROVE  LET e == WithParentConditions(p, d)
         IN  /\ e \in RawDefinition /\ Restating(e.escalation, d.escalation)
             /\ e.permissions = d.permissions /\ e.autonomy = d.autonomy
             /\ e.untrusted = d.untrusted /\ e.limits = d.limits /\ e.audit = d.audit
<1> DEFINE e == WithParentConditions(p, d)
           f == [d.escalation EXCEPT !.conditions = @ \cup p.rules.conditions]
<1>1. CASE d.escalation.kind # "plain" \/ ~d.escalation.restates
  <2>1. e = d
    BY <1>1 DEF WithParentConditions
  <2>q. QED
    BY <2>1 DEF Restating
<1>2. CASE ~(d.escalation.kind # "plain" \/ ~d.escalation.restates)
  <2>1. e = [d EXCEPT !.escalation = f]
    BY <1>2 DEF WithParentConditions
  <2>2. d.escalation \in Escalation /\ p.rules.conditions \in SUBSET Conditions
    BY FieldsTyped, ResolvedTyped, RuleSetTyped
  <2>3. f \in Escalation /\ Restating(f, d.escalation)
    BY <2>2 DEF Escalation, Restating
  <2> HIDE DEF f
  <2>4. /\ e \in RawDefinition /\ e.escalation = f
        /\ e.permissions = d.permissions /\ e.autonomy = d.autonomy
        /\ e.untrusted = d.untrusted /\ e.limits = d.limits /\ e.audit = d.audit
    BY <2>1, <2>3 DEF RawDefinition
  <2>q. QED
    BY <2>3, <2>4
<1>q. QED
  BY <1>1, <1>2

(* What chain[m + 1], ... fold to, against what they say.                   *)
FoldFits(ch, m, p, D) ==
  /\ LevelFits(ch, m, p.autonomy)
  /\ TrustFits(ch, m, p.untrusted)
  /\ GrantsFit(ch, m, p.permissions)
  /\ RequiresFit(ch, m, p.rules)
  /\ WordsFit(ch, m, p.rules)
  /\ KeysFit(ch, m, p.audit)
  /\ \A k \in LimitKeys : LimitFits(ch, m, k, p.limits.at[k], D[k])

LEMMA FoldKeeps ==
  ASSUME NEW ch, NEW m, Step(ch, m), RootsShipped(ch), Sound(ch), NEW p \in Resolved,
         NEW D \in [LimitKeys -> Nat], FoldFits(ch, m, p, D),
         NEW d, d = ch[m].def \/ d = WithParentConditions(p, ch[m].def),
         ch[m].at \in Importers => UnderCeiling(p, ch[m].def, D) /\ RulesUnderCeiling(p, ch[m].def),
         WellShaped(d), StaysUntrusted(p, d), ConditionsKept(p.rules, Folded(p, d).rules),
         p.audit.keys \subseteq Folded(p, d).audit.keys
  PROVE  FoldFits(ch, m - 1, Folded(p, d), D)
<1> DEFINE raw == ch[m].def
           r == Folded(p, d)
<1>1. raw \in RawDefinition
  BY StepTyped
<1>2. /\ d \in RawDefinition /\ Restating(d.escalation, raw.escalation)
      /\ d.permissions = raw.permissions /\ d.autonomy = raw.autonomy
      /\ d.untrusted = raw.untrusted /\ d.limits = raw.limits /\ d.audit = raw.audit
  <2>1. CASE d = raw
    BY <1>1, <2>1 DEF Restating
  <2>2. CASE d = WithParentConditions(p, raw)
    BY <1>1, <2>2, DeclaredIs
  <2>q. QED
    BY <2>1, <2>2
<1>3. /\ r.autonomy = IF raw.autonomy = "" THEN p.autonomy ELSE raw.autonomy
      /\ r.untrusted = Trust(p, d) /\ r.permissions = FoldList(p.permissions, raw.permissions)
      /\ r.limits = FoldedLimits(p.limits, raw.limits)
      /\ r.rules = FoldRules(p.rules, d.escalation) /\ r.audit = FoldAudit(p.audit, raw.audit)
  BY ONLY <1>2 DEF Folded
<1>4. d.permissions.kind # "bad" /\ d.escalation.kind # "bad"
  BY DEF WellShaped
<1> HIDE DEF r
<1>5. LevelFits(ch, m - 1, r.autonomy)
  <2>1. LevelFits(ch, m, p.autonomy)
    BY DEF FoldFits
  <2>2. raw.at = raw.at /\ (ch[m].at \in Importers => WithinLevel(EffectiveLevel(p.autonomy), raw.autonomy))
    BY DEF UnderCeiling
  <2>q. QED
    BY <1>3, <2>1, <2>2, LevelStep
<1>6. TrustFits(ch, m - 1, r.untrusted)
  <2>1. TrustFits(ch, m, p.untrusted)
    BY DEF FoldFits
  <2>2. StaysUntrusted(p, raw) /\ Trust(p, raw) = Trust(p, d)
    BY <1>2 DEF StaysUntrusted, Trust
  <2>q. QED
    BY <1>3, <2>1, <2>2, TrustStep
<1>7. GrantsFit(ch, m - 1, r.permissions)
  <2>1. GrantsFit(ch, m, p.permissions)
    BY DEF FoldFits
  <2>q. QED
    BY <1>2, <1>3, <1>4, <2>1, GrantsStep
<1>8. RequiresFit(ch, m - 1, r.rules)
  <2>1. RequiresFit(ch, m, p.rules) /\ p.rules \in RuleSet /\ d.escalation \in Escalation
    BY <1>2, ResolvedTyped, FieldsTyped DEF FoldFits
  <2>2. ConditionsKept(p.rules, FoldRules(p.rules, d.escalation))
    BY <1>3 DEF r
  <2>q. QED
    BY <1>2, <1>3, <1>4, <2>1, <2>2, RequiresStep
<1>9. WordsFit(ch, m - 1, r.rules)
  <2>1. /\ WordsFit(ch, m, p.rules) /\ RequiresFit(ch, m, p.rules)
        /\ p.rules \in RuleSet /\ d.escalation \in Escalation
    BY <1>2, ResolvedTyped, FieldsTyped DEF FoldFits
  <2>q. QED
    BY <1>2, <1>3, <2>1, WordsStep
<1>10. KeysFit(ch, m - 1, r.audit)
  <2>1. KeysFit(ch, m, p.audit) /\ p.audit \in AuditSet
    BY ResolvedTyped DEF FoldFits
  <2>2. p.audit.keys \subseteq FoldAudit(p.audit, raw.audit).keys
    BY <1>3 DEF r
  <2>q. QED
    BY <1>3, <2>1, <2>2, KeysStep
<1>11. ASSUME NEW k \in LimitKeys
       PROVE  LimitFits(ch, m - 1, k, r.limits.at[k], D[k])
  <2>1. LimitFits(ch, m, k, p.limits.at[k], D[k]) /\ D[k] \in Nat
    BY DEF FoldFits
  <2>2. r.limits.at[k] = IF raw.limits.at[k] = Absent THEN p.limits.at[k] ELSE raw.limits.at[k]
    <3>1. p.limits \in Limits /\ raw.limits \in Limits
      BY <1>1, ResolvedTyped, FieldsTyped
    <3>2. \A j \in LimitKeys : FoldedLimits(p.limits, raw.limits).at[j]
            = IF raw.limits.at[j] = Absent THEN p.limits.at[j] ELSE raw.limits.at[j]
      BY ONLY <3>1, FoldedLimitsAre
    <3>q. QED
      BY ONLY <1>3, <3>2, k \in LimitKeys
  <2>3. ch[m].at \in Importers /\ raw.limits.shape = "mapping"
          => WithinLimits(p.limits.at, raw.limits.at, D)
    BY DEF UnderCeiling
  <2>4. LimitFits(ch, m - 1, k,
           IF raw.limits.at[k] = Absent THEN p.limits.at[k] ELSE raw.limits.at[k], D[k])
    BY <2>1, <2>3, LimitStep
  <2>q. QED
    BY <2>2, <2>4
<1>q. QED
  BY <1>5, <1>6, <1>7, <1>8, <1>9, <1>10, <1>11 DEF FoldFits, r

(* Before the root is read nothing is said.                                 *)
LEMMA SpeakersBelow ==
  ASSUME NEW ch \in Seq(Entry)
  PROVE  /\ Shipped(ch) \in SUBSET (1..Len(ch)) /\ LevelSpeakers(ch) \in SUBSET (1..Len(ch))
         /\ \A p : GrantSpeakers(ch, p) \in SUBSET (1..Len(ch))
         /\ \A c : WordSpeakers(ch, c) \in SUBSET (1..Len(ch))
         /\ ToSpeakers(ch) \in SUBSET (1..Len(ch))
         /\ \A k : LimitSpeakers(ch, k) \in SUBSET (1..Len(ch))
<1>1. DOMAIN ch = 1..Len(ch)
  OBVIOUS
<1>q. QED
  BY <1>1 DEF Shipped, LevelSpeakers, GrantSpeakers, WordSpeakers, ToSpeakers, LimitSpeakers

LEMMA SaidNothing ==
  ASSUME NEW ch \in Seq(Entry), NEW S \in SUBSET (1..Len(ch)), NEW Of, NEW none
  PROVE  Said(S, Len(ch), Of, none) = none
<1>1. Len(ch) \in Nat
  OBVIOUS
<1>q. QED
  BY ONLY <1>1, S \in SUBSET (1..Len(ch)), SaidAll

LEMMA NothingFits ==
  ASSUME NEW ch \in Seq(Entry), NEW D \in [LimitKeys -> Nat]
  PROVE  FoldFits(ch, Len(ch), Nothing, D)
<1> DEFINE n == Len(ch)
<1>1. n \in Nat /\ \A i \in DOMAIN ch : ~(i > n)
  OBVIOUS
<1>2. LevelFits(ch, n, Nothing.autonomy)
  <2>1. LevelAt(ch, n) = "supervised"
    <3> DEFINE S == LevelSpeakers(ch)
    <3>1. S \in SUBSET (1..n)
      BY SpeakersBelow
    <3>q. QED
      BY ONLY <3>1, SaidNothing, ch \in Seq(Entry) DEF LevelAt
  <2>2. EffectiveLevel(Nothing.autonomy) = "supervised" /\ Nothing.autonomy \in Levels \cup {""}
        /\ "supervised" \in Levels
    BY DEF Nothing, EffectiveLevel, Levels
  <2>q. QED
    BY <2>1, <2>2, RankSame DEF LevelFits
<1>3. TrustFits(ch, n, Nothing.untrusted)
  BY <1>1 DEF TrustFits, Nothing
<1>4. GrantsFit(ch, n, Nothing.permissions)
  <2>1. ASSUME NEW p \in Permissions
        PROVE  ~GrantAt(ch, n, p)
    <3>1. After(GrantSpeakers(ch, p), n) = {}
      BY ONLY <1>1, SpeakersBelow, AfterAll, ch \in Seq(Entry)
    <3>q. QED
      BY <3>1 DEF GrantAt
  <2>q. QED
    BY <2>1 DEF GrantsFit, Nothing
<1>5. RequiresFit(ch, n, Nothing.rules) /\ KeysFit(ch, n, Nothing.audit)
  BY <1>1 DEF RequiresFit, KeysFit
<1>6. WordsFit(ch, n, Nothing.rules)
  <2>1. ToAt(ch, n) = "" /\ Nothing.rules.to = ""
    <3>1. After(ToSpeakers(ch), n) = {}
      BY ONLY <1>1, SpeakersBelow, AfterAll, ch \in Seq(Entry)
    <3>2. ToAt(ch, n) = ""
      BY <3>1 DEF ToAt, Said
    <3>q. QED
      BY <3>2 DEF Nothing, NoRules
  <2>2. ASSUME NEW c \in Conditions
        PROVE  WordAt(ch, n, c) = "" /\ Nothing.rules.words[c] = ""
    <3>1. After(WordSpeakers(ch, c), n) = {}
      BY ONLY <1>1, SpeakersBelow, AfterAll, ch \in Seq(Entry)
    <3>2. WordAt(ch, n, c) = ""
      BY <3>1 DEF WordAt, Said
    <3>q. QED
      BY <3>2 DEF Nothing, NoRules
  <2>3. \A i \in Shipped(ch) : ~(i > n)
    BY <1>1 DEF Shipped
  <2>q. QED
    BY <2>1, <2>2, <2>3 DEF WordsFit, Spoken
<1>7. ASSUME NEW k \in LimitKeys
      PROVE  LimitFits(ch, n, k, Nothing.limits.at[k], D[k])
  <2>1. LimitAt(ch, n, k) = Absent
    <3> DEFINE S == LimitSpeakers(ch, k)
    <3>1. S \in SUBSET (1..n)
      BY SpeakersBelow
    <3>q. QED
      BY ONLY <3>1, SaidNothing, ch \in Seq(Entry) DEF LimitAt
  <2>2. Nothing.limits.at[k] = Absent
    BY NoLimitsTyped DEF Nothing
  <2>3. Absent \in Bound /\ D[k] <= D[k] /\ AtMost(Absent, D[k]) = D[k]
    BY DEF Bound, AtMost
  <2>q. QED
    BY <2>1, <2>2, <2>3 DEF LimitFits
<1>q. QED
  BY <1>2, <1>3, <1>4, <1>5, <1>6, <1>7 DEF FoldFits

(* The root is folded onto nothing.                                         *)
LEMMA RootIs ==
  ASSUME NEW d \in RawDefinition, WellShaped(d)
  PROVE  LET r == RootOf(d)
             f == Folded(Nothing, d)
         IN  /\ r.autonomy = f.autonomy /\ r.untrusted = f.untrusted /\ r.permissions = f.permissions
             /\ r.rules = f.rules /\ r.audit = f.audit
             /\ \A k \in LimitKeys : r.limits.at[k] = f.limits.at[k]
             /\ r \in Resolved
<1> DEFINE r == RootOf(d)
           f == Folded(Nothing, d)
<1>0. /\ Nothing.autonomy = "" /\ Nothing.untrusted = "" /\ Nothing.permissions = {}
      /\ Nothing.rules = NoRules /\ Nothing.audit = NoAudit /\ Nothing.limits = NoLimits
  BY DEF Nothing
<1>1. /\ r.autonomy = d.autonomy /\ r.untrusted = d.untrusted
      /\ r.permissions = ResolveList({}, d.permissions) /\ r.rules = ResolveRules(NoRules, d.escalation)
      /\ r.audit = ResolveAudit(NoAudit, d.audit) /\ r.limits = d.limits
  BY DEF RootOf
<1>2. /\ f.autonomy = IF d.autonomy = "" THEN "" ELSE d.autonomy
      /\ f.untrusted = IF d.untrusted = "" THEN "" ELSE d.untrusted
      /\ f.permissions = FoldList({}, d.permissions) /\ f.rules = FoldRules(NoRules, d.escalation)
      /\ f.audit = FoldAudit(NoAudit, d.audit) /\ f.limits = FoldedLimits(NoLimits, d.limits)
  BY <1>0 DEF Folded, Trust
<1>3. r \in Resolved
  <2>1. /\ d.tools \in SUBSET Tools /\ d.commands \in SUBSET Commands /\ d.declared \in SUBSET Commands
        /\ d.autonomy \in Levels \cup {""} /\ d.untrusted \in {"", "true", "false"} /\ d.limits \in Limits
    BY FieldsTyped
  <2>2. ResolveList({}, d.permissions) \in SUBSET Permissions
    BY FieldsTyped, FoldListTyped
  <2>3. ResolveRules(NoRules, d.escalation) \in RuleSet
    BY FieldsTyped, FoldRulesTyped, NoRulesTyped
  <2>4. ResolveAudit(NoAudit, d.audit) \in AuditSet
    BY FieldsTyped, FoldAuditTyped, NoAuditTyped
  <2>q. QED
    BY ONLY <2>1, <2>2, <2>3, <2>4, ResolvedIs DEF RootOf
<1> HIDE DEF r, f
<1>4. r.autonomy = f.autonomy /\ r.untrusted = f.untrusted
  BY <1>1, <1>2
<1>5. r.permissions = f.permissions
  BY <1>1, <1>2 DEF FoldList, ResolveList
<1>6. r.rules = f.rules
  BY <1>1, <1>2 DEF FoldRules, ResolveRules, InsteadRules
<1>7. r.audit = f.audit
  BY <1>1, <1>2 DEF FoldAudit, ResolveAudit
<1>8. \A k \in LimitKeys : r.limits.at[k] = f.limits.at[k]
  <2>1. d.limits \in Limits
    BY FieldsTyped
  <2>2. \A k \in LimitKeys : FoldedLimits(NoLimits, d.limits).at[k]
          = IF d.limits.at[k] = Absent THEN NoLimits.at[k] ELSE d.limits.at[k]
    BY ONLY <2>1, NoLimitsTyped, FoldedLimitsAre
  <2>q. QED
    BY <1>1, <1>2, <2>2, NoLimitsTyped
<1>q. QED
  BY <1>3, <1>4, <1>5, <1>6, <1>7, <1>8 DEF r, f

LEMMA RootKeeps ==
  ASSUME NEW ch \in Seq(Entry), ch # <<>>, RootsShipped(ch), Sound(ch), NEW D \in [LimitKeys -> Nat],
         WellShaped(ch[Len(ch)].def),
         ch[Len(ch)].at \in Importers => UnderCeiling(Nothing, ch[Len(ch)].def, D)
  PROVE  /\ RootOf(ch[Len(ch)].def) \in Resolved
         /\ FoldFits(ch, Len(ch) - 1, RootOf(ch[Len(ch)].def), D)
         /\ CaptureFits(ch, RootOf(ch[Len(ch)].def).audit)
<1> DEFINE n == Len(ch)
           d == ch[n].def
           r == RootOf(d)
           f == Folded(Nothing, d)
<1>1. Step(ch, n)
  BY DEF Step
<1>2. d \in RawDefinition
  BY <1>1, StepTyped
<1>3. /\ Nothing.untrusted = "" /\ Nothing.rules.conditions = {} /\ Nothing.rules.to = ""
      /\ Nothing.audit = NoAudit /\ NoAudit.keys = {} /\ NoAudit.capture = FALSE
  BY DEF Nothing, NoRules, NoAudit
<1>4. StaysUntrusted(Nothing, d) /\ ConditionsKept(Nothing.rules, f.rules)
      /\ Nothing.audit.keys \subseteq f.audit.keys
  BY <1>3 DEF StaysUntrusted, ConditionsKept
<1>5. RulesUnderCeiling(Nothing, d)
  BY <1>3 DEF RulesUnderCeiling, WordingKept
<1>6. FoldFits(ch, n, Nothing, D)
  BY NothingFits
<1>7. FoldFits(ch, n - 1, f, D)
  BY ONLY <1>1, <1>4, <1>5, <1>6, NothingTyped, FoldKeeps, RootsShipped(ch), Sound(ch), WellShaped(ch[Len(ch)].def),
     D \in [LimitKeys -> Nat], ch[Len(ch)].at \in Importers => UnderCeiling(Nothing, ch[Len(ch)].def, D)
<1>8. /\ r.autonomy = f.autonomy /\ r.untrusted = f.untrusted /\ r.permissions = f.permissions
      /\ r.rules = f.rules /\ r.audit = f.audit
      /\ \A k \in LimitKeys : r.limits.at[k] = f.limits.at[k]
      /\ r \in Resolved
  BY <1>2, RootIs
<1>9. f.audit = FoldAudit(NoAudit, d.audit)
  BY <1>3 DEF Folded
<1> HIDE DEF r, f
<1>10. FoldFits(ch, n - 1, r, D)
  BY ONLY <1>7, <1>8 DEF FoldFits
<1>11. CaptureFits(ch, r.audit)
  <2>1. CASE ch[n].at \notin Importers
    BY <1>8, <1>9, <2>1, RootCapture
  <2>2. CASE ch[n].at \in Importers
    <3>1. ~OverAudit(NoAudit, d.audit).capture
      BY <1>3, <2>2 DEF UnderCeiling, RedactionKept
    <3>2. ~f.audit.capture
      BY <1>3, <1>9, <3>1 DEF FoldAudit
    <3>q. QED
      BY <1>8, <3>2 DEF CaptureFits
  <2>q. QED
    BY <2>1, <2>2
<1>q. QED
  BY <1>8, <1>10, <1>11 DEF r

-----------------------------------------------------------------------------
(* What a deployment leaves of it.                                          *)
Declared(ch, ov) == {ch[i].def : i \in DOMAIN ch} \cup {ov[i] : i \in DOMAIN ov}
Mapped(ov) == \A i \in DOMAIN ov : ov[i].limits.shape # "other"
HeldTo(ch, ov, p, D) ==
  /\ p.autonomy \in Levels /\ Rank(p.autonomy) <= Rank(LevelAt(ch, 0)) /\ LevelAt(ch, 0) \in Levels
  /\ (\E d \in Declared(ch, ov) : d.untrusted = "true") => p.untrusted = "true"
  /\ NoT3(p)
  /\ \A q \in Permissions :
       q \in p.permissions <=>
         IF {i \in DOMAIN ov : Speaks(ov[i], q, TRUE)} # {} THEN Gives(ov[1], q) ELSE GrantAt(ch, 0, q)
  /\ \A d \in Declared(ch, ov) : Requires(d) \subseteq p.rules.conditions
  /\ \A i \in Shipped(ch) : \A c \in Requires(ch[i].def) : p.rules.words[c] = WordAt(ch, 0, c)
  /\ ToAt(ch, 0) # "" => p.rules.to = ToAt(ch, 0)
  /\ \A d \in Declared(ch, ov) : d.audit.kind # "inherit" /\ d.audit.lists => d.audit.keys \subseteq p.audit.keys
  /\ CaptureFits(ch, p.audit)
  /\ \A k \in LimitKeys : p.limits.at[k] \in Bound
  /\ Mapped(ov) => \A k \in LimitKeys : LimitFits(ch, 0, k, p.limits.at[k], D[k])

LEMMA Positive ==
  ASSUME NEW ch \in Seq(Entry)
  PROVE  \A i \in DOMAIN ch : i > 0 /\ i \in Nat
  OBVIOUS

LEMMA WrapHeld ==
  ASSUME NEW ch \in Seq(Entry), NEW ov, DOMAIN ov = {}, NEW p, NEW D, FoldFits(ch, 0, p, D), p.autonomy # "", NoT3(p),
         CaptureFits(ch, p.audit)
  PROVE  HeldTo(ch, ov, p, D)
<1> DEFINE ds == Declared(ch, ov)
<1>1. \A d \in ds : \E i \in DOMAIN ch : i > 0 /\ d = ch[i].def
  BY Positive DEF Declared
<1>2. p.autonomy \in Levels /\ Rank(p.autonomy) <= Rank(LevelAt(ch, 0)) /\ LevelAt(ch, 0) \in Levels
  BY DEF FoldFits, LevelFits, EffectiveLevel
<1>3. (\E d \in ds : d.untrusted = "true") => p.untrusted = "true"
  BY <1>1 DEF FoldFits, TrustFits
<1>4. ASSUME NEW q \in Permissions
      PROVE  q \in p.permissions <=>
         IF {i \in DOMAIN ov : Speaks(ov[i], q, TRUE)} # {} THEN Gives(ov[1], q) ELSE GrantAt(ch, 0, q)
  <2>1. {i \in DOMAIN ov : Speaks(ov[i], q, TRUE)} = {}
    OBVIOUS
  <2>2. q \in p.permissions <=> GrantAt(ch, 0, q)
    BY DEF FoldFits, GrantsFit
  <2>q. QED
    BY ONLY <2>1, <2>2
<1>5. \A d \in ds : Requires(d) \subseteq p.rules.conditions
  BY <1>1 DEF FoldFits, RequiresFit
<1>6. /\ \A i \in Shipped(ch) : \A c \in Requires(ch[i].def) : p.rules.words[c] = WordAt(ch, 0, c)
      /\ ToAt(ch, 0) # "" => p.rules.to = ToAt(ch, 0)
  BY Positive DEF FoldFits, WordsFit, Shipped
<1>7. \A d \in ds : d.audit.kind # "inherit" /\ d.audit.lists => d.audit.keys \subseteq p.audit.keys
  BY <1>1, ZenonT(40) DEF FoldFits, KeysFit
<1>8. \A k \in LimitKeys : p.limits.at[k] \in Bound /\ LimitFits(ch, 0, k, p.limits.at[k], D[k])
  BY DEF FoldFits, LimitFits
<1>q. QED
  BY ONLY <1>2, <1>3, <1>4, <1>5, <1>6, <1>7, <1>8, NoT3(p), CaptureFits(ch, p.audit) DEF HeldTo

LEMMA RuleSetIs ==
  ASSUME NEW conditions \in SUBSET Conditions, NEW to \in People \cup {""},
         NEW words \in [Conditions -> Texts \cup {""}]
  PROVE  [conditions |-> conditions, to |-> to, words |-> words] \in RuleSet
  BY DEF RuleSet

LEMMA MergedRulesTyped ==
  ASSUME NEW p \in RuleSet, NEW e \in Escalation
  PROVE  /\ MergedRules(p, e) \in RuleSet
         /\ MergedRules(p, e).conditions = ResolveRules(p, e).conditions
         /\ MergedRules(p, e).to = ResolveRules(p, e).to
         /\ \A c \in Conditions : MergedRules(p, e).words[c]
              = IF ResolveRules(p, e).words[c] = "" THEN p.words[c] ELSE ResolveRules(p, e).words[c]
<1>1. PICK r : r = ResolveRules(p, e)
  OBVIOUS
<1>2. r \in RuleSet
  BY <1>1, FoldRulesTyped
<1>3. MergedRules(p, e) = [conditions |-> r.conditions, to |-> r.to,
        words |-> [c \in Conditions |-> IF r.words[c] = "" THEN p.words[c] ELSE r.words[c]]]
  BY <1>1 DEF MergedRules
<1>4. [c \in Conditions |-> IF r.words[c] = "" THEN p.words[c] ELSE r.words[c]]
        \in [Conditions -> Texts \cup {""}]
  BY <1>2, RuleSetTyped
<1>5. r.conditions \in SUBSET Conditions /\ r.to \in People \cup {""}
  BY <1>2, RuleSetTyped
<1>6. MergedRules(p, e) \in RuleSet
  BY ONLY <1>3, <1>4, <1>5, RuleSetIs
<1>7. MergedRules(p, e).conditions = r.conditions /\ MergedRules(p, e).to = r.to
  BY <1>1 DEF MergedRules
<1>8. MergedRules(p, e).words = [c \in Conditions |-> IF r.words[c] = "" THEN p.words[c] ELSE r.words[c]]
  BY <1>1 DEF MergedRules
<1>9. ASSUME NEW c \in Conditions
      PROVE  MergedRules(p, e).words[c] = IF r.words[c] = "" THEN p.words[c] ELSE r.words[c]
  BY <1>8, Zenon
<1>q. QED
  BY ONLY <1>1, <1>6, <1>7, <1>9

LEMMA MergedLimitsAre ==
  ASSUME NEW p \in Limits, NEW d \in Limits, NEW D \in [LimitKeys -> Nat]
  PROVE  /\ MergedLimits(p, d, D) \in Limits
         /\ \A k \in LimitKeys :
              LET v == MergedLimits(p, d, D).at[k]
                  b == IF p.shape = "mapping" THEN p.at ELSE D
              IN  /\ d.shape = "none" => v = p.at[k]
                  /\ d.shape = "mapping" => v = IF d.at[k] = Absent THEN b[k] ELSE d.at[k]
                  /\ d.shape = "other" => v = Absent
<1>1. /\ \A k \in LimitKeys : p.shape # "mapping" => p.at[k] = Absent
      /\ p.at \in [LimitKeys -> Nat \cup {Absent, Null, Bad}]
      /\ d.at \in [LimitKeys -> Nat \cup {Absent, Null, Bad}]
      /\ d.shape \in {"none", "mapping", "other"}
  BY DEF Limits
<1>2. CASE d.shape = "none"
  <2>1. MergedLimits(p, d, D) = IF p.shape = "mapping" THEN p ELSE NoLimits
    BY <1>2 DEF MergedLimits
  <2>q. QED
    BY <1>1, <1>2, <2>1, NoLimitsTyped
<1>3. CASE d.shape = "mapping"
  <2> DEFINE b == IF p.shape = "mapping" THEN p.at ELSE D
  <2>1. MergedLimits(p, d, D) = [shape |-> "mapping", at |-> Overlay(b, d.at)]
    BY <1>3 DEF MergedLimits
  <2>2. b \in [LimitKeys -> Nat \cup {Absent, Null, Bad}]
    BY <1>1
  <2> HIDE DEF b
  <2>3. Overlay(b, d.at) \in [LimitKeys -> Nat \cup {Absent, Null, Bad}]
    BY <1>1, <2>2, OverlayTyped
  <2>4. \A k \in LimitKeys : Overlay(b, d.at)[k] = IF d.at[k] = Absent THEN b[k] ELSE d.at[k]
    BY ONLY DEF Overlay
  <2>5. /\ MergedLimits(p, d, D) \in Limits
        /\ \A k \in LimitKeys : MergedLimits(p, d, D).at[k] = IF d.at[k] = Absent THEN b[k] ELSE d.at[k]
    BY <2>1, <2>3, <2>4, LimitsIs
  <2>q. QED
    BY <1>3, <2>5 DEF b
<1>4. CASE d.shape = "other"
  <2>1. MergedLimits(p, d, D) = NoLimits
    BY <1>4 DEF MergedLimits
  <2>q. QED
    BY <1>4, <2>1, NoLimitsTyped
<1>q. QED
  BY <1>1, <1>2, <1>3, <1>4

LEMMA MergedTyped ==
  ASSUME NEW p \in Resolved, NEW d \in RawDefinition, NEW D \in [LimitKeys -> Nat]
  PROVE  Merged(p, d, D) \in Resolved
<1>1. d.tools \in SUBSET Tools /\ d.commands \in SUBSET Commands /\ p.declared \in SUBSET Commands
  BY ResolvedTyped, FieldsTyped
<1>2. /\ d.permissions \in Listed /\ p.permissions \in SUBSET Permissions
      /\ p.limits \in Limits /\ d.limits \in Limits
      /\ p.rules \in RuleSet /\ d.escalation \in Escalation
      /\ p.audit \in AuditSet /\ d.audit \in Audit
  BY ResolvedTyped, FieldsTyped
<1>3. ResolveList(p.permissions, d.permissions) \in SUBSET Permissions
  BY ONLY <1>2, FoldListTyped
<1>4. (IF d.autonomy = "" THEN p.autonomy ELSE d.autonomy) \in Levels \cup {""}
  BY ResolvedTyped, FieldsTyped
<1>5. Trust(p, d) \in {"", "true", "false"}
  BY TrustTyped
<1>6. MergedLimits(p.limits, d.limits, D) \in Limits
  BY ONLY <1>2, D \in [LimitKeys -> Nat], MergedLimitsAre
<1>7. MergedRules(p.rules, d.escalation) \in RuleSet
  BY ONLY <1>2, MergedRulesTyped
<1>8. ResolveAudit(p.audit, d.audit) \in AuditSet
  BY ONLY <1>2, FoldAuditTyped
<1>9. [tools |-> d.tools, commands |-> d.commands, declared |-> p.declared,
       permissions |-> ResolveList(p.permissions, d.permissions),
       autonomy |-> IF d.autonomy = "" THEN p.autonomy ELSE d.autonomy,
       untrusted |-> Trust(p, d), limits |-> MergedLimits(p.limits, d.limits, D),
       rules |-> MergedRules(p.rules, d.escalation), audit |-> ResolveAudit(p.audit, d.audit)]
        \in Resolved
  BY ONLY <1>1, <1>3, <1>4, <1>5, <1>6, <1>7, <1>8, ResolvedIs, ZenonT(40)
<1>q. QED
  BY <1>9 DEF Merged

LEMMA ResolvedKeys ==
  ASSUME NEW a, NEW e, e.kind # "inherit", e.lists
  PROVE  ResolveAudit(a, e).keys = e.keys
<1>1. \A b : OverAudit(b, e).keys = e.keys
  BY DEF OverAudit
<1>q. QED
  BY <1>1 DEF ResolveAudit

(* A deployment's definition, once it is found to narrow.                   *)
LEMMA MergeHeld ==
  ASSUME NEW ch \in Seq(Entry), NEW p \in Resolved, NEW D \in [LimitKeys -> Nat],
         NEW d \in RawDefinition, NEW ov, DOMAIN ov = {1}, ov[1] = d,
         FoldFits(ch, 0, p, D), p.autonomy # "", CaptureFits(ch, p.audit),
         Narrows(p, d, Merged(p, d, D), D)
  PROVE  HeldTo(ch, ov, Merged(p, d, D), D)
<1> DEFINE m == Merged(p, d, D)
           ds == Declared(ch, ov)
<1>1. \A x \in ds : x = d \/ \E i \in DOMAIN ch : i > 0 /\ x = ch[i].def
  BY Positive DEF Declared
<1>2. /\ m.permissions = ResolveList(p.permissions, d.permissions)
      /\ m.autonomy = (IF d.autonomy = "" THEN p.autonomy ELSE d.autonomy)
      /\ m.untrusted = Trust(p, d) /\ m.limits = MergedLimits(p.limits, d.limits, D)
      /\ m.rules = MergedRules(p.rules, d.escalation) /\ m.audit = ResolveAudit(p.audit, d.audit)
  BY DEF Merged
<1>14. m.permissions = ResolveList(p.permissions, d.permissions)
  BY <1>2
<1>15. m.rules = MergedRules(p.rules, d.escalation)
  BY <1>2
<1>16. m.limits = MergedLimits(p.limits, d.limits, D)
  BY <1>2
<1>17. m.audit = ResolveAudit(p.audit, d.audit)
  BY <1>2
<1>3. /\ d.permissions \in Listed /\ p.permissions \in SUBSET Permissions
      /\ p.limits \in Limits /\ d.limits \in Limits
      /\ p.rules \in RuleSet /\ d.escalation \in Escalation
      /\ p.audit \in AuditSet /\ d.audit \in Audit
      /\ d.autonomy \in Levels \cup {""} /\ d.untrusted \in {"", "true", "false"}
  BY ResolvedTyped, FieldsTyped
<1>4. /\ WellShaped(d) /\ WithinLevel(p.autonomy, d.autonomy) /\ StaysUntrusted(p, d)
      /\ NoT3(m) /\ ConditionsKept(p.rules, m.rules)
      /\ WordingKept(p.rules, d.escalation.words, m.rules.to) /\ RedactionKept(p.audit, m.audit)
      /\ d.limits.shape = "mapping" =>
           WithinLimits(IF p.limits.shape = "mapping" THEN p.limits.at ELSE D, d.limits.at, D)
  BY DEF Narrows
<1> HIDE DEF m, ds
<1>5. m.autonomy \in Levels /\ Rank(m.autonomy) <= Rank(LevelAt(ch, 0)) /\ LevelAt(ch, 0) \in Levels
  <2>1. /\ p.autonomy \in Levels /\ LevelAt(ch, 0) \in Levels
        /\ Rank(p.autonomy) <= Rank(LevelAt(ch, 0))
    BY DEF FoldFits, LevelFits, EffectiveLevel
  <2>2. CASE d.autonomy = ""
    BY <1>2, <2>1, <2>2
  <2>3. CASE d.autonomy # ""
    <3>1. d.autonomy \in Levels /\ Rank(d.autonomy) <= Rank(p.autonomy)
      BY <1>3, <1>4, <2>3 DEF WithinLevel
    <3>2. Rank(d.autonomy) <= Rank(LevelAt(ch, 0))
      BY ONLY <2>1, <3>1, RankOrdered
    <3>q. QED
      BY <1>2, <2>1, <2>3, <3>1, <3>2
  <2>q. QED
    BY <2>2, <2>3
<1>6. (\E x \in ds : x.untrusted = "true") => m.untrusted = "true"
  <2>1. ASSUME NEW x \in ds, x.untrusted = "true"
        PROVE  m.untrusted = "true"
    <3>1. CASE x = d
      BY <1>2, <2>1, <3>1 DEF Trust
    <3>2. CASE \E i \in DOMAIN ch : i > 0 /\ x = ch[i].def
      <4>1. p.untrusted = "true"
        BY <2>1, <3>2 DEF FoldFits, TrustFits
      <4>q. QED
        BY <1>2, <1>3, <1>4, <4>1 DEF Trust, StaysUntrusted
    <3>q. QED
      BY <1>1, <3>1, <3>2
  <2>q. QED
    BY <2>1
<1>7. ASSUME NEW q \in Permissions
      PROVE  q \in m.permissions <=>
        IF {i \in DOMAIN ov : Speaks(ov[i], q, TRUE)} # {} THEN Gives(ov[1], q) ELSE GrantAt(ch, 0, q)
  <2>1. {i \in DOMAIN ov : Speaks(ov[i], q, TRUE)} # {} <=> Speaks(d, q, TRUE)
    OBVIOUS
  <2>2. q \in p.permissions <=> GrantAt(ch, 0, q)
    BY DEF FoldFits, GrantsFit
  <2>3. d.permissions.kind # "bad"
    BY <1>4 DEF WellShaped
  <2>4. q \in m.permissions <=> IF Speaks(d, q, TRUE) THEN Gives(d, q) ELSE q \in p.permissions
    <3>1. q \in ResolveList(p.permissions, d.permissions)
             <=> IF Speaks(d, q, TRUE) THEN Gives(d, q) ELSE q \in p.permissions
      BY ONLY <1>3, <2>3, Granting, d \in RawDefinition, q \in Permissions
    <3>q. QED
      BY ONLY <1>14, <3>1
  <2>q. QED
    BY <2>1, <2>2, <2>4
<1>8. \A x \in ds : Requires(x) \subseteq m.rules.conditions
  <2>1. p.rules.conditions \subseteq m.rules.conditions
    BY <1>4 DEF ConditionsKept
  <2>2. m.rules.conditions = ResolveRules(p.rules, d.escalation).conditions
    <3>1. MergedRules(p.rules, d.escalation).conditions = ResolveRules(p.rules, d.escalation).conditions
      BY ONLY <1>3, MergedRulesTyped
    <3>q. QED
      BY ONLY <1>15, <3>1
  <2>3. Requires(d) \subseteq ResolveRules(p.rules, d.escalation).conditions
    BY DEF Requires, ResolveRules, InsteadRules, OverRules
  <2>4. \A i \in DOMAIN ch : i > 0 => Requires(ch[i].def) \subseteq p.rules.conditions
    BY DEF FoldFits, RequiresFit
  <2>q. QED
    BY <1>1, <2>1, <2>2, <2>3, <2>4
<1>9. /\ \A c \in p.rules.conditions : m.rules.words[c] = p.rules.words[c]
      /\ p.rules.to # "" => m.rules.to = p.rules.to
  <2>1. p.rules.to # "" => m.rules.to = p.rules.to
    BY <1>4 DEF WordingKept
  <2>2. ASSUME NEW c \in p.rules.conditions
        PROVE  m.rules.words[c] = p.rules.words[c]
    <3> DEFINE w == ResolveRules(p.rules, d.escalation).words[c]
    <3>1. c \in Conditions
      BY <1>3, RuleSetTyped
    <3>2. m.rules.words[c] = IF w = "" THEN p.rules.words[c] ELSE w
      <4>1. MergedRules(p.rules, d.escalation).words[c] = IF w = "" THEN p.rules.words[c] ELSE w
        BY ONLY <1>3, <3>1, MergedRulesTyped
      <4>q. QED
        BY ONLY <1>15, <4>1
    <3>3. d.escalation.words[c] \in {"", p.rules.words[c]}
      BY <1>4 DEF WordingKept
    <3>4. w \in {"", p.rules.words[c]}
      BY <3>1, <3>3 DEF ResolveRules, InsteadRules, OverRules, NoRules
    <3>q. QED
      BY <3>2, <3>4
  <2>q. QED
    BY <2>1, <2>2
<1>10. /\ \A i \in Shipped(ch) : \A c \in Requires(ch[i].def) : m.rules.words[c] = WordAt(ch, 0, c)
       /\ ToAt(ch, 0) # "" => m.rules.to = ToAt(ch, 0)
  <2>1. ASSUME NEW i \in Shipped(ch), NEW c \in Requires(ch[i].def)
        PROVE  m.rules.words[c] = WordAt(ch, 0, c)
    <3>1. i \in DOMAIN ch /\ i > 0
      BY Positive DEF Shipped
    <3>2. c \in p.rules.conditions /\ p.rules.words[c] = WordAt(ch, 0, c)
      BY <3>1 DEF FoldFits, RequiresFit, WordsFit
    <3>q. QED
      BY <1>9, <3>2
  <2>2. ToAt(ch, 0) # "" => p.rules.to = ToAt(ch, 0)
    BY DEF FoldFits, WordsFit
  <2>q. QED
    BY <1>9, <2>1, <2>2
<1>11. \A x \in ds : x.audit.kind # "inherit" /\ x.audit.lists => x.audit.keys \subseteq m.audit.keys
  <2>1. p.audit.keys \subseteq m.audit.keys
    BY <1>4 DEF RedactionKept
  <2>2. d.audit.kind # "inherit" /\ d.audit.lists => d.audit.keys \subseteq m.audit.keys
    <3>1. d.audit.kind # "inherit" /\ d.audit.lists => ResolveAudit(p.audit, d.audit).keys = d.audit.keys
      BY ResolvedKeys, Zenon
    <3>q. QED
      BY ONLY <1>17, <3>1
  <2>3. \A i \in DOMAIN ch : i > 0 /\ ch[i].def.audit.kind # "inherit" /\ ch[i].def.audit.lists
          => ch[i].def.audit.keys \subseteq p.audit.keys
    BY DEF FoldFits, KeysFit
  <2>q. QED
    BY <1>1, <2>1, <2>2, <2>3, ZenonT(40)
<1>12. CaptureFits(ch, m.audit)
  BY <1>4 DEF CaptureFits, RedactionKept
<1>13. ASSUME NEW k \in LimitKeys
       PROVE  m.limits.at[k] \in Bound /\ (Mapped(ov) => LimitFits(ch, 0, k, m.limits.at[k], D[k]))
  <2> DEFINE v == m.limits.at[k]
             b == IF p.limits.shape = "mapping" THEN p.limits.at ELSE D
  <2>1. /\ d.limits.shape = "none" => v = p.limits.at[k]
        /\ d.limits.shape = "mapping" => v = IF d.limits.at[k] = Absent THEN b[k] ELSE d.limits.at[k]
        /\ d.limits.shape = "other" => v = Absent
        /\ d.limits.shape \in {"none", "mapping", "other"}
    <3>1. d.limits.shape \in {"none", "mapping", "other"}
      BY ONLY <1>3, LimitTyped, k \in LimitKeys
    <3>2. /\ d.limits.shape = "none" => MergedLimits(p.limits, d.limits, D).at[k] = p.limits.at[k]
          /\ d.limits.shape = "mapping" => MergedLimits(p.limits, d.limits, D).at[k]
               = IF d.limits.at[k] = Absent THEN b[k] ELSE d.limits.at[k]
          /\ d.limits.shape = "other" => MergedLimits(p.limits, d.limits, D).at[k] = Absent
      BY ONLY <1>3, MergedLimitsAre, k \in LimitKeys, D \in [LimitKeys -> Nat]
    <3>q. QED
      BY ONLY <1>16, <3>1, <3>2
  <2>2. LimitFits(ch, 0, k, p.limits.at[k], D[k]) /\ D[k] \in Nat
    BY DEF FoldFits
  <2>3. CASE d.limits.shape = "none"
    BY <2>1, <2>2, <2>3 DEF LimitFits
  <2>4. CASE d.limits.shape = "other"
    BY <2>1, <2>4 DEF Mapped, Bound
  <2>5. CASE d.limits.shape = "mapping"
    <3>1. b[k] \in Bound /\ AtMost(b[k], D[k]) = AtMost(p.limits.at[k], D[k])
      <4>1. CASE p.limits.shape = "mapping"
        BY <2>2, <4>1 DEF LimitFits
      <4>2. CASE p.limits.shape # "mapping"
        <5>1. p.limits.at[k] = Absent /\ b[k] = D[k]
          BY <1>3, <4>2, LimitTyped
        <5>q. QED
          BY <2>2, <5>1, AtMostTyped DEF Bound
      <4>q. QED
        BY <4>1, <4>2
    <3>2. CASE d.limits.at[k] = Absent
      BY <2>1, <2>2, <2>5, <3>1, <3>2 DEF LimitFits
    <3>3. CASE d.limits.at[k] # Absent
      <4>1. WithinBaseline(d.limits.at[k], b, D, k)
        BY <1>4, <2>5, <3>3 DEF WithinLimits
      <4> HIDE DEF b
      <4>2. v \in Bound /\ AtMost(v, D[k]) <= AtMost(b[k], D[k])
        BY <2>1, <2>2, <2>5, <3>3, <4>1, Within
      <4>3. p.limits.at[k] \in Bound /\ LimitAt(ch, 0, k) \in Bound
            /\ AtMost(p.limits.at[k], D[k]) <= AtMost(LimitAt(ch, 0, k), D[k])
        BY <2>2 DEF LimitFits
      <4> HIDE DEF v
      <4>4. AtMost(v, D[k]) \in Nat /\ AtMost(p.limits.at[k], D[k]) \in Nat
            /\ AtMost(LimitAt(ch, 0, k), D[k]) \in Nat
        BY ONLY <2>2, <4>2, <4>3, AtMostTyped
      <4>5. AtMost(v, D[k]) <= AtMost(LimitAt(ch, 0, k), D[k])
        BY ONLY <3>1, <4>2, <4>3, <4>4
      <4>q. QED
        BY <4>2, <4>3, <4>5 DEF LimitFits, v
    <3>q. QED
      BY <3>2, <3>3
  <2>q. QED
    BY <2>1, <2>3, <2>4, <2>5
<1>q. QED
  BY <1>4, <1>5, <1>6, <1>7, <1>8, <1>10, <1>11, <1>12, <1>13 DEF HeldTo, m, ds

-----------------------------------------------------------------------------
(* What the runtime is given.                                               *)
Ceilings == [LimitKeys -> Nat \cup {Absent}]

LEMMA DefaultsTyped ==
  ASSUME NEW c \in Ceilings
  PROVE  LimitDefaults(c) \in [LimitKeys -> Nat]
<1>1. \A k \in LimitKeys : Default[k] \in Nat /\ (c[k] = Absent \/ c[k] \in Nat)
  BY ResolutionAssumption DEF Ceilings
<1>2. \A k \in LimitKeys : (IF c[k] = Absent THEN Default[k] ELSE Greater(Default[k], c[k])) \in Nat
  BY <1>1 DEF Greater
<1>q. QED
  BY <1>2 DEF LimitDefaults

LEMMA EnforcedIs ==
  ASSUME NEW c \in Ceilings, NEW l, NEW k \in LimitKeys, l[k] \in Bound
  PROVE  /\ AtMost(l[k], LimitDefaults(c)[k]) \in Nat /\ Enforced(l, c, k) \in Nat
         /\ Enforced(l, c, k) = IF c[k] = Absent THEN AtMost(l[k], LimitDefaults(c)[k])
                                ELSE Lesser(AtMost(l[k], LimitDefaults(c)[k]), c[k])
<1>1. Default[k] \in Nat /\ (c[k] = Absent \/ c[k] \in Nat) /\ LimitDefaults(c)[k] \in Nat
  BY ResolutionAssumption, DefaultsTyped DEF Ceilings
<1>2. LimitDefaults(c)[k] = IF c[k] = Absent THEN Default[k] ELSE Greater(Default[k], c[k])
  BY DEF LimitDefaults
<1>3. CASE l[k] \in {Absent, Null}
  BY <1>1, <1>2, <1>3 DEF Enforced, AtMost, Lesser, Greater
<1>4. CASE l[k] \notin {Absent, Null}
  <2>1. l[k] \in Nat
    BY <1>4 DEF Bound
  <2>q. QED
    BY <1>1, <1>4, <2>1 DEF Enforced, AtMost, Lesser
<1>q. QED
  BY <1>3, <1>4

LEMMA EnforcedTightens ==
  ASSUME NEW c \in Ceilings, NEW l, NEW u, NEW k \in LimitKeys, l[k] \in Bound, u[k] \in Bound,
         AtMost(l[k], LimitDefaults(c)[k]) <= AtMost(u[k], LimitDefaults(c)[k])
  PROVE  Enforced(l, c, k) <= Enforced(u, c, k)
<1>1. PICK a, b : a = AtMost(l[k], LimitDefaults(c)[k]) /\ b = AtMost(u[k], LimitDefaults(c)[k])
  OBVIOUS
<1>2. a \in Nat /\ Enforced(l, c, k) = IF c[k] = Absent THEN a ELSE Lesser(a, c[k])
  BY <1>1, EnforcedIs
<1>3. b \in Nat /\ Enforced(u, c, k) = IF c[k] = Absent THEN b ELSE Lesser(b, c[k])
  BY <1>1, EnforcedIs
<1>4. a <= b
  BY <1>1
<1>5. c[k] = Absent \/ c[k] \in Nat
  BY DEF Ceilings
<1>q. QED
  BY ONLY <1>2, <1>3, <1>4, <1>5 DEF Lesser

LEMMA EffectiveIs ==
  ASSUME NEW l, NEW c
  PROVE  LET e == EffectiveLimits(l, c)
         IN  /\ e \in [LimitKeys -> {e["total"], e["tool"]}]
             /\ e["total"] = Enforced(l, c, "total")
             /\ e["tool"] = IF c["tool"] = Absent /\ l["tool"] \in {Absent, Null}
                            THEN Lesser(Enforced(l, c, "tool"), Enforced(l, c, "total"))
                            ELSE Enforced(l, c, "tool")
  BY DEF EffectiveLimits, LimitKeys

LEMMA EffectiveTyped ==
  ASSUME NEW l, NEW c \in Ceilings, \A k \in LimitKeys : l[k] \in Bound
  PROVE  EffectiveLimits(l, c) \in [LimitKeys -> Nat]
<1> DEFINE e == EffectiveLimits(l, c)
<1>1. Enforced(l, c, "total") \in Nat /\ Enforced(l, c, "tool") \in Nat
  BY EnforcedIs DEF LimitKeys
<1>2. e["total"] \in Nat /\ e["tool"] \in Nat
  BY <1>1, EffectiveIs DEF Lesser
<1>3. e \in [LimitKeys -> {e["total"], e["tool"]}]
  BY EffectiveIs
<1> HIDE DEF e
<1>4. e \in [LimitKeys -> Nat]
  BY ONLY <1>2, <1>3
<1>q. QED
  BY <1>4 DEF e

LEMMA EffectiveTightens ==
  ASSUME NEW l, NEW u, NEW c \in Ceilings,
         \A k \in LimitKeys : l[k] \in Bound /\ u[k] \in Bound
              /\ AtMost(l[k], LimitDefaults(c)[k]) <= AtMost(u[k], LimitDefaults(c)[k]),
         EffectiveLimits(l, c)["tool"] <= EffectiveLimits(l, c)["total"]
  PROVE  \A k \in LimitKeys : EffectiveLimits(l, c)[k] <= EffectiveLimits(u, c)[k]
<1> DEFINE e == EffectiveLimits(l, c)
           f == EffectiveLimits(u, c)
<1>1. PICK a, b, x, y : /\ a = Enforced(l, c, "total") /\ b = Enforced(u, c, "total")
                        /\ x = Enforced(l, c, "tool") /\ y = Enforced(u, c, "tool")
  OBVIOUS
<1>2. a \in Nat /\ b \in Nat /\ x \in Nat /\ y \in Nat
  BY <1>1, EnforcedIs DEF LimitKeys
<1>3. a <= b /\ x <= y
  BY <1>1, EnforcedTightens DEF LimitKeys
<1>4. e["total"] = a /\ f["total"] = b
  BY <1>1, EffectiveIs
<1>5. (e["tool"] = x \/ e["tool"] = Lesser(x, a)) /\ (f["tool"] = y \/ f["tool"] = Lesser(y, b))
  BY <1>1, EffectiveIs
<1>6. e["tool"] <= e["total"]
  OBVIOUS
<1> HIDE DEF e, f
<1>7. e["total"] <= f["total"] /\ e["tool"] <= f["tool"]
  BY ONLY <1>2, <1>3, <1>4, <1>5, <1>6 DEF Lesser
<1>q. QED
  BY <1>7 DEF LimitKeys, e, f

-----------------------------------------------------------------------------
(* The invariant of a resolution.                                           *)
ChainFits == RootsShipped(chain) /\ Sound(chain) /\ (Shipped(chain) # {} => at \notin Importers)
StageFits ==
  /\ pc = "walk" => acc = Nothing /\ DOMAIN override = {} /\ (at = "none" => chain # <<>>)
  /\ pc = "fold" => /\ DOMAIN override = {} /\ left < Len(chain) /\ CaptureFits(chain, acc.audit)
                    /\ FoldFits(chain, left, acc, LimitDefaults(ceiling))
  /\ pc = "generic" => /\ DOMAIN override = {} /\ CaptureFits(chain, acc.audit) /\ acc.autonomy # ""
                       /\ FoldFits(chain, 0, acc, LimitDefaults(ceiling))
  /\ Defined => HeldTo(chain, override, acc, LimitDefaults(ceiling))
  /\ pc = "built" => limits = EffectiveLimits(acc.limits.at, ceiling) /\ limits["tool"] <= limits["total"]
ResolutionInv == TypeOK /\ ChainFits /\ StageFits

LEMMA CeilingTyped == TypeOK => ceiling \in Ceilings /\ LimitDefaults(ceiling) \in [LimitKeys -> Nat]
<1> SUFFICES ASSUME TypeOK PROVE ceiling \in Ceilings /\ LimitDefaults(ceiling) \in [LimitKeys -> Nat]
  OBVIOUS
<1>1. PICK f \in Families : ceiling \in f.ceilings
  BY DEF TypeOK
<1>2. ceiling \in Ceilings
  BY <1>1, ResolutionAssumption DEF Ceilings
<1>q. QED
  BY <1>2, DefaultsTyped

LEMMA FamilyTyped == TypeOK => family \subseteq RawDefinition
<1> SUFFICES ASSUME TypeOK PROVE family \subseteq RawDefinition
  OBVIOUS
<1>1. PICK f \in Families : family = f.declarations
  BY DEF TypeOK
<1>q. QED
  BY <1>1, ResolutionAssumption

LEMMA ResolutionInit == Init => ResolutionInv
<1> SUFFICES ASSUME Init PROVE ResolutionInv
  OBVIOUS
<1>1. TypeOK
  <2>1. /\ pc = "walk" /\ at \in PlatformRoles \cup Importers /\ chain = <<>> /\ acc = Nothing
        /\ left = 0 /\ override = <<>> /\ limits = Default
        /\ \E f \in Families : family = f.declarations /\ ceiling \in f.ceilings
    BY DEF Init
  <2>2. MaxDepth \in Nat \ {0} /\ Default \in [LimitKeys -> Nat]
    BY ResolutionAssumption
  <2>3. <<>> \in Seq([at : PlatformRoles \cup Importers, def : RawDefinition]) /\ Len(<<>>) = 0
        /\ <<>> \in Seq(RawDefinition)
    OBVIOUS
  <2>4. left \in 0 .. MaxDepth /\ Len(chain) <= MaxDepth
    BY ONLY <2>1, <2>2, <2>3
  <2>q. QED
    BY ONLY <2>1, <2>2, <2>3, <2>4, NothingTyped DEF TypeOK
<1>2. DOMAIN chain = {} /\ DOMAIN override = {}
  BY DEF Init
<1>3. Shipped(chain) = {}
  BY <1>2 DEF Shipped
<1>4. ChainFits
  BY <1>3 DEF ChainFits, RootsShipped, Sound
<1>5. StageFits
  <2>1. pc = "walk" /\ acc = Nothing /\ at # "none"
    BY ResolutionAssumption DEF Init
  <2>q. QED
    BY <1>2, <2>1 DEF StageFits, Defined
<1>q. QED
  BY <1>1, <1>4, <1>5 DEF ResolutionInv

LEMMA RejectKeeps == ResolutionInv /\ Reject => ResolutionInv'
<1> SUFFICES ASSUME ResolutionInv, Reject PROVE ResolutionInv'
  OBVIOUS
<1>1. /\ pc' = "error" /\ family' = family /\ ceiling' = ceiling /\ at' = at /\ chain' = chain
      /\ acc' = acc /\ left' = left /\ override' = override /\ limits' = limits
  BY DEF Reject
<1>2. TypeOK'
  BY <1>1 DEF ResolutionInv, TypeOK
<1>3. ChainFits'
  BY <1>1 DEF ResolutionInv, ChainFits
<1>4. StageFits'
  BY <1>1 DEF StageFits, Defined
<1>q. QED
  BY <1>2, <1>3, <1>4 DEF ResolutionInv

(* A chain that grows by a definition.                                      *)
LEMMA Grown ==
  ASSUME NEW ch \in Seq(Entry), NEW l \in PlatformRoles \cup Importers, NEW d \in RawDefinition,
         NEW p \in Parents(l) \cup {"none"}, RootsShipped(ch), Sound(ch),
         Shipped(ch) # {} => l \notin Importers,
         l \in PlatformRoles => \A k \in LimitKeys : d.limits.at[k] # Bad
  PROVE  LET g == Append(ch, [at |-> l, def |-> d])
         IN  /\ g \in Seq(Entry) /\ Len(g) = Len(ch) + 1 /\ RootsShipped(g) /\ Sound(g)
             /\ Shipped(g) # {} => p \notin Importers
<1> DEFINE g == Append(ch, [at |-> l, def |-> d])
           n == Len(ch) + 1
<1>1. [at |-> l, def |-> d] \in Entry
  BY DEF Entry
<1>2. g \in Seq(Entry) /\ Len(g) = n /\ Len(ch) \in Nat /\ DOMAIN ch = 1..Len(ch) /\ DOMAIN g = 1..n
  BY <1>1
<1>3. g[n] = [at |-> l, def |-> d] /\ \A i \in DOMAIN ch : g[i] = ch[i]
  BY <1>1
<1> HIDE DEF g
<1>4. \A i \in DOMAIN g : i = n \/ (i \in DOMAIN ch /\ i < n)
  BY <1>2
<1>5. g[n].at = l /\ g[n].def = d
  BY <1>3
<1>6. \A i \in DOMAIN g : i # n => (i \in Shipped(g) <=> i \in Shipped(ch))
  BY <1>2, <1>3, <1>4 DEF Shipped
<1>7. n \in DOMAIN g /\ (n \in Shipped(g) <=> l \notin Importers)
  BY <1>2, <1>5 DEF Shipped
<1>8. \A i \in Shipped(g) : l \notin Importers
  BY <1>4, <1>6, <1>7 DEF Shipped
<1>9. RootsShipped(g)
  <2>1. ASSUME NEW i \in Shipped(g), NEW j \in DOMAIN g, j > i
        PROVE  j \in Shipped(g)
    <3>1. CASE j = n
      BY <1>7, <1>8, <3>1
    <3>2. CASE j # n
      <4>1. j \in DOMAIN ch /\ j < n /\ i \in DOMAIN g
        BY <1>4, <3>2 DEF Shipped
      <4>2. i # n
        BY <1>2, <2>1, <4>1
      <4>3. i \in Shipped(ch)
        BY <1>6, <4>1, <4>2
      <4>q. QED
        BY <1>6, <2>1, <3>2, <4>1, <4>3 DEF RootsShipped
    <3>q. QED
      BY <3>1, <3>2
  <2>q. QED
    BY <2>1 DEF RootsShipped
<1>10. Sound(g)
  <2>1. ASSUME NEW i \in Shipped(g), NEW k \in LimitKeys
        PROVE  g[i].def.limits.at[k] # Bad
    <3>1. i \in DOMAIN g
      BY DEF Shipped
    <3>2. CASE i = n
      BY <1>5, <1>8, <3>2
    <3>3. CASE i # n
      <4>1. i \in Shipped(ch) /\ g[i] = ch[i]
        BY <1>3, <1>4, <1>6, <3>1, <3>3
      <4>q. QED
        BY <4>1 DEF Sound
    <3>q. QED
      BY <3>2, <3>3
  <2>q. QED
    BY <2>1 DEF Sound
<1>11. Shipped(g) # {} => p \notin Importers
  <2>1. PlatformRoles \cap Importers = {} /\ "none" \notin PlatformRoles \cup Importers
    BY ResolutionAssumption
  <2>2. l \notin Importers => p \in PlatformRoles \cup {"none"}
    BY DEF Parents
  <2>q. QED
    BY <1>8, <2>1, <2>2
<1>q. QED
  BY <1>2, <1>9, <1>10, <1>11 DEF g

LEMMA LoadKeeps == ResolutionInv /\ Load => ResolutionInv'
<1> SUFFICES ASSUME ResolutionInv, Load PROVE ResolutionInv'
  OBVIOUS
<1>1. CASE Reject
  BY <1>1, RejectKeeps
<1>2. CASE ~Reject
  <2>1. PICK d \in family, p \in Parents(at) \cup {"none"} :
          /\ at \in PlatformRoles => \A k \in LimitKeys : d.limits.at[k] # Bad
          /\ chain' = Append(chain, [at |-> at, def |-> d])
          /\ at' = p
    BY <1>2 DEF Load
  <2>2. /\ pc = "walk" /\ at # "none" /\ Len(chain) < MaxDepth
        /\ pc' = pc /\ family' = family /\ ceiling' = ceiling /\ acc' = acc /\ left' = left
        /\ override' = override /\ limits' = limits
    BY <1>2 DEF Load, Loadable
  <2>3. TypeOK /\ ChainFits /\ StageFits
    BY DEF ResolutionInv
  <2>4. d \in RawDefinition
    BY <2>3, FamilyTyped
  <2>5. chain \in Seq(Entry) /\ at \in PlatformRoles \cup Importers
    BY <2>2, <2>3 DEF TypeOK, Entry
  <2>6. RootsShipped(chain) /\ Sound(chain) /\ (Shipped(chain) # {} => at \notin Importers)
    BY <2>3 DEF ChainFits
  <2>7. LET g == Append(chain, [at |-> at, def |-> d])
        IN  /\ g \in Seq(Entry) /\ Len(g) = Len(chain) + 1 /\ RootsShipped(g) /\ Sound(g)
            /\ Shipped(g) # {} => p \notin Importers
    BY ONLY <2>1, <2>4, <2>5, <2>6, Grown
  <2>8. /\ chain' \in Seq(Entry) /\ Len(chain') = Len(chain) + 1 /\ RootsShipped(chain') /\ Sound(chain')
        /\ Shipped(chain') # {} => at' \notin Importers
    BY <2>1, <2>7
  <2>9. Len(chain) \in Nat /\ MaxDepth \in Nat
    <3>1. Len(chain) \in Nat
      BY ONLY <2>5
    <3>2. MaxDepth \in Nat
      BY ResolutionAssumption
    <3>q. QED
      BY <3>1, <3>2
  <2>10. Len(chain') <= MaxDepth
    BY ONLY <2>2, <2>8, <2>9
  <2>11. at' \in PlatformRoles \cup Importers \cup {"none"}
    BY <2>1 DEF Parents
  <2>12. TypeOK'
    BY <2>2, <2>3, <2>8, <2>10, <2>11 DEF TypeOK, Entry
  <2>13. ChainFits'
    BY <2>8 DEF ChainFits
  <2>14. chain' # <<>>
    BY ONLY <2>8, <2>9
  <2>15. StageFits'
    BY <2>2, <2>3, <2>14 DEF StageFits, Defined
  <2>q. QED
    BY <2>12, <2>13, <2>15 DEF ResolutionInv
<1>q. QED
  BY <1>1, <1>2

LEMMA ReadRoot == ResolutionInv /\ Root => ResolutionInv'
<1> SUFFICES ASSUME ResolutionInv, Root PROVE ResolutionInv'
  OBVIOUS
<1>1. CASE Reject
  BY <1>1, RejectKeeps
<1>2. CASE ~Reject
  <2> DEFINE d == chain[Len(chain)].def
  <2>1. /\ pc = "walk" /\ at = "none" /\ pc' = "fold" /\ acc' = RootOf(d) /\ left' = Len(chain) - 1
        /\ WellShaped(d)
        /\ chain[Len(chain)].at \in Importers => UnderCeiling(Nothing, d, LimitDefaults(ceiling))
        /\ family' = family /\ ceiling' = ceiling /\ at' = at /\ chain' = chain
        /\ override' = override /\ limits' = limits
    BY <1>2 DEF Root, Authored
  <2>2. TypeOK /\ ChainFits /\ StageFits
    BY DEF ResolutionInv
  <2>3. chain \in Seq(Entry) /\ chain # <<>> /\ DOMAIN override = {}
    BY <2>1, <2>2 DEF TypeOK, Entry, StageFits
  <2>4. RootsShipped(chain) /\ Sound(chain)
    BY <2>2 DEF ChainFits
  <2>5. ceiling \in Ceilings /\ LimitDefaults(ceiling) \in [LimitKeys -> Nat]
    BY <2>2, CeilingTyped
  <2>6. /\ RootOf(d) \in Resolved /\ CaptureFits(chain, RootOf(d).audit)
        /\ FoldFits(chain, Len(chain) - 1, RootOf(d), LimitDefaults(ceiling))
    BY ONLY <2>1, <2>3, <2>4, <2>5, RootKeeps
  <2>7. Len(chain) \in Nat \ {0} /\ Len(chain) <= MaxDepth /\ MaxDepth \in Nat
    <3>1. Len(chain) \in Nat \ {0}
      BY ONLY <2>3
    <3>2. Len(chain) <= MaxDepth /\ MaxDepth \in Nat
      BY <2>2, ResolutionAssumption DEF TypeOK
    <3>q. QED
      BY <3>1, <3>2
  <2>8. left' \in 0 .. MaxDepth /\ left' < Len(chain)
    BY ONLY <2>1, <2>7
  <2>9. TypeOK'
    BY <2>1, <2>2, <2>6, <2>8 DEF TypeOK
  <2>10. ChainFits'
    BY <2>1, <2>2 DEF ChainFits
  <2>11. StageFits'
    BY <2>1, <2>3, <2>6, <2>8 DEF StageFits, Defined
  <2>q. QED
    BY <2>9, <2>10, <2>11 DEF ResolutionInv
<1>q. QED
  BY <1>1, <1>2

LEMMA FoldNext == ResolutionInv /\ Fold => ResolutionInv'
<1> SUFFICES ASSUME ResolutionInv, Fold PROVE ResolutionInv'
  OBVIOUS
<1>1. CASE Reject
  BY <1>1, RejectKeeps
<1>2. CASE ~Reject
  <2> DEFINE raw == chain[left].def
             D == LimitDefaults(ceiling)
  <2>0. PICK d : d = IF Authored(left) THEN WithParentConditions(acc, raw) ELSE raw
    OBVIOUS
  <2>1. /\ pc = "fold" /\ left > 0 /\ pc' = "fold" /\ left' = left - 1
        /\ family' = family /\ ceiling' = ceiling /\ at' = at /\ chain' = chain
        /\ override' = override /\ limits' = limits
    BY <1>2 DEF Fold
  <2>2. /\ acc' = Folded(acc, d) /\ Foldable(acc, d)
        /\ chain[left].at \in Importers => UnderCeiling(acc, raw, D) /\ RulesUnderCeiling(acc, raw)
    BY <1>2, <2>0 DEF Fold, Authored
  <2>3. TypeOK /\ ChainFits /\ StageFits
    BY DEF ResolutionInv
  <2>4. /\ chain \in Seq(Entry) /\ DOMAIN override = {} /\ left < Len(chain)
        /\ CaptureFits(chain, acc.audit) /\ FoldFits(chain, left, acc, D) /\ acc \in Resolved
        /\ left \in 0 .. MaxDepth
    BY <2>1, <2>3 DEF TypeOK, Entry, StageFits
  <2>5. RootsShipped(chain) /\ Sound(chain)
    BY <2>3 DEF ChainFits
  <2>6. ceiling \in Ceilings /\ D \in [LimitKeys -> Nat]
    BY <2>3, CeilingTyped
  <2>7. left \in Nat /\ MaxDepth \in Nat
    <3>1. MaxDepth \in Nat
      BY ResolutionAssumption
    <3>q. QED
      BY ONLY <2>4, <3>1
  <2>8. Len(chain) \in Nat /\ DOMAIN chain = 1..Len(chain)
    BY ONLY <2>4
  <2>9. left \in DOMAIN chain /\ left' \in 0 .. MaxDepth /\ left' < Len(chain)
    BY ONLY <2>1, <2>4, <2>7, <2>8
  <2>10. Step(chain, left)
    BY <2>4, <2>9 DEF Step
  <2>11. d = raw \/ d = WithParentConditions(acc, raw)
    BY <2>0
  <2>12. /\ WellShaped(d) /\ StaysUntrusted(acc, d) /\ ConditionsKept(acc.rules, Folded(acc, d).rules)
         /\ RedactionKept(acc.audit, Folded(acc, d).audit)
    BY <2>2 DEF Foldable
  <2>13. acc.audit.keys \subseteq Folded(acc, d).audit.keys /\ CaptureFits(chain, Folded(acc, d).audit)
    BY <2>4, <2>12 DEF RedactionKept, CaptureFits
  <2>14. FoldFits(chain, left - 1, Folded(acc, d), D)
    BY ONLY <2>2, <2>4, <2>5, <2>6, <2>10, <2>11, <2>12, <2>13, FoldKeeps
  <2>15. d \in RawDefinition
    <3>1. raw \in RawDefinition
      BY <2>10, StepTyped
    <3>q. QED
      BY <2>4, <2>11, <3>1, DeclaredIs
  <2>16. Folded(acc, d) \in Resolved
    BY <2>4, <2>15, FoldedTyped
  <2>17. TypeOK'
    BY <2>1, <2>2, <2>3, <2>9, <2>16 DEF TypeOK
  <2>18. ChainFits'
    BY <2>1, <2>3 DEF ChainFits
  <2>19. StageFits'
    BY <2>1, <2>2, <2>4, <2>9, <2>13, <2>14 DEF StageFits, Defined
  <2>q. QED
    BY <2>17, <2>18, <2>19 DEF ResolutionInv
<1>q. QED
  BY <1>1, <1>2

LEMMA DefaultsAre ==
  ASSUME NEW p \in Resolved
  PROVE  LET g == WithDefaults(p)
         IN  /\ g \in Resolved /\ g.autonomy = EffectiveLevel(p.autonomy)
             /\ g.untrusted = (IF p.untrusted = "" THEN "false" ELSE p.untrusted)
             /\ g.permissions = p.permissions /\ g.rules = p.rules /\ g.audit = p.audit
             /\ g.limits = p.limits
<1>1. EffectiveLevel(p.autonomy) \in Levels \cup {""}
  BY ResolvedTyped DEF EffectiveLevel, Levels
<1>2. (IF p.untrusted = "" THEN "false" ELSE p.untrusted) \in {"", "true", "false"}
  BY ResolvedTyped
<1>q. QED
  BY <1>1, <1>2 DEF WithDefaults, Resolved

LEMMA DefaultsFit ==
  ASSUME NEW ch, NEW p \in Resolved, NEW D, FoldFits(ch, 0, p, D)
  PROVE  FoldFits(ch, 0, WithDefaults(p), D) /\ WithDefaults(p).autonomy # ""
<1>1. PICK g : g = WithDefaults(p)
  OBVIOUS
<1>2. /\ g.autonomy = EffectiveLevel(p.autonomy)
      /\ g.untrusted = (IF p.untrusted = "" THEN "false" ELSE p.untrusted)
      /\ g.permissions = p.permissions /\ g.rules = p.rules /\ g.audit = p.audit /\ g.limits = p.limits
  BY <1>1, DefaultsAre
<1>3. g.autonomy \in Levels /\ g.autonomy # "" /\ EffectiveLevel(g.autonomy) = g.autonomy
  BY <1>2, ResolvedTyped DEF EffectiveLevel, Levels
<1>4. LevelFits(ch, 0, g.autonomy)
  BY <1>2, <1>3 DEF FoldFits, LevelFits
<1>5. TrustFits(ch, 0, g.untrusted)
  BY <1>2 DEF FoldFits, TrustFits
<1>6. FoldFits(ch, 0, g, D)
  BY <1>2, <1>4, <1>5 DEF FoldFits
<1>q. QED
  BY <1>1, <1>3, <1>6

LEMMA GenericKeeps == ResolutionInv /\ Generic => ResolutionInv'
<1> SUFFICES ASSUME ResolutionInv, Generic PROVE ResolutionInv'
  OBVIOUS
<1>1. CASE Reject
  BY <1>1, RejectKeeps
<1>2. CASE ~Reject
  <2>1. /\ pc = "fold" /\ left = 0 /\ pc' = "generic" /\ acc' = WithDefaults(acc)
        /\ family' = family /\ ceiling' = ceiling /\ at' = at /\ chain' = chain
        /\ left' = left /\ override' = override /\ limits' = limits
    BY <1>2 DEF Generic
  <2>2. TypeOK /\ ChainFits /\ StageFits
    BY DEF ResolutionInv
  <2>3. acc \in Resolved /\ DOMAIN override = {} /\ CaptureFits(chain, acc.audit)
        /\ FoldFits(chain, 0, acc, LimitDefaults(ceiling))
    BY <2>1, <2>2 DEF TypeOK, StageFits
  <2>4. WithDefaults(acc) \in Resolved /\ WithDefaults(acc).audit = acc.audit
    BY <2>3, DefaultsAre
  <2>5. FoldFits(chain, 0, WithDefaults(acc), LimitDefaults(ceiling)) /\ WithDefaults(acc).autonomy # ""
    BY <2>3, DefaultsFit
  <2>6. CaptureFits(chain, WithDefaults(acc).audit)
    BY <2>3, <2>4
  <2>7. TypeOK'
    BY <2>1, <2>2, <2>4 DEF TypeOK
  <2>8. ChainFits'
    BY <2>1, <2>2 DEF ChainFits
  <2>9. StageFits'
    BY <2>1, <2>3, <2>5, <2>6 DEF StageFits, Defined
  <2>q. QED
    BY <2>7, <2>8, <2>9 DEF ResolutionInv
<1>q. QED
  BY <1>1, <1>2

LEMMA MergeKeeps == ResolutionInv /\ Merge => ResolutionInv'
<1> SUFFICES ASSUME ResolutionInv, Merge PROVE ResolutionInv'
  OBVIOUS
<1>1. CASE Reject
  BY <1>1, RejectKeeps
<1>2. CASE ~Reject
  <2> DEFINE D == LimitDefaults(ceiling)
  <2>1. PICK d \in family : /\ Narrows(acc, d, Merged(acc, d, D), D)
                            /\ acc' = Merged(acc, d, D) /\ override' = <<d>> /\ pc' = "resolved"
    BY <1>2 DEF Merge
  <2>2. /\ pc = "generic" /\ family' = family /\ ceiling' = ceiling /\ at' = at /\ chain' = chain
        /\ left' = left /\ limits' = limits
    BY <1>2 DEF Merge
  <2>3. TypeOK /\ ChainFits /\ StageFits
    BY DEF ResolutionInv
  <2>4. /\ acc \in Resolved /\ CaptureFits(chain, acc.audit) /\ acc.autonomy # ""
        /\ FoldFits(chain, 0, acc, D) /\ chain \in Seq(Entry)
    BY <2>2, <2>3 DEF TypeOK, StageFits, Entry
  <2>5. D \in [LimitKeys -> Nat] /\ d \in RawDefinition
    BY <2>3, CeilingTyped, FamilyTyped
  <2>6. DOMAIN override' = {1} /\ override'[1] = d /\ override' \in Seq(RawDefinition)
    BY <2>1, <2>5
  <2>7. HeldTo(chain, override', Merged(acc, d, D), D)
    BY <2>1, <2>4, <2>5, <2>6, MergeHeld
  <2>8. Merged(acc, d, D) \in Resolved
    BY <2>4, <2>5, MergedTyped
  <2>9. TypeOK'
    BY <2>1, <2>2, <2>3, <2>6, <2>8 DEF TypeOK
  <2>10. ChainFits'
    BY <2>2, <2>3 DEF ChainFits
  <2>11. HeldTo(chain', override', acc', LimitDefaults(ceiling)')
    BY <2>1, <2>2, <2>7
  <2>12. StageFits'
    BY <2>1, <2>11 DEF StageFits
  <2>q. QED
    BY <2>9, <2>10, <2>12 DEF ResolutionInv
<1>q. QED
  BY <1>1, <1>2

LEMMA WrappedIs ==
  ASSUME NEW p \in Resolved
  PROVE  LET g == [p EXCEPT !.limits = IF @.shape = "mapping" THEN @ ELSE NoLimits]
         IN  /\ g \in Resolved /\ g.autonomy = p.autonomy /\ g.untrusted = p.untrusted
             /\ g.permissions = p.permissions /\ g.rules = p.rules /\ g.audit = p.audit
             /\ \A k \in LimitKeys : g.limits.at[k] = p.limits.at[k]
<1>1. PICK l : l = IF p.limits.shape = "mapping" THEN p.limits ELSE NoLimits
  OBVIOUS
<1>2. l \in Limits /\ \A k \in LimitKeys : l.at[k] = p.limits.at[k]
  BY <1>1, ResolvedTyped, NoLimitsTyped, LimitTyped
<1>3. LET g == [p EXCEPT !.limits = l]
      IN  /\ g \in Resolved /\ g.autonomy = p.autonomy /\ g.untrusted = p.untrusted
          /\ g.permissions = p.permissions /\ g.rules = p.rules /\ g.audit = p.audit /\ g.limits = l
  BY <1>2 DEF Resolved
<1>q. QED
  BY <1>1, <1>2, <1>3

LEMMA WrapKeeps == ResolutionInv /\ Wrap => ResolutionInv'
<1> SUFFICES ASSUME ResolutionInv, Wrap PROVE ResolutionInv'
  OBVIOUS
<1>1. CASE Reject
  BY <1>1, RejectKeeps
<1>2. CASE ~Reject
  <2> DEFINE D == LimitDefaults(ceiling)
  <2>1. PICK g : g = [acc EXCEPT !.limits = IF @.shape = "mapping" THEN @ ELSE NoLimits]
    OBVIOUS
  <2>2. /\ pc = "generic" /\ NoT3(acc) /\ acc' = g /\ pc' = "resolved"
        /\ family' = family /\ ceiling' = ceiling /\ at' = at /\ chain' = chain
        /\ left' = left /\ override' = override /\ limits' = limits
    BY <1>2, <2>1 DEF Wrap
  <2>3. TypeOK /\ ChainFits /\ StageFits
    BY DEF ResolutionInv
  <2>4. /\ acc \in Resolved /\ CaptureFits(chain, acc.audit) /\ acc.autonomy # ""
        /\ FoldFits(chain, 0, acc, D) /\ chain \in Seq(Entry) /\ DOMAIN override = {}
    BY <2>2, <2>3 DEF TypeOK, StageFits, Entry
  <2>5. /\ g \in Resolved /\ g.autonomy = acc.autonomy /\ g.untrusted = acc.untrusted
        /\ g.permissions = acc.permissions /\ g.rules = acc.rules /\ g.audit = acc.audit
        /\ \A k \in LimitKeys : g.limits.at[k] = acc.limits.at[k]
    BY <2>1, <2>4, WrappedIs
  <2>6. FoldFits(chain, 0, g, D)
    BY <2>4, <2>5 DEF FoldFits
  <2>7. NoT3(g) /\ CaptureFits(chain, g.audit) /\ g.autonomy # ""
    BY <2>2, <2>4, <2>5 DEF NoT3
  <2>8. HeldTo(chain, override, g, D)
    BY <2>4, <2>6, <2>7, WrapHeld
  <2>9. TypeOK'
    BY <2>2, <2>3, <2>5 DEF TypeOK
  <2>10. ChainFits'
    BY <2>2, <2>3 DEF ChainFits
  <2>11. HeldTo(chain', override', acc', LimitDefaults(ceiling)')
    BY <2>2, <2>8
  <2>12. StageFits'
    BY <2>2, <2>11 DEF StageFits
  <2>q. QED
    BY <2>9, <2>10, <2>12 DEF ResolutionInv
<1>q. QED
  BY <1>1, <1>2

LEMMA BuildKeeps == ResolutionInv /\ Build => ResolutionInv'
<1> SUFFICES ASSUME ResolutionInv, Build PROVE ResolutionInv'
  OBVIOUS
<1>1. PICK e : e = EffectiveLimits(acc.limits.at, ceiling)
  OBVIOUS
<1>2. /\ pc = "resolved" /\ acc' = acc /\ family' = family /\ ceiling' = ceiling /\ at' = at
      /\ chain' = chain /\ left' = left /\ override' = override
      /\ \/ e["tool"] <= e["total"] /\ pc' = "built" /\ limits' = e
         \/ pc' = "refused" /\ limits' = limits
  BY <1>1 DEF Build
<1>3. TypeOK /\ ChainFits /\ StageFits
  BY DEF ResolutionInv
<1>4. HeldTo(chain, override, acc, LimitDefaults(ceiling))
  BY <1>2, <1>3 DEF StageFits, Defined
<1>5. e \in [LimitKeys -> Nat]
  <2>1. \A k \in LimitKeys : acc.limits.at[k] \in Bound
    BY <1>4 DEF HeldTo
  <2>q. QED
    BY <1>1, <1>3, <2>1, CeilingTyped, EffectiveTyped
<1>6. TypeOK'
  BY <1>2, <1>3, <1>5 DEF TypeOK
<1>7. ChainFits'
  BY <1>2, <1>3 DEF ChainFits
<1>8. HeldTo(chain', override', acc', LimitDefaults(ceiling)')
  BY <1>2, <1>4
<1>9. pc' = "built" => limits' = EffectiveLimits(acc'.limits.at, ceiling') /\ limits'["tool"] <= limits'["total"]
  BY <1>1, <1>2
<1>10. StageFits'
  BY <1>2, <1>8, <1>9 DEF StageFits
<1>q. QED
  BY <1>6, <1>7, <1>10 DEF ResolutionInv

LEMMA ResolutionStep == ResolutionInv /\ [Next]_vars => ResolutionInv'
<1> SUFFICES ASSUME ResolutionInv, [Next]_vars PROVE ResolutionInv'
  OBVIOUS
<1>1. CASE UNCHANGED vars
  BY <1>1 DEF vars, ResolutionInv, TypeOK, ChainFits, StageFits, Defined
<1>q. QED
  BY <1>1, LoadKeeps, ReadRoot, FoldNext, GenericKeeps, MergeKeeps, WrapKeeps, BuildKeeps DEF Next

-----------------------------------------------------------------------------
(* What the invariant says in the words of the properties.                  *)
LEMMA NearestIn ==
  ASSUME NEW S \in SUBSET Nat, S # {}
  PROVE  Nearest(S) \in S
<1>1. PICK x \in S : \A y \in S : ~(<<y, x>> \in OpToRel(<, Nat))
  BY WFMin, NatLessThanWellFounded, Zenon
<1>2. \A y \in S : x <= y
  <2> TAKE y \in S
  <2>1. x \in Nat /\ y \in Nat
    OBVIOUS
  <2>2. ~(y < x)
    BY <1>1, <2>1 DEF OpToRel
  <2>q. QED
    BY ONLY <2>1, <2>2
<1>q. QED
  BY <1>2 DEF Nearest

LEMMA SaidHere ==
  ASSUME NEW ch \in Seq(Entry), NEW S \in SUBSET (1..Len(ch)), NEW Of, NEW none
  PROVE  /\ Said(S, 0, Of, none) = IF S = {} THEN none ELSE Of[Nearest(S)]
         /\ S # {} => Nearest(S) \in S
<1>1. Len(ch) \in Nat
  OBVIOUS
<1>2. Said(S, 0, Of, none) = IF S = {} THEN none ELSE Of[Nearest(S)]
  BY ONLY <1>1, S \in SUBSET (1..Len(ch)), SaidAll
<1>3. S \in SUBSET Nat
  BY ONLY <1>1, S \in SUBSET (1..Len(ch))
<1>q. QED
  BY <1>2, <1>3, NearestIn

LEMMA PlatformIs == Platform = Shipped(chain)
  BY DEF Platform, Shipped, Authored

LEMMA PlatformLevelIs ==
  ASSUME chain \in Seq(Entry)
  PROVE  PlatformLevel = LevelAt(chain, 0)
<1> DEFINE S == LevelSpeakers(chain)
<1>1. S \in SUBSET (1..Len(chain)) /\ \A i \in S : i \in DOMAIN chain
  BY SpeakersBelow DEF LevelSpeakers, Shipped
<1>2. PlatformLevel = IF S = {} THEN "supervised" ELSE chain[Nearest(S)].def.autonomy
  BY PlatformIs DEF PlatformLevel, LevelSpeakers
<1>3. LevelAt(chain, 0) = IF S = {} THEN "supervised" ELSE LevelSays(chain)[Nearest(S)]
  BY ONLY chain \in Seq(Entry), <1>1, SaidHere DEF LevelAt
<1>4. S # {} => Nearest(S) \in DOMAIN chain
  BY ONLY chain \in Seq(Entry), <1>1, SaidHere
<1> HIDE DEF S
<1>q. QED
  BY <1>2, <1>3, <1>4 DEF LevelSays

LEMMA PlatformToIs ==
  ASSUME chain \in Seq(Entry)
  PROVE  PlatformTo = ToAt(chain, 0)
<1> DEFINE S == ToSpeakers(chain)
<1>1. S \in SUBSET (1..Len(chain)) /\ \A i \in S : i \in DOMAIN chain
  BY SpeakersBelow DEF ToSpeakers, Shipped
<1>2. PlatformTo = IF S = {} THEN "" ELSE chain[Nearest(S)].def.escalation.to
  BY PlatformIs DEF PlatformTo, ToSpeakers
<1>3. ToAt(chain, 0) = IF S = {} THEN "" ELSE ToSays(chain)[Nearest(S)]
  BY ONLY chain \in Seq(Entry), <1>1, SaidHere DEF ToAt
<1>4. S # {} => Nearest(S) \in DOMAIN chain
  BY ONLY chain \in Seq(Entry), <1>1, SaidHere
<1> HIDE DEF S
<1>q. QED
  BY <1>2, <1>3, <1>4 DEF ToSays

LEMMA PlatformWordsIs ==
  ASSUME chain \in Seq(Entry), NEW c
  PROVE  PlatformWords(c) = WordAt(chain, 0, c)
<1> DEFINE S == WordSpeakers(chain, c)
<1>1. S \in SUBSET (1..Len(chain)) /\ \A i \in S : i \in DOMAIN chain
  BY SpeakersBelow DEF WordSpeakers, Shipped
<1>2. PlatformWords(c) = IF S = {} THEN "" ELSE chain[Nearest(S)].def.escalation.words[c]
  BY PlatformIs DEF PlatformWords, WordSpeakers
<1>3. WordAt(chain, 0, c) = IF S = {} THEN "" ELSE WordSays(chain, c)[Nearest(S)]
  BY ONLY chain \in Seq(Entry), <1>1, SaidHere DEF WordAt
<1>4. S # {} => Nearest(S) \in DOMAIN chain
  BY ONLY chain \in Seq(Entry), <1>1, SaidHere
<1>5. CASE S = {}
  BY <1>2, <1>3, <1>5
<1>6. CASE S # {}
  <2>1. WordSays(chain, c)[Nearest(S)] = chain[Nearest(S)].def.escalation.words[c]
    BY ONLY <1>4, <1>6 DEF WordSays
  <2>q. QED
    BY ONLY <1>2, <1>3, <1>6, <2>1
<1>q. QED
  BY <1>5, <1>6

LEMMA PlatformLimitsAre ==
  ASSUME chain \in Seq(Entry), NEW k \in LimitKeys
  PROVE  PlatformLimits[k] = LimitAt(chain, 0, k)
<1> DEFINE S == LimitSpeakers(chain, k)
<1>1. S \in SUBSET (1..Len(chain)) /\ \A i \in S : i \in DOMAIN chain
  BY SpeakersBelow DEF LimitSpeakers, Shipped
<1>2. PlatformLimits[k] = IF S = {} THEN Absent ELSE chain[Nearest(S)].def.limits.at[k]
  BY PlatformIs DEF PlatformLimits, LimitSpeakers
<1>3. LimitAt(chain, 0, k) = IF S = {} THEN Absent ELSE LimitSays(chain, k)[Nearest(S)]
  BY ONLY chain \in Seq(Entry), <1>1, SaidHere DEF LimitAt
<1>4. S # {} => Nearest(S) \in DOMAIN chain
  BY ONLY chain \in Seq(Entry), <1>1, SaidHere
<1> HIDE DEF S
<1>q. QED
  BY <1>2, <1>3, <1>4 DEF LimitSays

LEMMA DeclarationsAre == Declarations = Declared(chain, override)
  BY DEF Declarations, Declared

LEMMA InvIsWritten == ResolutionInv => ResolvedAsWritten
<1> SUFFICES ASSUME ResolutionInv PROVE ResolvedAsWritten
  OBVIOUS
<1>1. chain \in Seq(Entry)
  BY DEF ResolutionInv, TypeOK, Entry
<1>2. Defined => HeldTo(chain, override, acc, LimitDefaults(ceiling))
  BY DEF ResolutionInv, StageFits
<1>3. AutonomyHeld
  BY <1>1, <1>2, PlatformLevelIs DEF AutonomyHeld, HeldTo
<1>4. LimitsHeld
  <2> SUFFICES ASSUME pc = "built", Mapped(override), NEW k \in LimitKeys
               PROVE  ~(limits[k] > EffectiveLimits(PlatformLimits, ceiling)[k])
    BY DEF LimitsHeld, LimitsLooser, Mapped
  <2>1. HeldTo(chain, override, acc, LimitDefaults(ceiling))
    BY <1>2 DEF Defined
  <2>2. limits = EffectiveLimits(acc.limits.at, ceiling) /\ limits["tool"] <= limits["total"]
    BY DEF ResolutionInv, StageFits
  <2>3. ceiling \in Ceilings
    BY CeilingTyped DEF ResolutionInv
  <2>4. PICK l, u : l = acc.limits.at /\ u = PlatformLimits
    OBVIOUS
  <2>5. \A j \in LimitKeys : l[j] \in Bound /\ u[j] \in Bound
          /\ AtMost(l[j], LimitDefaults(ceiling)[j]) <= AtMost(u[j], LimitDefaults(ceiling)[j])
    <3> TAKE j \in LimitKeys
    <3>1. LimitFits(chain, 0, j, l[j], LimitDefaults(ceiling)[j])
      BY <2>1, <2>4 DEF HeldTo
    <3>2. u[j] = LimitAt(chain, 0, j)
      BY <1>1, <2>4, PlatformLimitsAre
    <3>q. QED
      BY ONLY <3>1, <3>2 DEF LimitFits
  <2>6. EffectiveLimits(l, ceiling)["tool"] <= EffectiveLimits(l, ceiling)["total"]
    BY <2>2, <2>4
  <2>7. EffectiveLimits(l, ceiling)[k] <= EffectiveLimits(u, ceiling)[k]
    BY ONLY <2>3, <2>5, <2>6, EffectiveTightens, k \in LimitKeys
  <2>8. EffectiveLimits(l, ceiling)[k] \in Nat /\ EffectiveLimits(u, ceiling)[k] \in Nat
    <3>1. EffectiveLimits(l, ceiling) \in [LimitKeys -> Nat]
      BY ONLY <2>3, <2>5, EffectiveTyped
    <3>2. EffectiveLimits(u, ceiling) \in [LimitKeys -> Nat]
      BY ONLY <2>3, <2>5, EffectiveTyped
    <3>q. QED
      BY <3>1, <3>2
  <2>q. QED
    BY <2>2, <2>4, <2>7, <2>8
<1>5. UntrustedSticks
  BY <1>2, DeclarationsAre DEF UntrustedSticks, HeldTo, NoT3
<1>6. EscalationHeld
  BY <1>2, DeclarationsAre DEF EscalationHeld, HeldTo
<1>7. WordingHeld
  <2>1. ASSUME Defined, NEW i \in Platform, NEW c \in Requires(chain[i].def)
        PROVE  acc.rules.words[c] = PlatformWords(c)
    <3>1. PlatformWords(c) = WordAt(chain, 0, c)
      BY <1>1, PlatformWordsIs
    <3>q. QED
      BY <1>2, <2>1, <3>1, PlatformIs DEF HeldTo
  <2>2. Defined /\ PlatformTo # "" => acc.rules.to = PlatformTo
    BY <1>1, <1>2, PlatformToIs DEF HeldTo
  <2>q. QED
    BY <2>1, <2>2 DEF WordingHeld
<1>8. RedactionHeld
  <2>1. Defined => \A d \in Declarations : d.audit.kind # "inherit" /\ d.audit.lists
          => d.audit.keys \subseteq acc.audit.keys
    BY <1>2, DeclarationsAre DEF HeldTo
  <2>2. Defined /\ acc.audit.capture => RootCaptures(chain)
    BY <1>2 DEF HeldTo, CaptureFits
  <2>q. QED
    BY <2>1, <2>2 DEF RedactionHeld, RootCaptures, Authored
<1>9. PermissionsAsWritten
  <2> SUFFICES ASSUME Defined, NEW p \in Permissions
               PROVE  LET inChain == {i \in DOMAIN chain : Speaks(chain[i].def, p, FALSE)}
                          fromChain == inChain # {} /\ Gives(chain[Nearest(inChain)].def, p)
                          fromEdge == {i \in DOMAIN override : Speaks(override[i], p, TRUE)}
                      IN  p \in acc.permissions <=>
                            IF fromEdge # {} THEN Gives(override[1], p) ELSE fromChain
    BY DEF PermissionsAsWritten
  <2> DEFINE S == GrantSpeakers(chain, p)
             E == {i \in DOMAIN override : Speaks(override[i], p, TRUE)}
  <2>1. p \in acc.permissions <=> IF E # {} THEN Gives(override[1], p) ELSE GrantAt(chain, 0, p)
    BY <1>2 DEF HeldTo
  <2>2. S \in SUBSET (1..Len(chain)) /\ Len(chain) \in Nat
    BY <1>1, SpeakersBelow
  <2>3. After(S, 0) = S
    BY ONLY <2>2, AfterAll
  <2>4. GrantAt(chain, 0, p) <=> S # {} /\ Gives(chain[Nearest(S)].def, p)
    BY <2>3 DEF GrantAt
  <2>5. S = {i \in DOMAIN chain : Speaks(chain[i].def, p, FALSE)}
    BY DEF GrantSpeakers
  <2> HIDE DEF S, E
  <2>6. p \in acc.permissions <=>
          IF E # {} THEN Gives(override[1], p) ELSE S # {} /\ Gives(chain[Nearest(S)].def, p)
    BY <2>1, <2>4
  <2>q. QED
    BY <2>5, <2>6 DEF E
<1>q. QED
  BY <1>3, <1>4, <1>5, <1>6, <1>7, <1>8, <1>9 DEF ResolvedAsWritten, NeverLoosened

(* Type correctness of the walk, the fold and what the runtime is given.    *)
THEOREM ResolutionTypeCorrect == Spec => []TypeOK
<1>1. Init => ResolutionInv
  BY ResolutionInit
<1>2. ResolutionInv /\ [Next]_vars => ResolutionInv'
  BY ResolutionStep
<1>3. ResolutionInv => TypeOK
  BY DEF ResolutionInv
<1>q. QED
  BY <1>1, <1>2, <1>3, PTL DEF Spec

(* Whatever roles, agents and deployment are resolved together, however     *)
(* long the chain: autonomy, limits, trust, escalation, wording and         *)
(* redaction are never looser than what is declared above, and a permission *)
(* is held exactly when the nearest definition to speak of it grants it.    *)
THEOREM DefinitionsAreHeld == Spec => []ResolvedAsWritten
<1>1. Init => ResolutionInv
  BY ResolutionInit
<1>2. ResolutionInv /\ [Next]_vars => ResolutionInv'
  BY ResolutionStep
<1>3. ResolutionInv => ResolvedAsWritten
  BY InvIsWritten
<1>q. QED
  BY <1>1, <1>2, <1>3, PTL DEF Spec
=============================================================================

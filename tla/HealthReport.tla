--------------------------- MODULE HealthReport ----------------------------
(***************************************************************************)
(* GET /health and GET /ready (main.py health_report): the cached, locked  *)
(* probe of the model provider, the probes of PostgreSQL and Redis, the    *)
(* worker's liveness and the outbox backlog, read one after the other      *)
(* while all of them change.                                               *)
(***************************************************************************)
EXTENDS Naturals, Sequences, FiniteSets

CONSTANTS
    Requests,   \* health requests
    NoRequest,  \* the probe's lock is free
    Ttl,        \* _PROVIDER_PROBE_CACHE_TTL_S
    Horizon,    \* bound on the clock
    MaxChanges  \* bound: changes of what is being watched

ASSUME HealthAssumption ==
    /\ Ttl \in Nat \ {0} /\ Horizon \in Nat /\ MaxChanges \in Nat
    /\ NoRequest \notin Requests

VARIABLES
    clock,
    down,     \* which of the watched services is down
    worker,   \* the worker's loop task is alive
    backlog,  \* the outbox holds pending rows or expired leases
    changes,
    cached,   \* ProviderHealthProbe._cached: time and answer, or none yet
    lock,     \* who holds the probe's lock
    req,      \* where a request stands, what it read, what it found wrong
    since,    \* since when the provider has been down (history)
    sends,    \* times of the requests sent to the provider (history)
    trouble   \* what was wrong all along while a request ran (history)

healthVars == <<clock, down, worker, backlog, changes, cached, lock, req, since, sends, trouble>>
env == <<clock, down, worker, backlog, changes, since>>

Services == {"provider", "postgres", "redis"}
Fresh(now) == \E c \in cached : now < c.at + Ttl
Undrained(running, rows) == ~running /\ rows

Wrong == (down \ {"provider"})
         \cup (IF "provider" \in down /\ clock >= since + Ttl THEN {"provider"} ELSE {})
         \cup (IF Undrained(worker, backlog) THEN {"outbox"} ELSE {})

Idle == [pc |-> "idle", now |-> 0, running |-> FALSE, bad |-> {}, known |-> TRUE]

HealthInit ==
    /\ clock = 0 /\ changes = 0 /\ since = 0 /\ down = {}
    /\ worker \in BOOLEAN /\ backlog \in BOOLEAN
    /\ cached = {} /\ lock = NoRequest /\ sends = <<>>
    /\ req = [r \in Requests |-> Idle]
    /\ trouble = [r \in Requests |-> {}]

-----------------------------------------------------------------------------
(* The world changes while a report is put together.                        *)

Keep == trouble' = [r \in Requests |-> trouble[r] \cap Wrong']

Tick ==
    /\ clock < Horizon
    /\ \A r \in Requests : req[r].pc = "asking" => clock <= req[r].now  \* its 1 s timeout
    /\ clock' = clock + 1
    /\ UNCHANGED <<down, worker, backlog, changes, since, cached, lock, req, sends>> /\ Keep

Change ==
    /\ changes < MaxChanges /\ changes' = changes + 1
    /\ \/ \E s \in Services : /\ down' = (down \ {s}) \cup ({s} \ down)
                              /\ since' = IF s = "provider" THEN clock ELSE since
                              /\ UNCHANGED <<worker, backlog>>
       \/ worker /\ worker' = FALSE /\ UNCHANGED <<down, backlog, since>>
       \/ backlog' = ~backlog /\ UNCHANGED <<down, worker, since>>
    /\ UNCHANGED <<clock, cached, lock, req, sends>> /\ Keep

-----------------------------------------------------------------------------
Reach(r, pc) == req' = [req EXCEPT ![r].pc = pc]
Found(r, pc, bad) == req' = [req EXCEPT ![r].pc = pc, ![r].bad = @ \cup bad]
ProviderBad == {"provider" : c \in {x \in cached : ~x.up}}

Start(r) ==
    /\ req[r].pc = "idle"
    /\ req' = [req EXCEPT ![r] = [Idle EXCEPT !.pc = "probe"]]
    /\ trouble' = [trouble EXCEPT ![r] = Wrong]
    /\ UNCHANGED <<env, cached, lock, sends>>

\* The first look at the cache, without the lock.
Look(r) ==
    /\ req[r].pc = "probe"
    /\ IF Fresh(clock) THEN Found(r, "postgres", ProviderBad) ELSE Reach(r, "waiting")
    /\ UNCHANGED <<env, cached, lock, sends, trouble>>

\* Under the lock the clock is read again: whoever held it may have asked.
AskAnyway == FALSE
LookAgain == Fresh(clock)

Locked(r) ==
    /\ req[r].pc = "waiting" /\ lock = NoRequest
    /\ IF LookAgain
         THEN Found(r, "postgres", ProviderBad) /\ UNCHANGED <<lock, sends>>
         ELSE /\ lock' = r
              /\ sends' = Append(sends, clock)
              /\ req' = [req EXCEPT ![r].pc = "asking", ![r].now = clock]
    /\ UNCHANGED <<env, cached, trouble>>

\* Any answer means reachable; a timeout or an error means not.
Answer(r) ==
    /\ req[r].pc = "asking"
    /\ LET up == "provider" \notin down
       IN /\ cached' = {[at |-> req[r].now, up |-> up]}
          /\ Found(r, "postgres", IF up THEN {} ELSE {"provider"})
    /\ lock' = NoRequest
    /\ UNCHANGED <<env, sends, trouble>>

ProbePostgres(r) ==
    /\ req[r].pc = "postgres" /\ Found(r, "redis", {"postgres"} \cap down)
    /\ UNCHANGED <<env, cached, lock, sends, trouble>>

\* The worker's liveness is read right after Redis answered.
ProbeRedis(r) ==
    /\ req[r].pc = "redis"
    /\ req' = [req EXCEPT ![r].pc = "backlog", ![r].bad = @ \cup ({"redis"} \cap down),
                          ![r].running = worker]
    /\ UNCHANGED <<env, cached, lock, sends, trouble>>

\* The count fails with its database, or by itself: unknown never degrades.
CountBacklog(r) ==
    /\ req[r].pc = "backlog"
    /\ \/ /\ "postgres" \notin down
          /\ Found(r, "done", IF Undrained(req[r].running, backlog) THEN {"outbox"} ELSE {})
       \/ req' = [req EXCEPT ![r].pc = "done", ![r].known = FALSE]
    /\ UNCHANGED <<env, cached, lock, sends, trouble>>

Delivered(r) ==
    /\ req[r].pc = "done"
    /\ req' = [req EXCEPT ![r] = Idle]
    /\ trouble' = [trouble EXCEPT ![r] = {}]
    /\ UNCHANGED <<env, cached, lock, sends>>

HealthStep ==
    \/ Tick \/ Change
    \/ \E r \in Requests : \/ Start(r) \/ Look(r) \/ Locked(r) \/ Answer(r) \/ ProbePostgres(r)
                           \/ ProbeRedis(r) \/ CountBacklog(r) \/ Delivered(r)

HealthSpec == HealthInit /\ [][HealthStep]_healthVars

-----------------------------------------------------------------------------
(* What was wrong all the time a report was put together is in it: a        *)
(* service that was down, a provider down for longer than its answer is     *)
(* cached, an outbox nobody drains -- unless the backlog could not be read. *)
TroubleIsReported ==
    \A r \in Requests : req[r].pc = "done" =>
        trouble[r] \ (IF req[r].known THEN {} ELSE {"outbox"}) \subseteq req[r].bad

(* However many requests come, the provider is asked at most once per       *)
(* cache lifetime.                                                          *)
ProbesAreSpaced ==
    \A i \in 1..(Len(sends) - 1) : sends[i + 1] >= sends[i] + Ttl

HealthIsTrue == TroubleIsReported /\ ProbesAreSpaced
=============================================================================

# agents-system in TLA+

agents-system is a Python kit for running AI agents: it receives messages from chat channels,
answers each with one agent turn, and lets agents write first (proactive messages) and on a
schedule. What is hard to get right in it, and what this project is about: worker processes that share rows of
one PostgreSQL database, call a provider outside any transaction and may die between any two steps;
turns of one conversation that overlap, time out and save late; one user's data, erased and purged while turns go
on writing it; and merge rules by which a deployment may only narrow what an agent may do.

Paths below are relative to `src/src/agents_system/`.

## Inventory

| Component | State it keeps | Operations | Hard behaviour | What makes it correct | Module |
|---|---|---|---|---|---|
| Outbox (`services/outbox.py`, `models/outbox.py`) | `outbox_work` rows: status, lease, attempts, `available_at`, `outbound_body` | accept, claim, persist intent, complete, record failure, terminalize | commit order differs from `enqueued_at` order; expired and stale leases; lost commit acknowledgements | one lease per conversation, arrival order, at most one answer, attempts capped, every row settles | `Outbox`, `ReplyDelivery`, `OutboxDelivery` |
| Deferred webhook worker (`services/webhook_worker.py`) | the batch in hand, per message the step reached | poll loop, `process_claimed_work`, fallback, notifier | the provider call lies between transactions; crash at any point; turn longer than lease | writes only under its live lease; replays a committed answer instead of running the turn again | `Outbox`, `TurnEntry` |
| Retry policy, execution limits (`services/retry_policy.py`, `execution_limits.py`) | none | classify a failure, cap, backoff, turn fits lease | the cap used depends on who records the failure | a message stops at its cap | `Outbox`, `AgentTurn` |
| Webhook route, channels (`integration/webhook.py`, `channels/`), chat route (`integration/openai_adapter.py`) | none | authenticate, parse, accept each message, run a turn while the client waits | a delivery that fails half way and is redelivered | every acknowledged message kept once, each turn its sender's own | `TurnEntry` |
| Admission (`services/admission.py`) | slots in flight, waiters | try_acquire, acquire, release | slots reserved before the claim; a claim that fails; a wait that times out | never more turns than slots, no slot lost | `TurnEntry` |
| Agent turn (`agent/graph.py`) | messages, counters, thread history | gate, load, call model, execute tools, limits, save, record | an abandoned save that lands late; parallel tool calls; a turn cut at any node | ceilings hold, the model sees every call answered, a thread holds whole turns | `AgentTurn` |
| Interceptor, permissions (`harness/interceptor.py`, `harness/injector.py`, `permissions/`) | registry | equip a runtime, allow or refuse a call | permissions that change between the build and the call | nothing runs that grants, caller and role do not all allow | `ToolGate` |
| Usage (`usage.py`, `services/usage_postgres.py`) | ledger | record, totals, reached_cap | check before, write after; day and month windows | bounded overshoot | `AgentTurn` |
| Definitions (`harness/loader.py`, `harness/factory.py`) | none after load | walk a chain, fold, merge overrides, validate | order of directives, chains that meet themselves | nothing loosened, permissions as last written | `RoleResolution` |
| Checkpoints (`services/checkpointer.py`) | LangGraph tables | purge, prune, delete a thread | a purge in several statements beside a save | the latest checkpoint and its blobs survive | `ThreadRetention` |
| User memory (`user_memory.py`, `services/user_facts_postgres.py`) | facts of one user | remember, list, touch, forget, evict, purge | unlocked touch and forget | the cap holds, expired facts go | `UserMemory` |
| Subject data (`subject_data.py`, `integration/operator_api.py`) | registry of stores | delete, purge | one store failing, a turn still writing | what is reported erased was, what failed is told, retention is enforced | `SubjectErasure` |
| Proactive delivery (`proactive.py`, `services/proactive_postgres.py`) | `proactive_outbox` rows; a dispatcher's run | submit, run_once, delete, purge | ambiguous sends, lapsed leases, two limit checks at once, revocation while queued, quiet hours over midnight | delivered at most once, nothing reached is forgotten, limits and quiet hours kept | `Proactive` |
| Schedules (`schedules.py`, `services/schedules_postgres.py`) | `subject_schedules` rows; a runner's run | create, delete, run_once | two runners, late claims, outage, zone changes, delete during a run | a window runs once, on the grid, no burst, cap per user | `ScheduledTurns` |
| Audit sink (`audit/sink.py`) | bounded queue, pending batch, dropped count; the sequence counters | record, drain, reserve, flush, stop | cancel in mid-batch, full queue, several processes reserving ranges | gapless order per correlation, an honest dropped count, no lock cycle | `AuditSink` |
| Application start (`main.py`) | exit stack, process-wide sink, Redis pool, proactive store | check, boot, serve, tear down | a boot that fails half way, two applications in one process | what serves was checked, what was opened is closed in order | `AppLifespan` |
| Health (`main.py`) | cached provider probe and its lock | `/health`, `/ready` | concurrent requests, a stale answer | trouble is reported, the provider is not flooded | `HealthReport` |
| Operator and command tools (`connectors/operator.py`, `connectors/command_tools.py`) | one process group | declare, call, spawn, drain, kill, reap | cancellation during the spawn | the answer is true, only what was declared runs, nothing outlives its call | `CommandRun`, `CommandTool` |
| SQL guard and query (`services/sql_guard.py`, `services/sql_query.py`, `services/db_role.py`) | one transaction | scan, check, role check, fetch | nesting that makes the parser blow up; grants that drift; budgets between fetches | the query stays inside its relations, the answer says when it was cut | `SqlGuard`, `QueryRun` |
| Evaluation harness (`evals/runner.py`, `evals/matrix.py`) | the borrowed sink; results directory | run a scenario, grade, gate, tabulate, export | runs that raise or time out, exports of one second | a guardrail that passes was tried, the sink is handed back | `EvalRun`, `EvalMatrix` |
| Scopes, retrieval, reports, metrics, schema | - | - | none of their own, or PostgreSQL's | - | not modelled |

Interactions: the webhook route writes `outbox_work` and returns; workers take a slot, claim it, run a turn (model,
tools, checkpointer, usage, audit) and send through the channel. A chat request takes a slot and runs its turn while the
client waits. Scheduled runners run a turn of
the same runtime and hand its reply to the proactive sender; proactive dispatchers send through the
same channels. Erasure of a subject deletes from every registered store, while workers, runners and
dispatchers may be holding that subject's rows.

## Modules and the code they stand for

### Outbox

`row[m]` is the `outbox_work` row of a message, `task[w][m]` is where `process_claimed_work` of worker `w`
stands on it. `sends`, `alerts` and `notice` are observations: what reached the provider, how often the
operator was notified, the audited fate of the fallback. Time is a countdown, so it is
unbounded: `lease` is `lease_expires_at - now`, `avail` is `available_at - now`. A lease is live while
strictly positive and may be claimed again when strictly negative, as in the two comparisons of the
code; at exactly zero neither holds.

| Action | Code |
|---|---|
| `BeginAccept`, `CommitAccept`, `AbortAccept` | the transaction of `accept_inbound_message`; `before` is the order of `enqueued_at`, whose default `now()` is the start of the transaction |
| `Claim`, `ClaimUnacknowledged` | `process_available` and `claim_available_outbox_work`: select, terminalize the exhausted, lease the rest, commit; the second is a commit whose acknowledgement is lost |
| `Load`, `RunTurn`, `PersistIntent`, `Send`, `Complete` | the steps of `process_claimed_work`, each with its error paths |
| `RecordFailure` | `_record_failure` with `record_outbox_failure`: cap, fallback intent, backoff |
| `Notify`, `SendFallback`, `AuditFallback` | terminal notifier, the one send of the fallback, its audit event |
| `Crash` | stop or death of the process: leases stay, the hand is empty |
| `Tick` | database time |

An error is nondeterministic where any exception may be raised: retryable or permanent, with or
without the channel's binding, with or without the fallback, as the raising step allows. A commit that
raises may have landed.

### ReplyDelivery and OutboxDelivery

`ReplyDelivery` is the promise without workers, leases or time: a message is accepted, gets at most one
answer which is fixed before it is sent, may be delivered again, and ends completed or failed; the
fallback notice is sent once at most and only after a failure. `OutboxDelivery` maps the rows onto it;
`DeliverySpec` is safety, `DeliveryFairSpec` adds that every accepted message settles.

### Proactive

`msg[m]` is the row of `proactive_outbox`, `task[w]` a dispatcher's `run_once`, which reads the clock once
(`now`) and uses that reading for every limit, lease and deferral. `sent[m]` lists when the message
reached the provider. `Fenced` chooses between the PostgreSQL queue, whose `finish` and `defer` write
only rows the worker owns, and the in-memory one, which writes whoever owns them. `Prompt` says that a
run takes no time: the assumption under which limits reckoned from claims are limits on sends.
`Erasures` allows `delete` and `purge`. `Revoke` stands for the deployment withdrawing a recipient
or the grant, which the code reads through interfaces it does not implement.

One action per step of the run: `StartRun`, `ExpireLeases`, `Claim` (which expires again first, as the queue
does), `CheckPermission`, `Authorize`, `GuardRecipient`, `GuardRuntime` (two separate reads of the queue, with
time and other dispatchers between them), `Send`, `Finish`, `Defer`; `Crash` at any of them.

### ScheduledTurns

`row[s]` is a schedule, `task[w]` a runner's `run_once`. Creation has the steps the code has: checks against
one reading of the clock (`Ask`), the count under the subject's advisory lock (`Count`), the insert
(`Insert`), or a rolled-back transaction (`Abort`). `ClaimDue` moves the row to its next window in the claiming
transaction; `Check`, `Authorize`, `RunTurn`, `Deliver`, `Record` follow. Recurrences are every so many
ticks, or a wall-clock time on some days, in a zone that is `Offset(d)` ticks ahead on day `d`; `NextAfter` and
`Following` are the code's. `turns` and `queued` are observations: which windows ran, which replies were
handed to the sender.

### TurnEntry

The two ways a turn starts, sharing the slots of one `TurnAdmissionLimiter`. A delivery (`post[p]`): `Receive` checks body, signature and
shape, `Store` accepts its messages one by one and stops at the first that fails, and the provider may `Redeliver`. The
worker, one of them: `Reserve` takes slots, `Claim` leases rows and gives back what it did not use, all of it when it raises, though its
commit may have landed: then its rows stay leased and no slot is kept for them. `RunTurn`, `Replay` (a committed reply is sent as it is), `NoTurn` and
`TurnFails` end a row's turn and free its slot, but not always its lease: it also stays leased when the failure could not be recorded, until a later claim
takes it again or finds its attempts spent (`spent`). So slots follow what the worker has in hand, not the leases. A chat request (`chat[c]`): `Request` is every check up to the user's, `Resolve`, `Admit` or
`WaitedTooLong`, `Reply` or `Drop`. What a claimed row goes through (leases, retries, order) is Outbox's.

### AgentTurn and ToolGate

`ToolGate` is the arithmetic of permissions without state: what the injector equips (`Surface`), what the interceptor lets through at
each call (`Allowed`), and what the two promise together (`RunIsCovered`). `AgentTurn` extends it with turns of one thread. `turn[t]` holds the step, the
graph state, the history read; `store` the checkpoints, `late` the abandoned saves that may still land; `ledger` the tokens of each
window (a day, a month; `NewWindow`). Actions follow `run_turn`: `FirstGate`, `Load`, `Gate`, `Answer` and `AnswerRetry` (the model, with its
format-error retry), `ToolCall` for each call of a batch in any order, `ToolsDone`, `Stop` (a limit or the budget ends the
turn with a text), `Timeout`, `Save`, `Put`, `Land`, `Record`; `Crash` is cancellation or death. `beside` says what ran beside
a turn, so a property can say what is promised when turns of a thread do not overlap.

### RoleResolution

`resolve` from leaf to root and back. `Load` reads one definition of the chain and refuses a cycle, a missing parent or a chain that is too
long; `Root` and `Fold` give the child's fields precedence under the rules of its edge (a predefined role adds to its parent, an
importer's agent may only tighten safety); `Generic`, `Merge` apply a deployment's definition; `Wrap` and `Build` give the limits a
runtime enforces. Permissions, limits, escalation rules, audit policy, autonomy, trust, tools and commands are modelled; each takes the forms a file may give it
(absent, a value, a directive, a malformed one). A family of declarations varies one field over a chain, because a
field's fold reads no other field.

### UserMemory, ThreadRetention, SubjectErasure

`UserMemory`: `RememberRead`, `RememberPut`, `RememberCommit` in one transaction under the advisory lock, `List` and `ListPurge` likewise;
`Touch`, `Forget`, `Delete`, `Sweep` are single statements without it; `Abandon` rolls back. `ThreadRetention`: `SaveRead` and
`SavePut` of a turn, one action per statement of the purge (`PurgeIdle` to `PurgeBlobs`) with its commit, each reading what is committed when it starts.
`SubjectErasure`: `Ask`, `DeleteStore`, `DeleteThread`, `Finish` of an operator's request over a registry of stores, the purger's rounds, and the
writes (`Write`) of turns that go on. `SubjectData` composes the three for any constants: they share no state, and each behaviour is one's.
`MCSubjectData` is its small instance.

### AuditSink

`sink[p]` is a process's queue, batch, counters and drainer; `table`, `counter` and the row locks are shared. `Record` drops when the queue is full;
the drainer `Get`s a batch, `Reserve`s a range per correlation in one order, `Commit`s or `FlushFails`; `BeginStop`, `Drain`, `EndStop` and `StopTimesOut` are
`stop`; a cancelled flush may still `Land`; `Crash` and `Start` restart a process.

### AppLifespan, HealthReport

`AppLifespan` is `create_app`'s checks (`Accepted`) and the lifespan: one action per resource in boot order, each pushing its callback on the exit stack, `Fail` at any
await, `Unwind` newest first, a raising callback not keeping the others from running. Two applications share the registered
sink, the Redis pool and the proactive store. `HealthReport` is one action per probe of `health_report`, beside a cache and a lock
that requests share and changes of what is being watched.

### CommandRun and CommandTool, SqlGuard and QueryRun

`CommandTool` is what a manifest may declare and what becomes of a model's input; `CommandRun` one call from `Refuse` or `StartSpawn` to its answer: the shielded spawn, which is
a task of its own (`Fork`, `Spawned`), output drained, timeout, cancellations at any await, kill and reap, or a kill armed for a
spawn that has not ended. `SqlGuard` scans tokens one by one as the source's loop does, and says which statements are `Guarded`: parsed,
resolved, rendered and validated again. `QueryRun` runs one: role check, gated cursor, fetches within rows and
bytes, rollback, with grants that `Drift` and errors at any step.

### EvalRun and EvalMatrix

`EvalRun` is one scenario: the sink borrowed, its runs and turns, events flushed and settled, `Graded` by the assertions, the `Gate`
over all runs, the sink handed back whatever ended it. A call id may be used again, by another tool or in another turn, as `_blocked_tool_names` reads it. The fixed
replies of `max_tool_calls` and `max_tool_errors` are kept apart from the calls (`reached`), for the assertions and the signals that ask for them: a guardrail may be tried by a
limit alone. `EvalMatrix` builds candidates (closing the earlier ones' clients when one
fails), runs each model's columns, makes a cell of each, and exports beside other jobs of the same second.

### How they are put together

`Outbox` implements `ReplyDelivery` through `OutboxDelivery`. `AgentTurn` extends `ToolGate`, `CommandRun` extends `CommandTool`, `QueryRun` extends `SqlGuard`,
`EvalMatrix` extends `EvalRun` and uses its gate. `TurnEntry` composes the two routes, the worker and the limiter, which interact through slots and rows. Three MC modules put components side by
side that share no state: `MCPlatform` (application start, health, command, scan, query, scenario, matrix, entry), `SubjectData` (instances of `UserMemory`,
`ThreadRetention` and `SubjectErasure`, with its instance `MCSubjectData`) and `MCSchedulePlaces` (two instances of `ScheduledTurns`). There a variable `part`, chosen at the start, says which component a behaviour is about, and
the others rest; no property relates two parts.

## Runs

Every run disables the deadlock check: all these systems may stop (everything settled, sent, deleted, every turn ended, or
the clock at its horizon). Each property has a mutant in `PROJECT.json`: a plausible bug in a mapped
definition under which the property fails in the same run.

| Run | Instance (distinct states) | Shows |
|---|---|---|
| `fencing` | 2 messages of one conversation, 2 workers, overlapping accepts, 1 attempt by policy and 2 by claim (577 247) | one answer (`OneAnswerPerMessage`), no second turn after a commit, sends bounded, one lease per conversation, no write outside the live lease (`FencedByLease`), every step implements `ReplyDelivery` |
| `order` | 2 messages of one conversation accepted one after the other, attempts within their lease (60 185) | arrival order and one turn at a time (`ServedInOrder`), every message settles (`DeliveryFairSpec`) |
| `wedge` (violated) | 2 messages, overlapping accepts | an older sibling that commits late and an expired lease block each other for ever |
| `once` | 1 message, 2 dispatchers, lease of 1, quiet hours over midnight, erasures (55 716) | at most once, the record of what was reached true and final (`RecordIsTrue`), what is revoked or judged in quiet hours unsent and deferred to their end (`RefusedStaysUnsent`), lapsed is settled |
| `guard` | 3 messages, 2 recipients, 2 dispatchers, limits 1 and 2, quiet every other tick, prompt runs (3 215 384) | two dispatchers checking at once never exceed a limit, nothing is sent in quiet hours (`GuardHolds`) |
| `schedules` | 1 schedule with 2 runners, intervals, daily and weekly; or 3 schedules of one user for one place with 1 runner (159 252) | a window runs once, on the grid and with no burst after an outage (`RunsOnTime`), the cap under concurrent creates, deleted stays deleted, due windows are claimed |
| `trail` | 2 processes, 2 correlations, 5 events, queue of 1, batches of 2 (247 530) | sequences gapless and in order, every loss counted, no cycle of locks, no event stays in a running sink for ever |
| `turns` | 2 turns of one thread, batches of 2 and 1 calls, ceilings of 1, day and month caps (425 830) | what the model reads is well formed, the thread is true (whole turns, calls that ran are visible, nothing forgotten, saved in context), calls within grants, spend bounded, every turn ends |
| `roles` | chains of up to 3 over 2 predefined roles and 2 importer agents, a family per field, with and without a deployment (1 163 008) | a resolved definition loosens nothing and says what was last written; every resolution ends |
| `subject` | 2 facts and 1 place, 1 thread with 2 saves, 2 stores and 1 request (21 527) | facts bounded, the latest checkpoint readable, an erasure's report true; a checkpoint saved during the purge survives it; retention is enforced |
| `process` | the eight parts of `MCPlatform` (1 333 935) | slots and entries true, `LifespanSafe`, `HealthIsTrue`, `CommandsSafe` and `CommandsEnd`, `QuerySafe`, `EvaluationIsHonest` |
| `silence` (violated) | the entry part, a turn that says nothing | an empty reply is answered with an earlier turn's text |

Merged properties name their parts: `LifespanSafe` is `TeardownOrdered` and `ServedIsChecked`; `QuerySafe` is `ScanCountsAll`, `QueryContained` and `AnswerHonest`;
`CommandsSafe` is `AnswersAreTrue` and `RunsAsDeclared`; `EvaluationIsHonest` is `EvalIsHonest`, `TableIsTrue`, `NoClientLeaks` and `ExportsStand`; `SubjectDataTrue`
is one part of each of the three modules; `GuardHolds` is `WithinLimits` and `QuietIsKept`; `RecordIsTrue` is `ReachedIsRecorded` and `FinishedIsFinal`;
`RefusedStaysUnsent` is `RevokedStaysUnsent`, `QuietWhenRead` and `DeferralEnds`; `RunsOnTime` is `CadenceKept` and `NoCatchUp`.

### Disagreements between the code and what it says

`wedge` and `silence` are findings in `PROJECT.json`, with the quoted line. More configurations are
kept here and are refuted the same way (`tlc -config MC<Module>_<name>.cfg MC<Module>`); they are not part of the list of
runs. A row that names the configuration of a passing run is refuted under its constants, with its `INVARIANTS` replaced by that one property:

| Configuration | Refuted | What the code does | What is said |
|---|---|---|---|
| `MCOutbox_fencing` | `IndexNeverFires` | the pending query orders by `enqueued_at`, the start of the accepting transaction, so a message that commits late becomes the oldest sibling after a later one was leased; claiming it hits the unique index and rolls back the batch (`services/outbox.py:233`) | `alembic/versions/004_outbox_conversation_key.py:29`: "this index never fires in the intended code path" |
| `MCOutbox_fencing` | `AttemptsWithinPolicy` | a claim is capped by the most generous policy of all bindings and a failed completion is recorded under the default one (`services/webhook_worker.py:223`, `:569`) | `services/retry_policy.py:168`: "``max_attempts`` is the most times a work item runs" |
| `MCProactive_memory` | `LapsedNeverQueued` | the in-memory queue's `defer` and `finish` write whoever owns the row (`proactive.py:283`) | `proactive.py:153`: "it becomes ``ambiguous``, never queued" |
| `MCProactive_seconds` | `QuietUntilEnds` | the end of the quiet hours loses its seconds (`proactive.py:317`) | `proactive.py:308`: "When quiet hours end, if ``now`` falls inside them." |
| `MCProactive_window` | `WithinLimits` | an attempt is reckoned by its claim: a send late in its run falls in a window it was not counted in (`proactive.py:269`) | `proactive.py:174`: "Messages the provider may have been reached for, since ``since``." |
| `MCScheduledTurns_late` | `RunsFarApart` | a window run late, within the grace, is followed by the next on time (`schedules.py:229`) | `schedules.py:98`: "The shortest gap between two runs, in seconds." |
| `MCScheduledTurns_season` | `AcceptedIsNotQuiet` | only the first window is checked against quiet hours, which have a zone of their own (`schedules.py:497`) | `docs/platform/schedules.md:34`: "A schedule whose time of day falls inside quiet hours is refused when it is created." |
| `MCScheduledTurns_ends` | `EndsWhenDeleted` | a schedule deleted while its turn runs still queues the reply (`schedules.py:780`) | `docs/platform/schedules.md:72`: "a schedule ends when it is deleted or when its owner is deleted" |
| `MCScheduledTurns_stale` | `LastRunAdvances` | a slow run's outcome overwrites a later run's (`services/schedules_postgres.py:263`) | `docs/platform/schedules.md:66`: "the last one is also stored on the schedule as `last_status`" |
| `MCAgentTurn_turns` | `LateSaveIsKept` | a save that lands after the next turn read the thread is left out by that turn's own save | `agent/graph.py:1053-1055`: "the thread then holds this turn, whole, exactly as if the save had answered in time" |
| `MCRoleResolution_roles` | `DeploymentRestricts` | a deployment's limit is held below the platform default too, but a role's own limit above it is replaced upward where the baseline allows (`harness/loader.py:3792`) | `docs/platform/deployment.md:118`: "A deployment can only restrict or specialize. It can never elevate." |
| `MCRoleResolution_roles` | `UnsetToolFits` | a tool limit neither sets is taken before the turn's own is lowered | `agent/graph.py:396-397`: "a turn lowered below the 10 s default does not outlast its own tool call" |

Four more definitions state what a comment or a document says and are refuted when a run's `INVARIANT`s or `PROPERTY`s are replaced by them: `UserMemory` `UsesKept` (a remember
writes back the uses it read, `user_memory.py:232`), `CommandRun` `WorkspaceOutlivesCommand` (a second cancellation during the
spawn lets the command start after its workspace is gone, `connectors/command_tools.py:195`), `EvalRun` `EventsAreOwn` (an event flushed late is graded in the next
run, `evals/runner.py:1349`), and `EvalMatrix` `ReportsStand` (two reports of one second overwrite each other, `evals/reporting.py:37`; the matrix export does not).

Met while modelling, and not stated as properties: an application whose lifespan runs twice with a scope provider fails the second time, because its
registry keeps the stores of the first; `_blocked_tool_names` gives a blocked result to the last call that bears its id; a build error ends a whole scenario instead of one run;
a run that raises is never graded, so a forbidden call of an earlier turn of it does not count, though one of a run cut short by its timeout does
(`evals/runner.py:1397`, `:1430`; the proof of `GuardrailProves` met both this and the shared ids, and the property now says which runs it is about);
`guardrail_exercised` replaces every other signal, so a forbidden call in a run that is not exercised does not count; a command tool's parameter
without `max_length` has no bound of its own (`harness/loader.py:886`), though the message at `:892` says "max_length is optional but not unbounded"; the chat
route reads its answer as the worker does (`integration/openai_adapter.py:191`).

### Bounds, and why they are enough

- Two workers, dispatchers, runners, processes or turns: the code coordinates them only through one row's lease, owner, lock or one thread, so every conflict is between two
  holders, the present and an earlier one. The theorems below remove the bound where they apply.
- Two messages of one conversation are the smallest case of ordering, and a message waits only for older ones.
- Attempts of 1 by policy against 2 by claim keep the caps different. `Lease` is 1, or 2 where
  `Timely` needs a step before the end. `RetryMax` 1 keeps the backoff choice 0 or 1.
- `Outbox` has no bound on time: countdowns stop at zero. In `Proactive` and `ScheduledTurns` the clock stops at `Horizon`:
  2 or 3 ticks let a lease lapse and a limit's window pass; the 6 ticks of `schedules` are two days of 3 and
  three intervals of 2, enough for a claim that skips windows. `once` has days of 3 ticks, quiet from
  tick 2 over midnight to tick 1, and a clock from 1 to 4: open, both sides of midnight, and open again the next day, so a run may read the clock before, inside and after
  the hours and send across their start. `Unlimited` is a count of 9, above the number of messages.
- `trail`: a queue of 1 fills at once and batches of 2 hold two correlations, the smallest case of a lock order.
- `turns`: a batch of 2 calls under a ceiling of 1 is the overshoot; the day's cap is 1 and the month's 2, so one ends before the other.
- `roles`: chains of 3 have a root, a middle and a leaf; `MaxDepth` is 3, so a cycle meets both checks.
- `subject`: one fact fits and two compete; the retention of 1 tick passes within the horizon; two stores, one of which fails.
- `process`: two applications, one started twice; three clock values around a time to live of 2; two cancellations; texts of 5 tokens under caps of 3; results of 3
  rows under a limit of 2; at most 3 runs of a scenario; three models; one chat request and two deliveries that share messages over two slots.
- Symmetry is over workers, replies and messages of one recipient, in runs without liveness only.

### Fairness

`Outbox`: each step of an attempt is weakly fair (a task that is not cancelled goes on; model and provider
calls have timeouts), the claim is strongly fair (the poll loop runs for the life of the process, but its claim
is enabled only between batches and while the row is unleased), a transaction that began
ends, time passes. Crashes are never fair, and can happen for ever: that every message settles then rests on the cap in the claim.
`Proactive` and `ScheduledTurns`: steps of a run are weakly fair, and now and then a run gets to its first queue operation
(strong fairness of `ExpireLeases`, `ClaimDue`), since a deployment calls `run_once` in a loop. The clock is not fair: no
liveness property depends on its going on.
`AuditSink`: the drainer's steps are weakly fair, and `Reserve` strongly, because PostgreSQL grants a row lock that is released again and again to who waits for it.
`AgentTurn`: each step of a turn is weakly fair (every await has a timeout). `RoleResolution`: the next step of a function. Subject data: a
remember that wrote commits; the purger's loop goes on; the sweep and each statement of the purge are strongly fair, since they are
retried at each interval. `OldRowsGo` assumes of a store that its own purge succeeds now and then, and nothing of the others.
`CommandRun`: the code's own steps only; a command need not end by itself, and nobody need cancel it.

### Assumptions about what lies outside

The saver's `put` is atomic; PostgreSQL resolves a name by the schema the renderer wrote; the SQL renderer writes the schema the resolver
set; the `as` token stands for both of sqlglot's (alias and dot) where the scan treats them alike; no clock runs differently in two processes.


## Proofs

`tlapm` checks them for any sets of messages, workers, schedules, turns, processes, apps or tools, any caps and limits, from the
named assumptions on the constants only: `NoOwner` is no worker, `Fallback` is no reply, `NoRequest` is no request, lengths are
natural numbers, what is counted is finite (workers of the outbox, processes of the sink, chat requests), a delivery brings a
sequence of messages and no sender is named `unresolved:<id>` (`DeliveriesAssumption`; Meta's senders are phone numbers, and
the key of a message without one is of that form); an entry of a manifest has the fields `_parse_command_tool_entry` gives it
(`ManifestAssumption`), a relation a schema and a name, a row its two sizes, and the renderer writes the schema of each relation that
was resolved (`StatementAssumption`). A theorem that holds for some configurations only says
so: `ASSUME Fenced` in `FinishedForGood` and `RecordStaysTrue` (the PostgreSQL queue), `ASSUME Prompt, ~Erasures` in `GuardAlwaysHolds` (the clock does not advance
between the guards and the send), `ASSUME ~Overlap, Timely` in
`ServedInArrivalOrder` (accepting transactions one after another, attempts that end within their lease). Each of these is
the configuration of the run that checks the property; without them the property is false, as `MCProactive_window` and `wedge` show.

`OutboxProofs`
- `TypeCorrect`. One lemma for each kind of record update, then one per action.
- `AnswersAreCommitted` (`OneAnswerPerMessage`) and `FallbackSentOnce`. The property alone is not inductive: a worker
  that holds another text than its row would break it with its next send. `AnswerInv` adds `RowsOK` (only
  an open row is leased, only an accepted row has a body, only a failed row the fallback's) and
  `TasksOK` (what a worker holds at "load" or "send" is the row's body; one worker at most is about
  to send the fallback, and it was not sent yet). That a body never changes follows row by row from `RowStep`, which every
  action satisfies.
- `SettledForGood` (`SettledIsFinal`), from the same `RowStep`.
- `ConversationLeasedOnce` (`OneLeasePerConversation`), though accepting transactions commit in any order. `LeaseInv` adds
  `RowsOrdered`: of two rows one arrived before the other, so one claim takes at most one row of a conversation, and
  the unique index refuses a claim next to another lease.
- `LeaseFences` (`FencedByLease`): while a lease is live, an action that changes its row is the owner's, because each write of the
  code repeats the owner and the expiry in its WHERE clause and a claim takes only what is free or expired.
- `AlertsAndNoticesAreTrue` (`AlertsAreTrue`, which no run repeats): the operator is alerted of a message once at most and only of
  a durable failure, and no audit claims a fallback delivery that did not happen. `AlertInv` speaks of the worker that has yet to
  alert: it is the only one, the row has failed, nobody was told. A failed row is never claimed again, so none follows it.
- `ReplyNeverRecomputed` (`NoRerunAfterCommit`). `KnowsInv`: the owner of a live lease knows the reply of its row from its claim
  on, so it never starts the agent on a row that has one.
- `SendsAreBounded` (`SendsBounded`). `SendsInv` counts the workers as well: each one between its claim and its send took an attempt
  the row has recorded, so sends done and sends still possible stay below the attempts. It counts a set of workers, hence the
  assumption that there are finitely many.
- `ServedInArrivalOrder` (`ServedInOrder`), under `~Overlap` and `Timely`. `OrderInv`: a row that is leased has no unsettled row
  of its conversation before it. `TimelyInv`: a worker in an attempt still owns a lease that has not expired. With
  `ConversationLeasedOnce`, two workers in turns of one conversation are one worker with one message.
- `ImplementsDelivery` (`DeliverySpec`): the initial state maps to the promise's, and each step to a step or a stutter,
  under `AnswerInv`.

`ProactiveProofs`
- `TypeCorrect`. `Typed` adds that a run past its claim holds a message (`HoldsOne`).
- `DeliveredAtMostOnce` (`AtMostOnce`) and `ReachedStaysRecorded` (`ReachedIsRecorded`), for both queues. `OnceInv` says per message: one run at
  most is busy with it before its result, while one is, the row is not waiting, and nothing was sent before it
  reaches its send; a run that ends after a send holds "sent" or "ambiguous".
- `FinishedForGood` (`FinishedIsFinal`): a row owned by a dispatcher is still `sending`, so the fenced `finish` and `defer`
  touch no finished row. With `ReachedStaysRecorded` it gives `RecordStaysTrue` (`RecordIsTrue`).
- `QuietHoursJudged` (`QuietWhenRead`), for runs of any length, where `GuardHolds` needs `Prompt`. `JudgedInv`: a run past the guard holds a reading of the clock
  outside the quiet hours and not ahead of the clock, so a message goes out in quiet hours only when they began after that reading. With prompt runs the reading is
  the time of the send (`AtOnce`), which `GuardAlwaysHolds` uses.
- `RevokedIsNeverSent` (`RevokedStaysUnsent`), for both queues: `Barred` holds of a message whose recipient was revoked before its
  dispatcher asked, and no step from there reaches the provider.
- `RefusedIsNeverSent` (`RefusedStaysUnsent`): the last two, and `DeferralsEnd`: whole minutes lose no seconds, so `quiet_until` is the first moment after the
  hours, today's or, when they began today and run over midnight, tomorrow's (`EndOfHours`; `TimeOfDay` and `DayOf` read a time as days and a time of the day).
- `GuardAlwaysHolds` (`GuardHolds`, the limits and the quiet hours together, under `Prompt` and without erasures), for both queues. The
  hard part is that two dispatchers may count at once and both pass. `Dated` ties each send to the claim it is reckoned from; `Sure`
  is a message that was sent or whose run passed its guard, and `Tally` counts the sure ones of a window. `LimitInv` says that the
  tally never exceeds the limit: a guard that passes counted every claim of the window, its own included, so of two runs the later
  one sees the earlier. The count is of finite sets, and a window that ends is shown not to admit a message it excluded.

`ScheduledTurnsProofs`, for any schedules, owners, runners, recurrences, offsets and quiet hours, from `ScheduleAssumption`
- `TypeCorrect`. The hard part is that the next window exists: any seven days in a row hold one the recurrence asks for, so
  the nine days `next_after` tries hold a later wall time (`ClockWindow`, `NextIsLater`, `FollowingIsLater`).
- `OneTurnPerWindow` (`WindowRunsOnce`) and `NeverCatchesUp` (`NoCatchUp`). `WindowsInv` relates the turns started and the runs
  that may still start one: each took a window that was the row's next one, at a moment before the row's next one of
  now, so any two are `Apart`: different windows, the earlier one claimed before the later one was due. A row
  not created yet has neither (`NothingYet`).
- `CapAlwaysHeld` (`CapHeld`). `CapInv`: one create of a user at most is between its count and its insert, and its count still holds.
- `CadenceAlwaysKept` (`CadenceKept`). `CadenceInv` says of the window of every pending run too that it is on the grid; `WallDay`
  bounds the days a wall time can belong to. `AlwaysOnTime` (`RunsOnTime`) joins it with `NeverCatchesUp`: it is what the run checks.
- `DeletedForGood` (`DeletedStaysDeleted`), from what the steps write to a row.

`PlatformProofs`, of `TurnEntry`, for any chat requests, deliveries, redeliveries, channels, directory, slots and limits
- `SlotsAreCounted` (`SlotsAreTrue`). `SlotInv` adds the shape of the state: above all that a worker holds rows or a reservation, never
  both, so that a claim gives back the reservation less the rows it was told of, and that what it holds is leased; the converse is false, since rows stay leased after a claim or a
  failure record that was not acknowledged. The slots of the chats are the cardinality of the running
  ones, which a step changes by one at most.
- `BothEntriesAreTrue` (`EntriesAreTrue`). `PostInv` says of a delivery that is being stored that all its messages before the next one
  are in the inbox, and of an acknowledged one that all are; every attempt has the same delivery in hand. `KeptInv` says of a row that it is
  the first message of its id in a delivery that passed every check (`Written`): a later one with the same id would have found
  it there. With that the sender of the turn the worker extracts again from the stored envelope is the one the row was filed under.
  `AnswerInv` ties rows that are done to replies and gives a row one at most: a turn runs only where no reply is committed, and one that says nothing is recorded only as its row is
  done, which is claimed no more. `GateInv` a waiting chat request to the checks behind it.

`AuditSinkProofs`, for any finite set of processes, any correlations, events, queue and batch sizes
- `TypeCorrect`, and with it that the queue keeps its bound.
- `FlushesNeverDeadlock` (`NoLockCycle`), for cycles of any length. `LockInv`: the rows a flush holds are below the one it wants next,
  because it takes them in sorted order; along processes that wait for each other what they want climbs (`WaitsClimb`), so the
  one that wants most of a finite set waits for none of them.
- `LossesAreCounted` (`LossCounted`). `LossInv`: the events a sink was given are those written, those held and those counted; a
  commit whose acknowledgement is lost counts events that did land, so the count may be high and never low.
- `TrailReadsBack` (`TrailInOrder`). `OrderInv` adds that what a process holds was emitted after what it wrote (`HeldInOrder`) and in
  order (`EmittedInOrder`), and the ranks a landing gives continue the counter of the correlation it holds the row of.
- `LastBatchIsComplete` (`NothingStranded`, which no run lists): a sink whose drainer made its last sweep is closed and its queue empty. `SealInv`
  follows the steps of `stop` and the drainer that let the last sweep begin.

`AppProofs`, for any apps, runtimes, deployments, requests, times to live and declarations, chains of any length
- `ReportsAreTrue` (`HealthIsTrue`). `LockInv`: one request at most is between the lock and its release; `AskedInv` and `CacheInv`: what a
  request reports of the provider was asked or cached within its time to live; `FoundInv`: what was wrong all the time a
  report was put together is in it, since every probe of it read the trouble; the probes of the provider are spaced by the time to live.
- `BootAndTeardownAreSafe` (`LifespanSafe`) and `LifespanTypeCorrect`. The exit stack of an app is strictly ordered by how deep in the boot a resource
  lies, so what unwinds is what nothing open needs (`NeedsBelow`); each phase of a boot knows the checks behind it (`Checked`), and the
  sink, pool and store two apps share belong to one that still holds its callback (`SharedOK`). The proof attempt
  found that an app without agents boots whatever budgets it is given (`main.py:828` checks them only where registrations are
  planned), although `docs/platform/end-user-scope.md:130` says that a budget naming a runtime that is not built fails the boot: `ServedIsChecked`
  says what the code does.
- `DefinitionsAreHeld` (`ResolvedAsWritten`) and `ResolutionTypeCorrect`. `FoldFits` relates what chain[m + 1], ... fold to with what those definitions
  say, field by field: the level, limits and wording of the nearest platform role that speaks (`Said`), the permissions of the nearest
  definition that does, all conditions and redacted keys. A step of the fold moves m down by one, past a speaker or not (`SaidSelf`, `SaidSkip`), and
  the root is a fold onto `Nothing`. It needs that no platform role lies below an importer's agent (`RootsShipped`), so that a platform role's own words are
  still all there is to say. `HeldTo` says the same of what the deployment leaves. That the tool limit is not looser needs the
  check at start: a limit an agent sets for its tools may outlast the turn of the platform's defaults until `Build` refuses it.

`PlatformProofs`, of `CommandRun` and `QueryRun`, for any manifests, calls, role policies, statements, rows, limits and texts
- `CommandsAreSafe` (`CommandsSafe`). `CallInv`: where a call stands tells how far its spawn has come and what it will
  answer (`StandsWhere`), and what an ended call has answered stays true of what is left behind (`EndedWell`: only a cancelled one leaves a spawn that may
  still fork). `AskedInv` follows a call from the loaded manifest: the tool called is the one declaration of its name
  (`OneDeclaration`), and an input that fits fills the template as declared, one argument for one parameter (`FillsAsDeclared`).
- `QueriesAreContained`. `ReachInv`: only a guarded statement gets past the guard and only a safe role past the check. What a guarded
  rendering reads is what it names (`GuardedReads`), and a safe role could have reached nothing else (`SafeContains`).
- `AnswersAreHonest`. `FetchInv`: the rows kept are the first of the result and fit both limits. The sizes are sums over
  a sequence: a recursive function is taken apart at the least place where a claim about it fails, since the induction theorems cannot be cited.
- `ScansCountAll`. The specification of the scan says which brackets are open by a grammar over the whole text (`Closed`: a stretch is empty, or a plain
  token and a stretch, or a bracketed stretch and a stretch), the code keeps a stack. The grammar is shown to be unambiguous (`StretchRule`, `StretchStops`,
  `StretchSplits`, `StretchesJoin`), so the openers of a text that stay open are those that cut it into closed stretches (`Marks`), and
  `ScanInv` says that they are the levels of the stack (`LevelsFit`) and that the count is the sum of the reads (`ReadsGrow`). It also has to bound a chain of subscripts (`Deep`):
  a level that a subscript re-opens lies below the one just closed.
- `QueriesAreSafe` (`QuerySafe`): the three for one query as a whole.

`PlatformProofs`, of `EvalRun` and `EvalMatrix`, for any scenarios, turns, models, columns, run results and exports
- `EvaluatedHonestly` (`EvalIsHonest`). A guardrail that passes was tried: by a call of what it is about, or by a limit that was reached where its scenario asks for one. Each outcome is what its own script and end are graded to (`GradedFrom`), whatever events were seen. A graded run
  that did what is forbidden was therefore one the guardrail was tried in, and failed (`BrokenCounts`), so the gate refuses it. A held one called
  what the scenario is about (`HeldIsAbout`). A script is finite, so the last bearer of a call id exists (`BearerIn`).
- `EvaluationsAreHonest` (`EvaluationIsHonest`). The cells are numbered row by row, and a number tells its model and column as no other does (`CellPlaced`,
  `PairsDiffer`, `CellNumbered`). `TableInv`: below the next number a cell says what was run for its pair, at it part of the cases has been run,
  above it nothing has. `ExportsInv`: a name has one file, so what a job unlinks is the file it created itself. The assumptions say that
  what stands for a sequence is one, and that no job is called as the files there before.

`SubjectDataProofs`, for any turns, facts, threads, retentions, stores, subjects and requests
- `SubjectDataHolds` (`SubjectDataTrue`) and `SubjectDataTyped`, from one invariant per part.
  `MemoryInv`: of the calls that remember, only the holder of the lock is under way (`LockHeld`), and what it is going to commit fits
  (`CommitFits`), counted over the facts live by now: the statements that take no lock, the sweep and the clock only take facts away
  or touch them (`NoneGained`), so the eviction computed at the put still leaves room at the commit.
  `ThreadInv`: of every checkpoint that stays there is a later one of its thread, or itself, whose blob stays (`Readable`). That holds in the tables and
  in what they will be once the purge under way commits, while saves and deletes go on beside it (`PurgeRight`): a turn that has not put yet
  wrote no row and no purge marked one (`Unwritten`), ids and times grow together (`Ordered`), so what is not older than the cutoff keeps its successors,
  and a latest checkpoint is the only one of its thread (`LatestIs`), so the prune of lower versions spares its blob.
  `ErasureInv`: of every place a request has been to it knows that nothing is left, that it failed, or that a turn wrote there since (`Told`), and the
  threads it means are its subject's (`Own`).
- `LatestAlwaysKept` (`LatestKept`). What a purge has marked was older than the cutoff, or is overtaken by a later checkpoint that is still there.

`AgentTurnProofs`, for any turns, tools, permissions, grants and ceilings
- `GateCovers`: a call the interceptor lets through is covered by the turn's permissions, whatever the gate was given.
- `RunsAreCovered` (`RanWithinGrants`): a call is added to `ran` only by the step that asked the gate, so the set stays
  covered.
- `SpendStaysBounded` (`SpendBounded`). While turns of the subject do not overlap, what the ledger holds and what the turn
  has used fit the cap together, and a call starts only below it (`SpendInv`): each call comes after a gate that found room for it.
- `RequestsWellFormed` (`ModelInputWellFormed`). The messages of a thread are `Tidy`: a reply answers one call of the ask right before
  it, no call twice. `Close` keeps that and answers the calls left open (`CloseTidy`): what `FlattenSeq` and `Interrupted`
  yield is shown at the least place where a claim about them fails, then each message is followed to its place in the result (`Spread`). A
  trimmed history starts on a message that is no reply, so what is left is tidy and answered too (`TidyRest`, `RequestsAccepted`).
- `ThreadsTrue` (`ThreadIsTrue`) and `TurnsTyped`. `ThreadInv` has three parts. `TurnsGood`: the messages of a turn under way are its own (`Own`: its user message,
  then rounds of calls numbered apart), and every call that ran stands in one of them, through batches half done and deadlines.
  `SavesGood`: everything saved, being saved or left to land holds whole turns, each past its save, with the calls that ran. `InOrder`, while
  nothing ran beside a turn: one turn at a time, saves that extend each other in the order of their ids, and a turn that is being saved has seen
  all that is stored. A step that does not save only has to keep its own turn good (`MovesKeep`); the five that do are proved one by one.

The type invariants of `Outbox`, `Proactive`, `ScheduledTurns`, `AgentTurn`, `AuditSink`, `AppLifespan`, `RoleResolution` and `SubjectData` are proved, and those of `TurnEntry` and `HealthReport`
as parts of the invariants above, as are `SettledIsFinal` and `NothingStranded`, which no
run lists.

Every safety property of a run is proved. Only model-checked: every liveness property (`RetentionHolds`, `DeliveryFairSpec`, `LapsedIsSettled`, `EveryEventLeaves`, `EveryTurnEnds`,
`ResolutionEnds`, `DueIsClaimed`, `CommandsEnd`): the prover has no rule for `ENABLED`, so fairness is out of its reach. No module uses RECURSIVE.

### What is left to prove and to compose

In this order: `ScheduledTurns` feeding `Proactive` (the reply of a window reaches the user at
most once, whatever dies), then an abstract promise that `Proactive` implements as `Outbox` implements `ReplyDelivery`.

## Not modelled

- Simplified: `TurnEntry` has one worker, since its slots are those of one process, and what several do to each other's rows is `Outbox`'s; so a row it let go of while leased comes back to the
  same worker, at any time. `AgentTurn` keeps the grants of a turn constant: a permission revoked during a turn is not modelled (`ToolGate` has the one revoked between the build of a
  runtime and its turn). `SubjectErasure` and `ThreadRetention` delete a thread in one step, where the saver library issues three deletes.
  `EvalRun` knows the limit of tool errors by its default reply, as `_tool_errors_were_reached` does; a deployment's own `tool_error_reply`, which the code does not recognise, is left out.
- Left out of the modelled parts: the conversation recorder port of the worker (best effort, no
  effect on the row), counters, logs and traces, the attempt's audit events of proactive delivery, exports and lists,
  the text of outcomes, clock differences between processes (the outbox uses the database's clock
  only; dispatchers and runners read their own), several rows locked by two processes at once outside the sink (the database
  aborts one of them, which is `Abandon` in `Outbox`).
- `InMemoryScheduleStore` has no await between what it reads and what it writes and counts under the scope's lock, so
  its steps are the ones of the PostgreSQL store that `ScheduledTurns` models; nothing distinguishes the two. The same holds of
  the in-memory thread, fact and outbox stores.
- `ToolGate` leaves out an interceptor without permissions of its own (only tests build one), and `AgentTurn` a turn without a checkpointer
  (it behaves as one whose load failed).
- `RoleResolution` leaves out the merging of model, prompt, context and skill fields (the last word wins, with no limit to hold) and the order
  of additions and removals inside one mapping; files are read before it starts.
- `AuditSink.drain()` serves tests only.
- Prompt composition in the factory, reply-text assertions and the live harness of the evaluations, the subscription handshake of the
  webhook, the wire formats of the channels, scopes and row security (enforced by PostgreSQL), retrieval, fixed reports, the other
  connectors, migrations and settings are string processing, I/O or wiring without interleaving of their own.
  `PROJECT.json` gives the reason for each.

------------------------------- MODULE Outbox -------------------------------
(***************************************************************************)
(* The durable message path of agents-system: a webhook message is          *)
(* committed to outbox_work (services/outbox.py), claimed under a lease by  *)
(* one of several DeferredWebhookWorker processes (services/                *)
(* webhook_worker.py), answered by one agent turn, sent, and settled.       *)
(*                                                                          *)
(* Time is kept as countdowns, so that it never has to be bounded: `lease'  *)
(* is lease_expires_at - now (negative: expired) and `avail' is             *)
(* available_at - now (0: available).  A NULL lease is owner = NoOwner; the *)
(* code writes lease_owner and lease_expires_at together.  `before' is the  *)
(* order of enqueued_at: the rows whose accepting transaction began         *)
(* earlier, because the column's default now() is the transaction's start.  *)
(* A failed row stands for failed_at and its audit event, which commit      *)
(* together.                                                                *)
(***************************************************************************)
EXTENDS Integers, FiniteSets

CONSTANTS
  Messages,     \* inbound message ids; each has at most one work row
  ConvOf,       \* the conversation_key of each message
  Workers,      \* worker processes (a restart takes the place of a dead one)
  Replies,      \* texts an agent turn may produce
  Fallback,     \* the policy's fallback_reply
  NoBody,       \* outbound_body IS NULL
  NoOwner,      \* lease_owner IS NULL
  PolicyMax,    \* max_attempts of each message's channel binding
  DefaultMax,   \* max_attempts of a failure recorded without a binding
  ClaimMax,     \* the worker's _claim_max_attempts
  ClaimLimit,   \* the most rows one claim takes (reserved admission slots)
  Lease,        \* DEFAULT_LEASE_DURATION in ticks
  RetryMax,     \* _RETRY_MAX_SECONDS in ticks
  Overlap,      \* may two accepting transactions of a conversation overlap
  Timely        \* do attempts end within their lease (execution_limits.py)

Bodies == Replies \cup {Fallback}

ASSUME BodyAssumption == /\ Fallback \notin Replies
                         /\ NoBody \notin Bodies
ASSUME OwnerAssumption == NoOwner \notin Workers /\ IsFiniteSet(Workers)
ASSUME LeaseAssumption == Lease \in Nat \ {0}
ASSUME PolicyAssumption ==
  /\ PolicyMax \in [Messages -> Nat \ {0}]
  /\ DefaultMax \in Nat \ {0}
  /\ ClaimMax \in Nat \ {0}
  /\ \A m \in Messages : PolicyMax[m] <= ClaimMax
ASSUME BoundAssumption == /\ ClaimLimit \in Nat \ {0}
                          /\ RetryMax \in Nat
                          /\ Overlap \in BOOLEAN
                          /\ Timely \in BOOLEAN

VARIABLES
  row,      \* outbox_work, one row per message
  task,     \* process_claimed_work of each worker on each message
  sends,    \* how often each body reached the provider for a message
  alerts,   \* how often the terminal notifier ran for a message
  notice    \* the webhook_fallback_reply audit event of a message

vars == <<row, task, sends, alerts, notice>>

Statuses == {"absent", "inserting", "open", "completed", "failed"}
Settled  == {"completed", "failed"}

(* A recorded failure: may it be retried, does it carry the channel's       *)
(* binding (and so its policy), and is the end user to be told.             *)
Faults == [retryable : BOOLEAN, bound : BOOLEAN, notice : BOOLEAN]
NoFault == [retryable |-> TRUE, bound |-> FALSE, notice |-> FALSE]

PCs == {"idle", "load", "turn", "persist", "send", "complete", "fail",
        "dead", "alert", "fallback", "audit_sent", "audit_lost"}

Row == [status : Statuses, before : SUBSET Messages,
        owner : Workers \cup {NoOwner}, lease : Int, avail : Nat,
        attempts : Nat, body : Bodies \cup {NoBody}]
Task == [pc : PCs, reply : Bodies \cup {NoBody}, fault : Faults]

NewRow == [status |-> "absent", before |-> {}, owner |-> NoOwner,
           lease |-> 0, avail |-> 0, attempts |-> 0, body |-> NoBody]
Fresh(pc, b) == [pc |-> pc, reply |-> b, fault |-> NoFault]
At(t, pc) == [t EXCEPT !.pc = pc]
IdleTask == Fresh("idle", NoBody)

Init ==
  /\ row = [m \in Messages |-> NewRow]
  /\ task = [w \in Workers |-> [m \in Messages |-> IdleTask]]
  /\ sends = [m \in Messages |-> [b \in Bodies |-> 0]]
  /\ alerts = [m \in Messages |-> 0]
  /\ notice = [m \in Messages |-> "none"]

-----------------------------------------------------------------------------
(* accept_inbound_message: one transaction per message.  It begins (and     *)
(* takes its enqueued_at), then commits inbox and work row together or      *)
(* rolls back, upon which the route answers 503 and the provider redelivers.*)

SameConv(s, m) == ConvOf[s] = ConvOf[m]

BeginAccept(m) ==
  /\ row[m].status = "absent"
  /\ \/ Overlap
     \/ \A s \in Messages : SameConv(s, m) => row[s].status # "inserting"
  /\ row' = [row EXCEPT ![m] = [row[m] EXCEPT
                !.status = "inserting",
                !.before = {s \in Messages : row[s].status # "absent"}]]
  /\ UNCHANGED <<task, sends, alerts, notice>>

CommitAccept(m) ==
  /\ row[m].status = "inserting"
  /\ row' = [row EXCEPT ![m] = [row[m] EXCEPT !.status = "open"]]
  /\ UNCHANGED <<task, sends, alerts, notice>>

AbortAccept(m) ==
  /\ row[m].status = "inserting"
  /\ row' = [s \in Messages |-> IF s = m THEN NewRow
                                ELSE [row[s] EXCEPT !.before = @ \ {m}]]
  /\ UNCHANGED <<task, sends, alerts, notice>>

-----------------------------------------------------------------------------
(* pending_outbox_statement and claim_available_outbox_work.                *)

OpenNotCompleted(m) == row[m].status \in {"open", "failed"}
Open(m) == row[m].status = "open"

NoOlderCheck(m) == FALSE
OlderSibling(m) == \E s \in row[m].before : SameConv(s, m) /\ Open(s)

AnyLeaseFree(m) == TRUE
OnlyNullLeaseFree(m) == row[m].owner = NoOwner
LeaseFree(m) == row[m].owner = NoOwner \/ row[m].lease < 0

Claimable(m) == Open(m) /\ row[m].avail = 0 /\ LeaseFree(m) /\ ~OlderSibling(m)

ExhaustedLate(m) == row[m].attempts > ClaimMax
Exhausted(m) == row[m].attempts >= ClaimMax

(* The partial unique index ux_outbox_work_conversation_live_lease: one     *)
(* non-terminal row with a non-NULL lease per conversation, expired or not. *)
NoIndex(batch) == FALSE
LeaseConflict(batch) ==
  \E m \in batch, s \in Messages \ batch :
    ~Exhausted(m) /\ SameConv(s, m) /\ Open(s) /\ row[s].owner # NoOwner

HeldBy(r, o, n) == [r EXCEPT !.owner = o, !.lease = n]
Unleased(r) == HeldBy(r, NoOwner, 0)
Terminalized(r) == [Unleased(r) EXCEPT !.status = "failed"]

LeasedUncounted(w, r) == HeldBy(r, w, Lease)
Leased(w, r) == [HeldBy(r, w, Lease) EXCEPT !.attempts = @ + 1]

ClaimRows(w, batch) ==
  row' = [m \in Messages |-> IF m \notin batch THEN row[m]
                             ELSE IF Exhausted(m) THEN Terminalized(row[m])
                             ELSE Leased(w, row[m])]

(* _persisted_reply: the reply the claimed row carries, if any.             *)
ForgottenReply(m) == NoBody
PersistedReply(m) == row[m].body

Idle(w) == \A m \in Messages : task[w][m].pc = "idle"

Batches == {b \in SUBSET {m \in Messages : Claimable(m)} :
              b # {} /\ Cardinality(b) <= ClaimLimit}

(* process_available: the poll loop claims only when its last batch is done.*)
(* SKIP LOCKED may leave out any candidate another transaction holds.  When *)
(* the index refuses one row the transaction rolls back as a whole and the  *)
(* poll ends with nothing changed.                                          *)
Claim(w, batch) ==
  /\ Idle(w)
  /\ ~LeaseConflict(batch)
  /\ ClaimRows(w, batch)
  /\ task' = [task EXCEPT ![w] = [m \in Messages |->
                IF m \notin batch THEN IdleTask
                ELSE IF Exhausted(m) THEN Fresh("dead", NoBody)
                ELSE Fresh("load", PersistedReply(m))]]
  /\ UNCHANGED <<sends, alerts, notice>>

(* The commit lands but its acknowledgement does not: claim_failed is       *)
(* logged, the rows stay leased and nobody works on them.                   *)
ClaimUnacknowledged(w, batch) ==
  /\ Idle(w)
  /\ ~LeaseConflict(batch)
  /\ ClaimRows(w, batch)
  /\ UNCHANGED <<task, sends, alerts, notice>>

-----------------------------------------------------------------------------
(* process_claimed_work, one action per transaction or external call.       *)

UnownedLiveLease(w, m) == Open(m) /\ row[m].lease > 0
LiveLease(w, m) == Open(m) /\ row[m].owner = w /\ row[m].lease > 0

Put(w, m, t)         == task' = [task EXCEPT ![w][m] = t]
Goto(w, m, pc)       == Put(w, m, At(task[w][m], pc))
Hand(w, m, pc, b)    == Put(w, m, Fresh(pc, b))
Fail(w, m, f)        == Put(w, m, [pc |-> "fail", reply |-> NoBody, fault |-> f])
Leave(w, m)          == Put(w, m, IdleTask)

BindingFaults == {f \in Faults : f.bound /\ ~f.notice}
TurnFaults    == {f \in Faults : f.bound /\ f.notice}
UnboundFaults == {f \in Faults : ~f.bound /\ ~f.notice}
RetryableCondition == [retryable |-> TRUE, bound |-> FALSE, notice |-> FALSE]

(* Loading the inbound row, extracting the turn and resolving the           *)
(* participant: the message is serviceable, deliberately not serviced, or   *)
(* a step fails.  Terminalized rows are notified before any row is begun.   *)
Load(w, m) ==
  /\ task[w][m].pc = "load"
  /\ \A s \in Messages : task[w][s].pc # "dead"
  /\ \/ Goto(w, m, IF task[w][m].reply = NoBody THEN "turn" ELSE "send")
     \/ Goto(w, m, "complete")
     \/ \E f \in BindingFaults \cup UnboundFaults : Fail(w, m, f)
  /\ UNCHANGED <<row, sends, alerts, notice>>

(* run_turn answers, answers nothing, or raises.                            *)
RunTurn(w, m) ==
  /\ task[w][m].pc = "turn"
  /\ \/ \E r \in Replies : Hand(w, m, "persist", r)
     \/ Goto(w, m, "complete")
     \/ \E f \in TurnFaults : Fail(w, m, f)
  /\ UNCHANGED <<row, sends, alerts, notice>>

(* persist_outbound_intent: commits the reply under a live lease and a row  *)
(* without another body; a lost lease ends the attempt; any other error is  *)
(* a failure, whether or not the commit landed.                             *)
PersistedRow(w, m) ==
  /\ LiveLease(w, m)
  /\ row[m].body \in {NoBody, task[w][m].reply}
  /\ row' = [row EXCEPT ![m] = [row[m] EXCEPT !.body = task[w][m].reply]]

PersistOrSend(w, m) ==
  /\ task[w][m].pc = "persist"
  /\ \/ PersistedRow(w, m) /\ Goto(w, m, "send")
     \/ ~LiveLease(w, m) /\ Goto(w, m, "send") /\ UNCHANGED row
  /\ UNCHANGED <<sends, alerts, notice>>
PersistIntent(w, m) ==
  /\ task[w][m].pc = "persist"
  /\ \/ PersistedRow(w, m) /\ Goto(w, m, "send")
     \/ ~LiveLease(w, m) /\ Leave(w, m) /\ UNCHANGED row
     \/ /\ \E f \in TurnFaults : Fail(w, m, f)
        /\ PersistedRow(w, m) \/ UNCHANGED row
  /\ UNCHANGED <<sends, alerts, notice>>

Deliver(m, b) == sends' = [sends EXCEPT ![m][b] = @ + 1]

(* send_text: accepted, or an error after which the provider may or may not *)
(* have accepted the message.                                               *)
Send(w, m) ==
  /\ task[w][m].pc = "send"
  /\ \/ Deliver(m, task[w][m].reply) /\ Goto(w, m, "complete")
     \/ /\ Deliver(m, task[w][m].reply) \/ UNCHANGED sends
        /\ \E f \in BindingFaults : Fail(w, m, f)
  /\ UNCHANGED <<row, alerts, notice>>

CompletedRow(m) ==
  row' = [row EXCEPT ![m] = [Unleased(row[m]) EXCEPT !.status = "completed"]]

(* _complete_or_retry: a failed completion write is recorded as a retryable *)
(* failure without a binding.                                               *)
Complete(w, m) ==
  /\ task[w][m].pc = "complete"
  /\ \/ LiveLease(w, m) /\ CompletedRow(m) /\ Leave(w, m)
     \/ ~LiveLease(w, m) /\ Leave(w, m) /\ UNCHANGED row
     \/ /\ Fail(w, m, RetryableCondition)
        /\ \/ LiveLease(w, m) /\ CompletedRow(m)
           \/ UNCHANGED row
  /\ UNCHANGED <<sends, alerts, notice>>

Cap(m, f) == IF f.bound THEN PolicyMax[m] ELSE DefaultMax
Terminal(m, f) == ~f.retryable \/ row[m].attempts >= Cap(m, f)

(* The fallback reply is recorded only on a row that holds no reply.        *)
FallbackDue(m, f) == f.notice /\ row[m].body = NoBody

Backoff(n) == IF 2^n < RetryMax THEN 2^n ELSE RetryMax

(* record_outbox_failure: release the lease; terminal at once, or available *)
(* again after a jittered exponential backoff.                              *)
FailedRow(m, f) ==
  \/ /\ Terminal(m, f)
     /\ row' = [row EXCEPT ![m] = [Terminalized(row[m]) EXCEPT
                  !.body = IF FallbackDue(m, f) THEN Fallback ELSE @]]
  \/ /\ ~Terminal(m, f)
     /\ \E d \in 0 .. Backoff(row[m].attempts) :
          row' = [row EXCEPT ![m] = [Unleased(row[m]) EXCEPT !.avail = d]]

(* _record_failure: a lost lease or a failed write ends the attempt (the    *)
(* write may still have landed); a terminal outcome goes on to the notifier *)
(* and, when the fallback was recorded, to its one send.                    *)
RecordFailure(w, m) ==
  LET f == task[w][m].fault IN
  /\ task[w][m].pc = "fail"
  /\ \/ /\ LiveLease(w, m)
        /\ FailedRow(m, f)
        /\ \/ ~Terminal(m, f) /\ Leave(w, m)
           \/ /\ Terminal(m, f)
              /\ Hand(w, m, "alert", IF FallbackDue(m, f) THEN Fallback ELSE NoBody)
     \/ Leave(w, m) /\ UNCHANGED row
     \/ Leave(w, m) /\ LiveLease(w, m) /\ FailedRow(m, f)
  /\ UNCHANGED <<sends, alerts, notice>>

(* _notify_terminal_failure, after the durable signal: best effort.         *)
Notify(w, m) ==
  /\ task[w][m].pc \in {"dead", "alert"}
  /\ \/ alerts' = [alerts EXCEPT ![m] = @ + 1]
     \/ UNCHANGED alerts
  /\ IF task[w][m].reply = Fallback THEN Goto(w, m, "fallback") ELSE Leave(w, m)
  /\ UNCHANGED <<row, sends, notice>>

(* _send_fallback and record_fallback_delivery: one send, never retried,    *)
(* then its audit event, best effort.                                       *)
SendFallback(w, m) ==
  /\ task[w][m].pc = "fallback"
  /\ \/ Deliver(m, Fallback) /\ Goto(w, m, "audit_sent")
     \/ /\ Deliver(m, Fallback) \/ UNCHANGED sends
        /\ Goto(w, m, "audit_lost")
  /\ UNCHANGED <<row, alerts, notice>>

AuditFallback(w, m) ==
  /\ task[w][m].pc \in {"audit_sent", "audit_lost"}
  /\ \/ notice' = [notice EXCEPT ![m] =
                     IF task[w][m].pc = "audit_sent" THEN "delivered" ELSE "lost"]
     \/ UNCHANGED notice
  /\ Leave(w, m)
  /\ UNCHANGED <<row, sends, alerts>>

-----------------------------------------------------------------------------
(* stop() cancels the loop and a crash kills it: the leases stay committed  *)
(* and a process with a new worker id takes the dead one's place.           *)
Crash(w) ==
  /\ ~Idle(w)
  /\ task' = [task EXCEPT ![w] = [m \in Messages |-> IdleTask]]
  /\ UNCHANGED <<row, sends, alerts, notice>>

(* Database time passes.  When Timely, no attempt outlives its lease: the   *)
(* turn timeout plus the margin is checked to be below the lease.           *)
Working(w, m) == task[w][m].pc \in {"load", "turn", "persist", "send", "complete", "fail"}

Untimed == TRUE
InTime == \A w \in Workers, m \in Messages :
            Working(w, m) /\ row[m].owner = w => row[m].lease > 1

AgedPastZero(r) ==
  [r EXCEPT !.lease = IF r.owner # NoOwner /\ @ >= 0 THEN @ - 1 ELSE @,
            !.avail = IF r.status = "open" THEN @ - 1 ELSE @]
Aged(r) == [r EXCEPT !.lease = IF r.owner # NoOwner /\ @ >= 0 THEN @ - 1 ELSE @,
                     !.avail = IF @ > 0 THEN @ - 1 ELSE @]

Tick ==
  /\ Timely => InTime
  /\ \E m \in Messages : Aged(row[m]) # row[m]
  /\ row' = [m \in Messages |-> Aged(row[m])]
  /\ UNCHANGED <<task, sends, alerts, notice>>

Step(w, m) ==
  \/ Load(w, m) \/ RunTurn(w, m) \/ PersistIntent(w, m) \/ Send(w, m)
  \/ Complete(w, m) \/ RecordFailure(w, m) \/ Notify(w, m)
  \/ SendFallback(w, m) \/ AuditFallback(w, m)

Next ==
  \/ \E m \in Messages : BeginAccept(m) \/ CommitAccept(m) \/ AbortAccept(m)
  \/ \E w \in Workers :
       \/ \E batch \in Batches : Claim(w, batch) \/ ClaimUnacknowledged(w, batch)
       \/ \E m \in Messages : Step(w, m)
       \/ Crash(w)
  \/ Tick

Spec == Init /\ [][Next]_vars

(* The poll loop keeps claiming, a claimed row keeps being worked on, an    *)
(* accepting transaction ends, and time passes.                             *)
Fairness ==
  /\ \A m \in Messages : WF_vars(CommitAccept(m) \/ AbortAccept(m))
  /\ \A w \in Workers :
       /\ SF_vars(\E batch \in Batches : Claim(w, batch))
       /\ \A m \in Messages : WF_vars(Step(w, m))
  /\ WF_vars(Tick)

FairSpec == Spec /\ Fairness

-----------------------------------------------------------------------------
(* Type correctness of the rows and of the workers' tasks.                  *)
TypeOK ==
  /\ row \in [Messages -> Row]
  /\ task \in [Workers -> [Messages -> Task]]
  /\ sends \in [Messages -> [Bodies -> Nat]]
  /\ alerts \in [Messages -> Nat]
  /\ notice \in [Messages -> {"none", "delivered", "lost"}]

(* Whatever is sent for a message is the body committed on its row, so the  *)
(* end user never gets two different answers, nor the fallback notice next  *)
(* to a reply ("A reply already committed is never replaced").              *)
OneAnswerPerMessage ==
  \A m \in Messages, b \in Bodies : sends[m][b] > 0 => row[m].body = b

(* A reply once committed is replayed, never recomputed: no worker that     *)
(* holds the live lease of a row with a reply runs the agent on it.         *)
NoRerunAfterCommit ==
  \A w \in Workers, m \in Messages :
    task[w][m].pc = "turn" /\ LiveLease(w, m) => row[m].body = NoBody

(* A row is never claimed more often than the claim cap allows, each        *)
(* attempt sends at most once, and the fallback notice is sent at most once *)
(* in all, whatever crashes, duplicates or lost acknowledgements.           *)
SendsBounded ==
  \A m \in Messages :
    /\ row[m].attempts <= ClaimMax
    /\ \A b \in Bodies : sends[m][b] <= row[m].attempts
    /\ sends[m][Fallback] <= 1

(* Two rows of one conversation are never both under a lease.               *)
OneLeasePerConversation ==
  \A m, s \in Messages :
    m # s /\ SameConv(m, s) /\ row[m].owner # NoOwner => row[s].owner = NoOwner

(* The operator is alerted at most once per message, and only of a message  *)
(* whose failure is durable; the fallback's audit never claims a delivery   *)
(* that did not happen.                                                     *)
AlertsAreTrue ==
  \A m \in Messages :
    /\ alerts[m] <= 1
    /\ alerts[m] = 1 => row[m].status = "failed"
    /\ notice[m] = "delivered" => sends[m][Fallback] = 1

(* While a lease has not expired, its row is changed by its owner's own     *)
(* step on that row and by nothing else: a stale worker, a second claim or  *)
(* a late acknowledgement cannot touch it.                                  *)
FencedByLease ==
  [][\A w \in Workers, m \in Messages :
       /\ row[m].owner = w /\ row[m].lease >= 0
       /\ <<row'[m].status, row'[m].owner, row'[m].attempts, row'[m].body>>
            # <<row[m].status, row[m].owner, row[m].attempts, row[m].body>>
       => Working(w, m) /\ task'[w][m] # task[w][m]]_vars

(* A settled row stays as it is: never reopened, leased or given a reply.   *)
SettledIsFinal ==
  [][\A m \in Messages : row[m].status \in Settled =>
       /\ row'[m].status = row[m].status
       /\ row'[m].owner = NoOwner
       /\ row'[m].attempts = row[m].attempts
       /\ row'[m].body = row[m].body]_vars

(* A conversation is served in arrival order: a worker holds the lease of a *)
(* message only when every message that arrived earlier is settled.         *)
ArrivalOrder ==
  \A m \in Messages : row[m].owner # NoOwner =>
    \A s \in row[m].before : SameConv(s, m) => row[s].status \in Settled

(* When attempts fit their lease, a conversation's turns and sends never    *)
(* interleave: from the start of a turn to the end of its send, no other    *)
(* worker is between the same points on a message of that conversation.     *)
Answering(w, m) == task[w][m].pc \in {"turn", "persist", "send"}
OneTurnPerConversation ==
  \A m, s \in Messages, w, v \in Workers :
    Answering(w, m) /\ Answering(v, s) /\ SameConv(m, s) => <<w, m>> = <<v, s>>

(* Both: arrival order, one turn and send at a time.                        *)
ServedInOrder == ArrivalOrder /\ OneTurnPerConversation

(* Every accepted message is eventually completed or failed, whatever       *)
(* crashes, errors and lost leases its attempts meet.                       *)
EverySettles == \A m \in Messages : Open(m) ~> row[m].status \in Settled

(* "An expired lease is recoverable."  (services/outbox.py:337)             *)
ExpiredLeaseRecoverable ==
  \A m \in Messages : (Open(m) /\ row[m].owner # NoOwner /\ row[m].lease < 0)
                        ~> (row[m].status \in Settled \/ row[m].lease >= 0)

(* "this index never fires in the intended code path" (alembic 004): the    *)
(* lease index never refuses a claim the pending query would make.          *)
IndexNeverFires == \A batch \in Batches : ~LeaseConflict(batch)

(* "max_attempts is the most times a work item runs" (retry_policy.py:167). *)
AttemptsWithinPolicy == \A m \in Messages : row[m].attempts <= PolicyMax[m]

-----------------------------------------------------------------------------
(* The inductive strengthening of OneAnswerPerMessage, SendsBounded's       *)
(* second part, SettledIsFinal and OneLeasePerConversation (OutboxProofs).  *)

(* Only an open row is leased, only an accepted row has a body, and only a  *)
(* failed row has the fallback body.                                        *)
RowsOK ==
  \A m \in Messages :
    /\ row[m].status # "open" => row[m].owner = NoOwner
    /\ row[m].status \in {"absent", "inserting"} => row[m].body = NoBody
    /\ row[m].body = Fallback => row[m].status = "failed"

(* The worker that is about to send the fallback notice of a message.       *)
Noticing(w, m) ==
  \/ task[w][m].pc = "fallback"
  \/ task[w][m].pc \in {"dead", "alert"} /\ task[w][m].reply = Fallback

(* What a worker holds in hand agrees with the row it will send for.        *)
TasksOK ==
  \A w \in Workers, m \in Messages :
    /\ task[w][m].pc = "load" => task[w][m].reply \in {NoBody, row[m].body} \ {Fallback}
    /\ task[w][m].pc = "persist" => task[w][m].reply \in Replies
    /\ task[w][m].pc = "send" => /\ task[w][m].reply \in Replies
                                 /\ task[w][m].reply = row[m].body
    /\ Noticing(w, m) => /\ row[m].body = Fallback
                         /\ sends[m][Fallback] = 0
                         /\ \A v \in Workers : Noticing(v, m) => v = w

FallbackOnce == \A m \in Messages : sends[m][Fallback] <= 1

AnswerInv == RowsOK /\ TasksOK /\ OneAnswerPerMessage /\ FallbackOnce

(* enqueued_at orders the rows of every conversation totally.               *)
RowsOrdered ==
  \A m, s \in Messages :
    m # s /\ row[m].status # "absent" /\ row[s].status # "absent"
      => s \in row[m].before \/ m \in row[s].before

LeaseInv == RowsOrdered /\ OneLeasePerConversation
=============================================================================

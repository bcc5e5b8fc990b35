----------------------------- MODULE Proactive ------------------------------
(***************************************************************************)
(* Proactive delivery (proactive.py, services/proactive_postgres.py): a     *)
(* message without an inbound turn is submitted, queued, claimed under a    *)
(* lease by one of several ProactiveDispatchers and sent at most once.  A   *)
(* run reads the clock once, and every limit, lease and deferral of that    *)
(* run is reckoned from that reading (task.now), however late its steps.    *)
(* Fenced tells the two queues apart: PostgresProactiveQueue's finish and   *)
(* defer write only a row whose lease_owner is the worker,                  *)
(* InMemoryProactiveQueue's write it whoever owns it.                       *)
(***************************************************************************)
EXTENDS Integers, FiniteSets, Sequences

CONSTANTS
  Messages, Workers,
  RecipientOf,     \* the subject each message is for
  NoOne,           \* lease_owner IS NULL, or a worker that holds no message
  LeaseLen,        \* lease_s
  PerRecipient,    \* the two limits, as [count, window]
  PerRuntime,
  Recheck,         \* recheck_s
  RetryAfter,      \* the delays a 429 may name
  Delays,          \* how far ahead send_at may be
  Day, QuietFrom, QuietTo, \* quiet hours as times of a day of Day ticks
  Minute,          \* ticks in a minute: deferral drops the seconds of an end
  Fenced,          \* PostgresProactiveQueue (TRUE) or InMemoryProactiveQueue
  Prompt,          \* a dispatch run takes no time
  Erasures,        \* may rows be deleted or purged
  Start, Horizon   \* the clock's first and last reading

ASSUME TimeAssumption ==
  /\ LeaseLen \in Nat \ {0} /\ Recheck \in Nat
  /\ Start \in Nat /\ Horizon \in Nat /\ Start <= Horizon
  /\ RetryAfter \subseteq Nat /\ Delays \subseteq Nat
  /\ Day \in Nat \ {0} /\ Minute \in Nat \ {0} /\ Day % Minute = 0
  /\ QuietFrom \in 0 .. Day - 1 /\ QuietTo \in 0 .. Day - 1
ASSUME LimitAssumption ==
  /\ PerRecipient \in [count : Nat, window : Nat]
  /\ PerRuntime \in [count : Nat, window : Nat]
ASSUME FlagAssumption == {Fenced, Prompt, Erasures} \subseteq BOOLEAN
ASSUME NoOneAssumption == NoOne \notin Workers \cup Messages

VARIABLES
  msg,      \* proactive_outbox, one row per message
  task,     \* each dispatcher's run_once
  sent,     \* the times at which each message reached the provider
  allowed,  \* the recipients the directory authorizes
  granted,  \* does the caller hold send:proactive
  clock

vars == <<msg, task, sent, allowed, granted, clock>>

Attempted == {"sending", "sent", "ambiguous"}
Finished  == {"sent", "failed", "ambiguous"}
Statuses  == {"absent", "submitting", "queued", "deleted"} \cup Attempted \cup Finished
PCs == {"idle", "expire", "claim", "permission", "recipient", "guard", "runtime",
        "send", "finish", "defer"}

Recipients == {RecipientOf[m] : m \in Messages}
NoTime == -1

Row == [status : Statuses, avail : Nat, owner : Workers \cup {NoOne},
        lease : Nat, claimed : Nat \cup {NoTime}]
RunState == [pc : PCs, now : Nat, holds : Messages \cup {NoOne},
             result : Finished, until : Nat]

NewRow == [status |-> "absent", avail |-> 0, owner |-> NoOne, lease |-> 0,
           claimed |-> NoTime]
IdleRun == [pc |-> "idle", now |-> 0, holds |-> NoOne, result |-> "failed", until |-> 0]

Init ==
  /\ msg = [m \in Messages |-> NewRow]
  /\ task = [w \in Workers |-> IdleRun]
  /\ sent = [m \in Messages |-> <<>>]
  /\ allowed = Recipients
  /\ granted = TRUE
  /\ clock = Start

-----------------------------------------------------------------------------
(* ProactiveSender.submit: authorize, then enqueue.                         *)
Submit(m) ==
  /\ msg[m].status = "absent"
  /\ granted /\ RecipientOf[m] \in allowed
  /\ msg' = [msg EXCEPT ![m].status = "submitting"]
  /\ UNCHANGED <<task, sent, allowed, granted, clock>>

Enqueue(m) ==
  /\ msg[m].status = "submitting"
  /\ \E d \in Delays :
       msg' = [msg EXCEPT ![m].status = "queued", ![m].avail = clock + d]
  /\ UNCHANGED <<task, sent, allowed, granted, clock>>

(* A deployment revokes a recipient or the caller's grant, for good.        *)
Revoke ==
  /\ \/ \E r \in allowed : allowed' = allowed \ {r} /\ UNCHANGED granted
     \/ granted /\ granted' = FALSE /\ UNCHANGED allowed
  /\ UNCHANGED <<msg, task, sent, clock>>

(* delete (every row of a subject) and purge (finished rows only).          *)
Deleted(S) == msg' = [m \in Messages |-> IF m \in S
                        THEN [msg[m] EXCEPT !.status = "deleted", !.owner = NoOne]
                        ELSE msg[m]]
Stored == {m \in Messages : msg[m].status \notin {"absent", "submitting", "deleted"}}
Delete(r) ==
  /\ Erasures
  /\ \E m \in Stored : RecipientOf[m] = r
  /\ Deleted({m \in Stored : RecipientOf[m] = r})
  /\ UNCHANGED <<task, sent, allowed, granted, clock>>
Purge(m) ==
  /\ Erasures /\ msg[m].status \in Finished
  /\ Deleted({m})
  /\ UNCHANGED <<task, sent, allowed, granted, clock>>

-----------------------------------------------------------------------------
(* quiet_until: the end of the quiet hours, with its seconds set to zero,   *)
(* today or, when that is not after now, tomorrow.                          *)
InQuiet(t) == LET d == t % Day IN
  IF QuietFrom <= QuietTo THEN QuietFrom <= d /\ d < QuietTo
                          ELSE QuietFrom <= d \/ d < QuietTo

QuietEndToday(t) == (t - (t % Day)) + (QuietTo - (QuietTo % Minute))
QuietUntilToday(t) == QuietEndToday(t)
QuietUntil(t) ==
  IF QuietEndToday(t) <= t THEN QuietEndToday(t) + Day ELSE QuietEndToday(t)

-----------------------------------------------------------------------------
(* run_once.                                                                *)
Run(w, t) == task' = [task EXCEPT ![w] = t]
Goto(w, pc) == Run(w, [task[w] EXCEPT !.pc = pc])
Deferring(w, until) == Run(w, [task[w] EXCEPT !.pc = "defer", !.until = until])
Finishing(w, result) == Run(w, [task[w] EXCEPT !.pc = "finish", !.result = result])

FirstReading(w) == Start
Now(w) == clock
StartRun(w) ==
  /\ task[w].pc = "idle"
  /\ Run(w, [IdleRun EXCEPT !.pc = "expire", !.now = Now(w)])
  /\ UNCHANGED <<msg, sent, allowed, granted, clock>>

(* expire_leases: a message that outlived its lease may have been sent.     *)
Lapsed(w) == {m \in Messages : /\ msg[m].status = "sending"
                               /\ msg[m].lease <= task[w].now}
LapsedRequeued(w) == [m \in Messages |->
  IF m \in Lapsed(w) THEN [msg[m] EXCEPT !.status = "queued", !.owner = NoOne]
                     ELSE msg[m]]
Expired(w) == [m \in Messages |->
  IF m \in Lapsed(w) THEN [msg[m] EXCEPT !.status = "ambiguous", !.owner = NoOne]
                     ELSE msg[m]]

ExpireLeases(w) ==
  /\ task[w].pc = "expire"
  /\ msg' = Expired(w)
  /\ Goto(w, "claim")
  /\ UNCHANGED <<sent, allowed, granted, clock>>

(* claim: expire again, then take one due message, or end the run.  SKIP    *)
(* LOCKED may pass over the earliest one.                                   *)
Due(w) == {m \in Messages : /\ Expired(w)[m].status = "queued"
                            /\ msg[m].avail <= task[w].now}
Claim(w) ==
  /\ task[w].pc = "claim"
  /\ \/ /\ Due(w) = {}
        /\ msg' = Expired(w)
        /\ Run(w, IdleRun)
     \/ \E m \in Due(w) :
          /\ msg' = [Expired(w) EXCEPT ![m] =
                       [@ EXCEPT !.status = "sending", !.owner = w,
                                 !.lease = task[w].now + LeaseLen,
                                 !.claimed = task[w].now]]
          /\ Run(w, [task[w] EXCEPT !.pc = "permission", !.holds = m])
  /\ UNCHANGED <<sent, allowed, granted, clock>>

(* _still_permitted: the caller's grant is looked up again; a lookup that   *)
(* fails counts as revoked.                                                 *)
CheckPermission(w) ==
  /\ task[w].pc = "permission"
  /\ \/ granted /\ Goto(w, "recipient")
     \/ Finishing(w, "failed")
  /\ UNCHANGED <<msg, sent, allowed, granted, clock>>

(* The directory is asked again; a channel this process does not serve      *)
(* fails the message too.                                                   *)
AuthorizedOnce(w) == TRUE
Authorized(w) == RecipientOf[task[w].holds] \in allowed

Authorize(w) ==
  /\ task[w].pc = "recipient"
  /\ \/ Authorized(w) /\ Goto(w, "guard")
     \/ Finishing(w, "failed")
  /\ UNCHANGED <<msg, sent, allowed, granted, clock>>

(* attempts_since: what may have reached the provider since the window      *)
(* began, counted by the time of its claim.                                 *)
ReadSent(m) == msg[m].status = "sent"
Counted(m) == msg[m].status \in Attempted

Used(w, window, same) ==
  Cardinality({m \in Messages \ {task[w].holds} :
                 /\ Counted(m)
                 /\ msg[m].claimed >= task[w].now - window
                 /\ same => RecipientOf[m] = RecipientOf[task[w].holds]})

(* _guard: quiet hours, then the recipient's limit, then the runtime's.     *)
NeverHeld(w) == FALSE
HeldByQuiet(w) == InQuiet(task[w].now)

GuardRecipient(w) ==
  /\ task[w].pc = "guard"
  /\ IF HeldByQuiet(w) THEN Deferring(w, QuietUntil(task[w].now))
     ELSE IF Used(w, PerRecipient.window, TRUE) >= PerRecipient.count
          THEN Deferring(w, task[w].now + Recheck)
     ELSE Goto(w, "runtime")
  /\ UNCHANGED <<msg, sent, allowed, granted, clock>>

GuardRuntime(w) ==
  /\ task[w].pc = "runtime"
  /\ IF Used(w, PerRuntime.window, FALSE) >= PerRuntime.count
     THEN Deferring(w, task[w].now + Recheck)
     ELSE Goto(w, "send")
  /\ UNCHANGED <<msg, sent, allowed, granted, clock>>

Reached(m) == sent' = [sent EXCEPT ![m] = Append(@, clock)]

(* send_proactive: accepted; 429 (nothing sent); rejected; or any other     *)
(* error, whose outcome is unknown.                                         *)
UnknownRequeued(w) == Finishing(w, "queued")
UnknownRetried(w) == Deferring(w, task[w].now)
Unknown(w) == Finishing(w, "ambiguous")

Send(w) ==
  /\ task[w].pc = "send"
  /\ \/ Reached(task[w].holds) /\ Finishing(w, "sent")
     \/ \E d \in RetryAfter : Deferring(w, task[w].now + d) /\ UNCHANGED sent
     \/ Finishing(w, "failed") /\ UNCHANGED sent
     \/ Unknown(w) /\ (Reached(task[w].holds) \/ UNCHANGED sent)
  /\ UNCHANGED <<msg, allowed, granted, clock>>

(* The queue's finish and defer.  The row may be gone or another's by then. *)
WritableByAnyone(w) == msg[task[w].holds].status # "deleted"
Writable(w) == IF Fenced THEN msg[task[w].holds].owner = w
                         ELSE msg[task[w].holds].status # "deleted"

Finish(w) ==
  /\ task[w].pc = "finish"
  /\ IF Writable(w)
     THEN msg' = [msg EXCEPT ![task[w].holds] =
                    [@ EXCEPT !.status = task[w].result, !.owner = NoOne]]
     ELSE UNCHANGED msg
  /\ Run(w, IdleRun)
  /\ UNCHANGED <<sent, allowed, granted, clock>>

Defer(w) ==
  /\ task[w].pc = "defer"
  /\ IF Writable(w)
     THEN msg' = [msg EXCEPT ![task[w].holds] =
                    [@ EXCEPT !.status = "queued", !.avail = task[w].until,
                              !.owner = NoOne, !.claimed = NoTime]]
     ELSE UNCHANGED msg
  /\ Run(w, IdleRun)
  /\ UNCHANGED <<sent, allowed, granted, clock>>

(* The dispatcher is cancelled, its process dies, or the directory or the    *)
(* queue raises: the run ends between two steps and leaves the row sending.  *)
Crash(w) ==
  /\ task[w].pc # "idle"
  /\ Run(w, IdleRun)
  /\ UNCHANGED <<msg, sent, allowed, granted, clock>>

Tick ==
  /\ clock < Horizon
  /\ Prompt => \A w \in Workers : task[w].pc = "idle"
  /\ clock' = clock + 1
  /\ UNCHANGED <<msg, task, sent, allowed, granted>>

Step(w) ==
  \/ StartRun(w) \/ ExpireLeases(w) \/ Claim(w) \/ CheckPermission(w)
  \/ Authorize(w) \/ GuardRecipient(w) \/ GuardRuntime(w) \/ Send(w)
  \/ Finish(w) \/ Defer(w)

Next ==
  \/ \E m \in Messages : Submit(m) \/ Enqueue(m) \/ Purge(m)
  \/ Revoke
  \/ \E r \in Recipients : Delete(r)
  \/ \E w \in Workers : Step(w) \/ Crash(w)
  \/ Tick

Spec == Init /\ [][Next]_vars

(* A deployment's loop keeps calling run_once, a run that is not cancelled  *)
(* goes on, and now and then one reaches its first queue operation.         *)
Fairness == \A w \in Workers : WF_vars(Step(w)) /\ SF_vars(ExpireLeases(w))
FairSpec == Spec /\ Fairness

-----------------------------------------------------------------------------
(* Type correctness of the queue and of the dispatchers' runs.              *)
TypeOK ==
  /\ msg \in [Messages -> Row]
  /\ task \in [Workers -> RunState]
  /\ sent \in [Messages -> Seq(Nat)]
  /\ allowed \subseteq Recipients
  /\ granted \in BOOLEAN
  /\ clock \in Nat

(* "Delivery is at most once": no message reaches the provider twice,       *)
(* whatever leases lapse, workers die and providers answer.                 *)
AtMostOnce == \A m \in Messages : Len(sent[m]) <= 1

(* A message that may have reached the provider is never recorded as queued *)
(* (it would go out again) or failed, so the rate limits keep counting it.  *)
ReachedIsRecorded ==
  \A m \in Messages :
    sent[m] # <<>> => msg[m].status \in Attempted \cup {"deleted"}

(* A recipient revoked while its message waits is refused before any        *)
(* provider call.                                                           *)
RevokedStaysUnsent ==
  \A m \in Messages :
    []((msg[m].status = "queued" /\ RecipientOf[m] \notin allowed)
         => [](sent[m] = <<>>))

(* Whatever goes out is sent by a run whose own reading of the clock was    *)
(* outside the quiet hours: a message goes out in quiet hours only when     *)
(* they began between that reading and the provider call.                   *)
QuietWhenRead ==
  [][\A m \in Messages : sent'[m] # sent[m] =>
       \E w \in Workers : /\ task[w].pc = "send" /\ task[w].holds = m
                          /\ ~InQuiet(task[w].now)
                          /\ InQuiet(clock) => task[w].now < clock]_vars

(* "When quiet hours end, if now falls inside them": a deferral ends at the *)
(* first moment that is not quiet.                                          *)
QuietUntilEnds ==
  \A now \in clock .. clock + Day : InQuiet(now) =>
    /\ QuietUntil(now) > now
    /\ ~InQuiet(QuietUntil(now))
    /\ \A t \in now .. QuietUntil(now) - 1 : InQuiet(t)

(* ... when the hours end on a whole minute.                                *)
DeferralEnds == QuietTo % Minute = 0 => QuietUntilEnds

(* What the directory and _guard refuse is not sent, however long a run     *)
(* takes over its steps, and quiet hours refuse it exactly while they last, *)
(* over midnight or not.                                                    *)
RefusedStaysUnsent == RevokedStaysUnsent /\ QuietWhenRead /\ []DeferralEnds

(* A finished message stays as it is until it is erased.                    *)
FinishedIsFinal ==
  [][\A m \in Messages : msg[m].status \in Finished =>
       msg'[m].status \in {msg[m].status, "deleted"}]_vars

(* What may have reached the provider is recorded so from then on, and once *)
(* a row says how it ended no run that held it rewrites it, however late.   *)
RecordIsTrue == []ReachedIsRecorded /\ FinishedIsFinal

(* A message whose worker died mid-send does not stay `sending': the next   *)
(* run of any dispatcher settles it.                                        *)
LapsedIsSettled ==
  \A m \in Messages :
    (msg[m].status = "sending" /\ msg[m].lease <= clock) ~> (msg[m].status # "sending")

(* In no window did more messages reach the provider than the limits allow: *)
(* two dispatchers that check at the same time do not both go ahead.        *)
SentIn(S, t, window) ==
  Cardinality({m \in S : \E i \in DOMAIN sent[m] : sent[m][i] \in t - window .. t})
WithinLimits ==
  \A t \in 0 .. clock :
    /\ SentIn(Messages, t, PerRuntime.window) <= PerRuntime.count
    /\ \A r \in Recipients :
         SentIn({m \in Messages : RecipientOf[m] = r}, t, PerRecipient.window)
           <= PerRecipient.count

(* Nothing is sent in quiet hours.                                          *)
QuietIsKept == \A m \in Messages : \A i \in DOMAIN sent[m] : ~InQuiet(sent[m][i])

(* The delivery guard as a whole: no window over its count, no send in      *)
(* quiet hours, whichever dispatchers check and send at the same time.      *)
GuardHolds == WithinLimits /\ QuietIsKept

(* "It becomes ambiguous, never queued" (proactive.py:154).                 *)
LapsedNeverQueued ==
  [][\A m \in Messages : msg[m].status = "ambiguous" => msg'[m].status # "queued"]_vars
=============================================================================

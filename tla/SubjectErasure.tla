--------------------------- MODULE SubjectErasure ---------------------------
(***************************************************************************)
(* One end user's data across the stores of a deployment: the operator's    *)
(* delete (integration/operator_api.py over subject_data.py) and the        *)
(* retention purger, beside the turns that go on writing.  A store is any   *)
(* registered SubjectDataStore, a thread any checkpointer thread; a row is  *)
(* fresh or older than its store's retention.                               *)
(***************************************************************************)
EXTENDS Integers, Sequences

CONSTANTS
  Subjects,
  Stores,       \* the names in the registry
  Retained,     \* stores with a retention that can purge, in the retention's order
  Threads,
  Owner,        \* [Threads -> Subjects]
  Operators,    \* requests
  MaxWrites     \* bound: rows the turns write

ErasureAssumption ==
  /\ Retained \in Seq(Stores) /\ Owner \in [Threads -> Subjects] /\ MaxWrites \in Nat
  /\ Stores \cap Threads = {}   \* the two lists of the answer are one set here

VARIABLES
  app,       \* how the deployment is set up; never changes
  data,      \* what is stored: the age of the rows per place, "none" without
  erasure,   \* per request: where it is and what it has to tell
  purger,    \* the stores this run_once still has to purge
  writes     \* rows written so far

vars == <<app, data, erasure, purger, writes>>

(* A place holds the rows of one subject: in a store, or as a thread.       *)
Places == (Stores \X Subjects) \cup (Threads \X Subjects)
ThreadOf(th) == <<th, Owner[th]>>
Apps == [hook : BOOLEAN, threads : BOOLEAN]

NoErasure == [pc |-> "no"]

Init ==
  /\ app \in Apps
  /\ data = [p \in Places |-> "none"]
  /\ erasure = [o \in Operators |-> NoErasure]
  /\ purger = <<>> /\ writes = 0

Owned(subject) == {th \in Threads : Owner[th] = subject}
Tell(o, r) == erasure' = [erasure EXCEPT ![o] = r]

-----------------------------------------------------------------------------
(* A turn writes a row: facts, usage, schedules, its thread.  Erasures that *)
(* are under way note it, for the properties only.                          *)
WithNote(p) ==
  [o \in Operators |->
     IF erasure[o].pc \in {"stores", "threads", "audit"} /\ erasure[o].subject = p[2]
     THEN [erasure[o] EXCEPT !.since = @ \cup {p}] ELSE erasure[o]]

Write(p) ==
  /\ writes < MaxWrites
  /\ p[1] \in Threads => app.threads /\ p = ThreadOf(p[1])
  /\ data' = [data EXCEPT ![p] = "fresh"]
  /\ erasure' = WithNote(p)
  /\ writes' = writes + 1
  /\ UNCHANGED <<app, purger>>

Age(p) ==
  /\ data[p] = "fresh"
  /\ data' = [data EXCEPT ![p] = "old"]
  /\ UNCHANGED <<app, erasure, purger, writes>>

-----------------------------------------------------------------------------
(* _thread_ids: the ids the hook returns for the subject, narrowed to those *)
(* the operator names.  A named id that is not the subject's is refused     *)
(* with 403; without the hook the request fails with 409 while there is a   *)
(* checkpointer.                                                            *)
AnyNamed(subject, named) == TRUE
MayName(subject, named) == named \subseteq Owned(subject)

Ask(o, subject, named) ==
  /\ erasure[o] = NoErasure
  /\ Tell(o, IF ~app.hook /\ app.threads THEN [pc |-> "refused", status |-> 409]
             ELSE IF app.hook /\ ~MayName(subject, named) THEN [pc |-> "refused", status |-> 403]
             ELSE [pc |-> "stores", subject |-> subject, left |-> Stores,
                   threads |-> IF ~app.hook THEN {}
                               ELSE IF named # {} THEN named ELSE Owned(subject),
                   deleted |-> {}, failed |-> {}, since |-> {}, audited |-> FALSE])
  /\ UNCHANGED <<app, data, purger, writes>>

(* delete_subject attempts every store of the registry, one after the       *)
(* other, and then every thread; one that fails is noted and the rest go on. *)
Forgotten(e, name) == [e EXCEPT !.left = @ \ {name}]
Failed(e, name) == [e EXCEPT !.left = @ \ {name}, !.failed = @ \cup {name}]

DeleteStore(o, name) ==
  /\ erasure[o].pc = "stores" /\ name \in erasure[o].left
  /\ \/ /\ data' = [data EXCEPT ![<<name, erasure[o].subject>>] = "none"]
        /\ Tell(o, [erasure[o] EXCEPT !.left = @ \ {name}, !.deleted = @ \cup {name}])
     \/ /\ Tell(o, Failed(erasure[o], name))
        /\ UNCHANGED data
  /\ UNCHANGED <<app, purger, writes>>

StoresDone(o) ==
  /\ erasure[o].pc = "stores" /\ erasure[o].left = {}
  /\ Tell(o, [erasure[o] EXCEPT !.pc = "threads",
                                !.left = IF app.threads THEN erasure[o].threads ELSE {}])
  /\ UNCHANGED <<app, data, purger, writes>>

DeleteThread(o, th) ==
  /\ erasure[o].pc = "threads" /\ th \in erasure[o].left
  /\ \/ /\ data' = [data EXCEPT ![ThreadOf(th)] = "none"]
        /\ Tell(o, [erasure[o] EXCEPT !.left = @ \ {th}, !.deleted = @ \cup {th}])
     \/ /\ Tell(o, Failed(erasure[o], th))
        /\ UNCHANGED data
  /\ UNCHANGED <<app, purger, writes>>

ThreadsDone(o) ==
  /\ erasure[o].pc = "threads" /\ erasure[o].left = {}
  /\ Tell(o, [erasure[o] EXCEPT !.pc = "audit"])
  /\ UNCHANGED <<app, data, purger, writes>>

(* _audit_deletion comes before the failure is raised; a sink that is not   *)
(* registered or does not take the event changes the answer, not the        *)
(* outcome.                                                                 *)
Finish(o) ==
  /\ erasure[o].pc = "audit"
  /\ \E audited \in BOOLEAN :
       Tell(o, [erasure[o] EXCEPT !.pc = IF erasure[o].failed = {} THEN "ok" ELSE "failed",
                                  !.audited = audited])
  /\ UNCHANGED <<app, data, purger, writes>>

-----------------------------------------------------------------------------
(* SubjectDataPurger: run_once takes every store with a retention in turn;  *)
(* one that fails is left for the next interval and the others still run.   *)
PurgeStart ==
  /\ purger = <<>>
  /\ purger' = Retained
  /\ UNCHANGED <<app, data, erasure, writes>>

PurgeStore(name) ==
  /\ purger # <<>> /\ name = Head(purger)
  /\ data' = [p \in Places |-> IF p[1] = name /\ data[p] = "old" THEN "none" ELSE data[p]]
  /\ purger' = Tail(purger)
  /\ UNCHANGED <<app, erasure, writes>>

RunEnds(left) == <<>>
RunGoesOn(left) == Tail(left)
PurgeFails(name) ==
  /\ purger # <<>> /\ name = Head(purger)
  /\ purger' = RunGoesOn(purger)
  /\ UNCHANGED <<app, data, erasure, writes>>

Purge == PurgeStart \/ \E name \in Stores : PurgeStore(name) \/ PurgeFails(name)

Erase(o) ==
  \/ \E s \in Subjects, named \in SUBSET Threads : Ask(o, s, named)
  \/ \E name \in Stores : DeleteStore(o, name)
  \/ \E th \in Threads : DeleteThread(o, th)
  \/ StoresDone(o) \/ ThreadsDone(o) \/ Finish(o)

Next ==
  \/ \E p \in Places : Write(p) \/ Age(p)
  \/ \E o \in Operators : Erase(o)
  \/ Purge

Spec == Init /\ [][Next]_vars

(* The purger comes back at every interval and goes through its stores.     *)
Fairness == WF_vars(Purge)
-----------------------------------------------------------------------------
(* Type correctness of the places and the requests.                         *)
TypeOK ==
  /\ app \in Apps /\ purger \in Seq(Stores) /\ writes \in 0 .. MaxWrites
  /\ data \in [Places -> {"none", "fresh", "old"}]
  /\ \A o \in Operators :
       erasure[o].pc \in {"no", "refused", "stores", "threads", "audit", "ok", "failed"}

Mine(o) ==
  (Stores \X {erasure[o].subject})
  \cup {ThreadOf(th) : th \in IF app.threads THEN erasure[o].threads ELSE {}}

(* What an erasure does not say it failed to delete is gone: every row of   *)
(* the subject that is left when it ends was reported as failed, or was     *)
(* written while it ran ("every store and every thread is attempted even    *)
(* when one fails; the failures are raised").                               *)
LeftIsTold ==
  \A o \in Operators :
    erasure[o].pc = "audit" =>
      \A p \in Mine(o) :
        data[p] # "none" => p[1] \in erasure[o].failed \/ p \in erasure[o].since

(* "Deleting one subject cannot erase another's conversation": a thread     *)
(* that a request deleted belongs to its subject.                           *)
OwnThreadsOnly ==
  \A o \in Operators :
    erasure[o].pc \notin {"no", "refused"} =>
      \A th \in erasure[o].deleted \cap Threads : Owner[th] = erasure[o].subject

ErasureTrue == LeftIsTold /\ OwnThreadsOnly

(* "A failing store is logged and retried at the next interval; the others  *)
(* still run": a row does not outlive its retention for good in a store     *)
(* whose own purge succeeds now and then, whatever the other stores do.     *)
Names(order) == {order[i] : i \in DOMAIN order}
OldRowsGo ==
  \A name \in Stores :
    SF_vars(PurgeStore(name)) =>
      \A subject \in Subjects :
        (name \in Names(Retained) /\ data[<<name, subject>>] = "old")
          ~> data[<<name, subject>>] # "old"
=============================================================================

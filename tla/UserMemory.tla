----------------------------- MODULE UserMemory -----------------------------
(***************************************************************************)
(* The facts kept about one end user (user_memory.py over                   *)
(* services/user_facts_postgres.py).  A remember reads, writes and evicts   *)
(* in one transaction that holds the subject's advisory lock; listing       *)
(* deletes what expired under the same lock; forget, touch, the operator's  *)
(* delete and the retention sweep are single statements and take no lock.   *)
(* Every statement reads what is committed when it starts (READ COMMITTED). *)
(***************************************************************************)
EXTENDS Integers, FiniteSets

CONSTANTS
  Turns,        \* turns of the user that run beside each other, and their tools
  Facts,        \* fact_id of normalized content: remembering it twice is one fact
  MaxFacts,     \* USER_MEMORY_MAX_FACTS
  Ttl,          \* SUBJECT_DATA_RETENTION of user_facts, in ticks
  Nothing,      \* no row
  Free,         \* nobody holds the advisory lock
  MaxUses,      \* bound: counted uses
  Horizon       \* bound: the last tick

MemoryAssumption ==
  /\ MaxFacts \in Nat \ {0} /\ Ttl \in Nat \ {0} /\ Horizon \in Nat /\ MaxUses \in Nat
  /\ Free \notin Turns /\ IsFiniteSet(Facts)

VARIABLES
  facts,   \* [Facts -> row or Nothing], as committed
  lock,    \* who holds pg_advisory_xact_lock of the subject
  work,    \* per turn: where its tool call is, and what it read
  now

vars == <<facts, lock, work, now>>

Row == [uses : 0 .. MaxUses, used : 0 .. Horizon, expires : 0 .. Horizon + Ttl]
Idle == [pc |-> "idle"]

Init ==
  /\ facts = [f \in Facts |-> Nothing]
  /\ lock = Free
  /\ work = [t \in Turns |-> Idle]
  /\ now = 0

Stored == {f \in Facts : facts[f] # Nothing}
Expired(f) == facts[f].expires <= now
Live == {f \in Stored : ~Expired(f)}
SweptLate(rows) == [f \in Facts |-> IF f \in Stored /\ facts[f].expires < now THEN Nothing ELSE rows[f]]
WithoutExpired(rows) == [f \in Facts |-> IF f \in Stored /\ Expired(f) THEN Nothing ELSE rows[f]]
Go(t, w) == work' = [work EXCEPT ![t] = w]

-----------------------------------------------------------------------------
(* _remember, up to its put: the lock, the fresh read that drops what       *)
(* expired, and the row of the fact if it is still live.                    *)
Unlocked == TRUE
CanLock == lock = Free
RememberRead(t, f) ==
  /\ work[t] = Idle /\ CanLock
  /\ lock' = t
  /\ Go(t, [pc |-> "remember", fact |-> f, uses |-> IF f \in Live THEN facts[f].uses ELSE 0])
  /\ UNCHANGED <<facts, now>>

(* The put over whatever row is there by now, and _evict's read of what is  *)
(* committed with the fact just written: the least used go first, among     *)
(* those the one used longest ago, never that fact.                         *)
Before(f, g) ==
  \/ facts[f].uses < facts[g].uses
  \/ facts[f].uses = facts[g].uses /\ facts[f].used < facts[g].used
Evicted(keep) ==
  LET rest == Live \ {keep}
      excess == Cardinality(rest) + 1 - MaxFacts
  IN  {gone \in SUBSET rest :
         /\ Cardinality(gone) = IF excess > 0 THEN excess ELSE 0
         /\ \A f \in gone, g \in rest \ gone : ~Before(g, f)}

RememberPut(t) ==
  /\ work[t].pc = "remember"
  /\ \E gone \in Evicted(work[t].fact) :
       Go(t, [pc |-> "commit", fact |-> work[t].fact, gone |-> gone,
              row |-> [uses |-> work[t].uses, used |-> now, expires |-> now + Ttl]])
  /\ UNCHANGED <<facts, lock, now>>

(* The commit shows the row, the evictions and the expired that were        *)
(* dropped, and frees the lock.                                             *)
RememberCommit(t) ==
  /\ work[t].pc = "commit"
  /\ facts' = [f \in Facts |->
       IF f = work[t].fact THEN work[t].row
       ELSE IF f \in work[t].gone \/ (f \in Stored /\ Expired(f)) THEN Nothing
       ELSE facts[f]]
  /\ lock' = Free /\ Go(t, Idle)
  /\ UNCHANGED now

(* A statement waits for a row that an uncommitted remember has written.    *)
Writing(rows) == \E t \in Turns : work[t].pc = "commit" /\ work[t].fact \in rows

(* list, for list_user_facts and injection_block: what it read and found    *)
(* expired is deleted under the lock, from a fresh read.  What is injected  *)
(* is some of the live facts (what fits max_injected_chars); it is counted  *)
(* as used afterwards, by ids.                                              *)
List(t) ==
  /\ work[t] = Idle
  /\ IF \E f \in Stored : Expired(f)
     THEN Go(t, [pc |-> "sweep"])
     ELSE \E fit \in SUBSET Live : Go(t, [pc |-> "touch", ids |-> fit])
  /\ UNCHANGED <<facts, lock, now>>

ListPurge(t) ==
  /\ work[t].pc = "sweep" /\ CanLock
  /\ facts' = WithoutExpired(facts)
  /\ \E fit \in SUBSET Live : Go(t, [pc |-> "touch", ids |-> fit])
  /\ UNCHANGED <<lock, now>>

(* The use is counted on the row the statement finds, live or not.          *)
Touched(ids) ==
  [f \in Facts |-> IF f \in ids \cap Stored
                   THEN [facts[f] EXCEPT !.uses = IF @ < MaxUses THEN @ + 1 ELSE @, !.used = now]
                   ELSE facts[f]]
Touch(t) ==
  /\ work[t].pc = "touch" /\ ~Writing(work[t].ids)
  /\ facts' = Touched(work[t].ids)
  /\ Go(t, Idle)
  /\ UNCHANGED <<lock, now>>

(* forget, by the id the model names.                                       *)
Forget(t, f) ==
  /\ work[t] = Idle /\ ~Writing({f})
  /\ facts' = [facts EXCEPT ![f] = Nothing]
  /\ UNCHANGED <<lock, work, now>>

(* A tool call that fails or is cut off at its timeout: its transaction     *)
(* rolls back and gives the lock up.                                        *)
Abandon(t) ==
  /\ work[t] # Idle
  /\ lock' = IF lock = t THEN Free ELSE lock
  /\ Go(t, Idle)
  /\ UNCHANGED <<facts, now>>

(* The operator's delete_subject, and the purger's sweep of every subject.  *)
Delete ==
  /\ ~Writing(Stored)
  /\ facts' = [f \in Facts |-> Nothing]
  /\ UNCHANGED <<lock, work, now>>

Sweep ==
  /\ \E f \in Stored : Expired(f)
  /\ ~Writing({f \in Stored : Expired(f)})
  /\ facts' = WithoutExpired(facts)
  /\ UNCHANGED <<lock, work, now>>

Tick ==
  /\ now < Horizon
  /\ now' = now + 1
  /\ UNCHANGED <<facts, lock, work>>

Call(t) ==
  \/ List(t) \/ ListPurge(t) \/ Touch(t) \/ RememberPut(t) \/ RememberCommit(t) \/ Abandon(t)
  \/ \E f \in Facts : RememberRead(t, f) \/ Forget(t, f)

Next == (\E t \in Turns : Call(t)) \/ Delete \/ Sweep \/ Tick

Spec == Init /\ [][Next]_vars
(* The purger runs at every interval, a store that fails is retried at the  *)
(* next one, and a statement that waits for a row gets it in its turn; an   *)
(* open transaction ends.                                                   *)
Fairness == SF_vars(Sweep) /\ \A t \in Turns : WF_vars(RememberCommit(t))
-----------------------------------------------------------------------------
(* Type correctness of the rows, the lock and what a call carries along.    *)
TypeOK ==
  /\ facts \in [Facts -> Row \cup {Nothing}]
  /\ lock \in Turns \cup {Free} /\ now \in 0 .. Horizon
  /\ \A t \in Turns :
       work[t] \in {Idle, [pc |-> "sweep"]}
                   \cup [pc : {"remember"}, fact : Facts, uses : 0 .. MaxUses]
                   \cup [pc : {"commit"}, fact : Facts, gone : SUBSET Facts, row : Row]
                   \cup [pc : {"touch"}, ids : SUBSET Facts]

(* "Two simultaneous writes keep the configured maximum": however calls,    *)
(* expiry and deletes interleave, never more than max_facts are live.       *)
FactsBounded == Cardinality(Live) <= MaxFacts

(* "The shared purger deletes the expired facts of every user, including    *)
(* those who never return".                                                 *)
ExpiredEnds ==
  \A f \in Facts : (f \in Stored /\ Expired(f)) ~> ~(f \in Stored /\ Expired(f))

(* "A fact counts as used each time it is injected": a remember does not    *)
(* take back uses counted meanwhile.                                        *)
UsesKept ==
  [][\A f \in Facts : f \in Live /\ facts'[f] # Nothing => facts'[f].uses >= facts[f].uses]_vars
=============================================================================

----------------------------- MODULE SubjectData -----------------------------
(***************************************************************************)
(* What is stored about an end user: the facts of one user (UserMemory),    *)
(* the threads of the conversations (ThreadRetention), the stores of a      *)
(* deployment under the operator's delete (SubjectErasure).  The three      *)
(* share no state: a behaviour is one part's, and the other two stay where  *)
(* they began.                                                              *)
(***************************************************************************)
EXTENDS Integers

CONSTANTS
  FactTurns, Facts, MaxFacts, FactTtl, Nothing, Free, MaxUses, FactHorizon,
  Threads, ThreadTurns, KeepThreads, Never, ThreadHorizon,
  Subjects, Stores, Retained, Owner, Operators, MaxWrites

VARIABLES
  part, facts, lock, work, memoryNow, points, blobs, saves, purge, lastId, threadNow,
  app, data, erasure, purger, writes

Memory ==
  INSTANCE UserMemory
    WITH Turns <- FactTurns, Ttl <- FactTtl, Horizon <- FactHorizon, now <- memoryNow
Thread ==
  INSTANCE ThreadRetention
    WITH Turns <- ThreadTurns, Retention <- KeepThreads, Horizon <- ThreadHorizon, now <- threadNow
Erasure == INSTANCE SubjectErasure

ASSUME SubjectDataAssumption ==
  Memory!MemoryAssumption /\ Thread!RetentionAssumption /\ Erasure!ErasureAssumption

memoryVars == <<facts, lock, work, memoryNow>>
threadVars == <<points, blobs, saves, purge, lastId, threadNow>>
erasureVars == <<app, data, erasure, purger, writes>>
vars == <<part, memoryVars, threadVars, erasureVars>>

Init ==
  /\ part \in {"memory", "threads", "erasure"}
  /\ Memory!Init /\ Thread!Init /\ Erasure!Init
  /\ part # "erasure" => ~app.hook /\ ~app.threads

InMemory(A) == part = "memory" /\ A /\ UNCHANGED <<part, threadVars, erasureVars>>
InThreads(A) == part = "threads" /\ A /\ UNCHANGED <<part, memoryVars, erasureVars>>
InErasure(A) == part = "erasure" /\ A /\ UNCHANGED <<part, memoryVars, threadVars>>

Next == InMemory(Memory!Next) \/ InThreads(Thread!Next) \/ InErasure(Erasure!Next)

(* The fairness of the three parts, each for the behaviours that are its.   *)
Fairness ==
  /\ SF_vars(InMemory(Memory!Sweep))
  /\ \A t \in FactTurns : WF_vars(InMemory(Memory!RememberCommit(t)))
  /\ WF_vars(InThreads(Thread!Purge)) /\ SF_vars(InThreads(Thread!PurgeIdle))
  /\ SF_vars(InThreads(Thread!PurgeDelete)) /\ SF_vars(InThreads(Thread!PurgeOrphans))
  /\ SF_vars(InThreads(Thread!PurgePrune)) /\ SF_vars(InThreads(Thread!PurgeBlobs))
  /\ SF_vars(InThreads(Thread!PurgeCommit))
  /\ WF_vars(InErasure(Erasure!Purge))

Spec == Init /\ [][Next]_vars /\ Fairness
-----------------------------------------------------------------------------
(* Each part is well typed.                                                 *)
TypeOK == Memory!TypeOK /\ Thread!TypeOK /\ Erasure!TypeOK

(* What is kept of a person stays right: two remembers side by side keep    *)
(* the configured maximum of facts, the thread a turn reads can always be   *)
(* loaded, and an erasure deletes its subject's data only and tells what    *)
(* it could not.                                                            *)
SubjectDataTrue == Memory!FactsBounded /\ Thread!LatestReadable /\ Erasure!ErasureTrue

(* A checkpoint saved while the purge runs survives it.                     *)
LatestKept == [][InThreads(Thread!PurgeCommit) => Thread!LatestSurvives]_vars

(* Retention is enforced in the end, on facts, threads and stores.          *)
RetentionHolds == Memory!ExpiredEnds /\ Thread!RetentionEnforced /\ Erasure!OldRowsGo
=============================================================================

-------------------------- MODULE ThreadRetention --------------------------
(***************************************************************************)
(* The stored conversation threads (services/checkpointer.py): turns read   *)
(* and save them through LangGraph's Postgres saver, the CheckpointPurger   *)
(* removes what is idle for longer than the retention and what a later      *)
(* checkpoint superseded, the operator deletes one thread on demand.        *)
(*                                                                         *)
(* The purge is one transaction of several statements.  Each statement      *)
(* reads what is committed when it starts (READ COMMITTED), now() is the    *)
(* time the transaction began, and nothing it deletes is gone before the    *)
(* commit.  A save is one transaction of the saver's: a blob of a version   *)
(* above the one it read, and a checkpoint that names it.                   *)
(***************************************************************************)
EXTENDS Integers, FiniteSets, FiniteSetsExt

CONSTANTS
  Threads,
  Turns,        \* turns that may save; each saves once
  Retention,    \* CHECKPOINTER_RETENTION_S in ticks, or Never
  Never,
  Horizon       \* bound: the last tick

RetentionAssumption == Retention \in Nat \cup {Never} /\ Horizon \in Nat /\ Never \notin Nat

VARIABLES
  points,   \* committed rows of checkpoints
  blobs,    \* committed rows of checkpoint_blobs
  saves,    \* per turn: the saver's aupdate_state of it
  purge,    \* the purge transaction: its statement, and the rows it deletes
  lastId,   \* checkpoint ids grow with the time they are made
  now

vars == <<points, blobs, saves, purge, lastId, now>>

NoSave == [pc |-> "no"]
Resting == [pc |-> "rest"]

Init ==
  /\ points = {} /\ blobs = {} /\ lastId = 0 /\ now = 0
  /\ saves = [t \in Turns |-> NoSave]
  /\ purge = Resting

OfThread(rows, th) == {r \in rows : r.thread = th}
(* What aget_state and aupdate_state read: the row of the highest id.       *)
LatestOf(rows, th) == {p \in OfThread(rows, th) : \A q \in OfThread(rows, th) : q.id <= p.id}
BlobOf(p) == [thread |-> p.thread, version |-> p.version, by |-> p.by]

-----------------------------------------------------------------------------
(* aupdate_state reads the latest checkpoint, appends the turn's messages   *)
(* and makes the new checkpoint: an id, its time, the next version of the   *)
(* messages channel with a random part of its own.                          *)
SaveRead(t, th) ==
  /\ saves[t] = NoSave
  /\ LET base == LatestOf(points, th)
         version == IF base = {} THEN 0 ELSE (CHOOSE p \in base : TRUE).version
         turns == IF base = {} THEN {} ELSE (CHOOSE p \in base : TRUE).turns
     IN  saves' = [saves EXCEPT ![t] =
           [pc |-> "put",
            point |-> [thread |-> th, id |-> lastId + 1, ts |-> now, version |-> version + 1,
                       by |-> t, turns |-> turns \cup {t}]]]
  /\ lastId' = lastId + 1
  /\ UNCHANGED <<points, blobs, purge, now>>

(* The put, or a save that is given up at its timeout; a put the database   *)
(* was already writing may still complete after that.                       *)
SavePut(t) ==
  /\ saves[t].pc = "put"
  /\ points' = points \cup {saves[t].point}
  /\ blobs' = blobs \cup {BlobOf(saves[t].point)}
  /\ saves' = [saves EXCEPT ![t] = [pc |-> "done"]]
  /\ UNCHANGED <<purge, lastId, now>>

SaveFails(t) ==
  /\ saves[t].pc = "put"
  /\ saves' = [saves EXCEPT ![t] = [pc |-> "done"]]
  /\ UNCHANGED <<points, blobs, purge, lastId, now>>

-----------------------------------------------------------------------------
OlderThanCutoff(p) == Retention # Never /\ p.ts < purge.began - Retention
LeftPoints == points \ purge.points
LeftBlobs == blobs \ purge.blobs

(* _purge begins: with a retention it looks for idle threads first.         *)
PurgeBegin ==
  /\ purge = Resting
  /\ purge' = [pc |-> IF Retention = Never THEN "prune" ELSE "idle",
               began |-> now, threads |-> {}, points |-> {}, blobs |-> {}]
  /\ UNCHANGED <<points, blobs, saves, lastId, now>>

(* _IDLE_THREADS                                                            *)
IdleThreads == {th \in Threads : OfThread(points, th) # {}
                                 /\ \A p \in OfThread(points, th) : OlderThanCutoff(p)}
PurgeIdle ==
  /\ purge.pc = "idle"
  /\ purge' = [purge EXCEPT !.pc = IF IdleThreads = {} THEN "prune" ELSE "delete",
                            !.threads = IdleThreads]
  /\ UNCHANGED <<points, blobs, saves, lastId, now>>

(* _DELETE_IDLE_CHECKPOINTS asks each checkpoint's age once more: a save    *)
(* that came between makes its thread live again.                           *)
AllRowsOfIdle == {p \in points : p.thread \in purge.threads}
IdleRows == {p \in points : p.thread \in purge.threads /\ OlderThanCutoff(p)}
PurgeDelete ==
  /\ purge.pc = "delete"
  /\ purge' = [purge EXCEPT !.pc = "orphans", !.points = @ \cup IdleRows]
  /\ UNCHANGED <<points, blobs, saves, lastId, now>>

(* _DELETE_ORPHANED, for the blobs.                                         *)
BlobsOfIdle == {b \in blobs : b.thread \in purge.threads}
Orphans == {b \in blobs : b.thread \in purge.threads /\ OfThread(LeftPoints, b.thread) = {}}
PurgeOrphans ==
  /\ purge.pc = "orphans"
  /\ purge' = [purge EXCEPT !.pc = "prune", !.blobs = @ \cup Orphans]
  /\ UNCHANGED <<points, blobs, saves, lastId, now>>

(* _PRUNE_CHECKPOINTS: every thread keeps its latest checkpoint only.       *)
Superseded == UNION {OfThread(LeftPoints, th) \ LatestOf(LeftPoints, th) : th \in Threads}
PurgePrune ==
  /\ purge.pc = "prune"
  /\ purge' = [purge EXCEPT !.pc = "blobs", !.points = @ \cup Superseded]
  /\ UNCHANGED <<points, blobs, saves, lastId, now>>

(* _PRUNE_BLOBS: versions below the one the latest checkpoint names; the    *)
(* random part of a version is not compared.                                *)
OldBlobs == {b \in LeftBlobs : \E p \in LatestOf(LeftPoints, b.thread) : b.version < p.version}
PurgeBlobs ==
  /\ purge.pc = "blobs"
  /\ purge' = [purge EXCEPT !.pc = "commit", !.blobs = @ \cup OldBlobs]
  /\ UNCHANGED <<points, blobs, saves, lastId, now>>

PurgeCommit ==
  /\ purge.pc = "commit"
  /\ points' = LeftPoints /\ blobs' = LeftBlobs
  /\ purge' = Resting
  /\ UNCHANGED <<saves, lastId, now>>

(* Any statement may fail, and stop() cancels the task: the transaction     *)
(* rolls back, and the next interval purges again.                          *)
PurgeFails ==
  /\ purge # Resting
  /\ purge' = Resting
  /\ UNCHANGED <<points, blobs, saves, lastId, now>>

(* CheckpointThreads.delete_thread: every row of the thread.                *)
DeleteThread(th) ==
  /\ OfThread(points, th) # {}
  /\ points' = points \ OfThread(points, th)
  /\ blobs' = blobs \ OfThread(blobs, th)
  /\ UNCHANGED <<saves, purge, lastId, now>>

Tick ==
  /\ now < Horizon
  /\ now' = now + 1
  /\ UNCHANGED <<points, blobs, saves, purge, lastId>>

Purge ==
  \/ PurgeBegin \/ PurgeIdle \/ PurgeDelete \/ PurgeOrphans \/ PurgePrune \/ PurgeBlobs
  \/ PurgeCommit

Next ==
  \/ Purge \/ PurgeFails \/ Tick
  \/ \E th \in Threads : DeleteThread(th)
  \/ \E t \in Turns : SavePut(t) \/ SaveFails(t) \/ \E th \in Threads : SaveRead(t, th)

Spec == Init /\ [][Next]_vars

(* The purger comes back at every interval and a purge that is repeated     *)
(* does not fail for ever.                                                  *)
Fairness ==
  /\ WF_vars(Purge) /\ SF_vars(PurgeCommit)
  /\ SF_vars(PurgeIdle) /\ SF_vars(PurgeDelete) /\ SF_vars(PurgeOrphans)
  /\ SF_vars(PurgePrune) /\ SF_vars(PurgeBlobs)
-----------------------------------------------------------------------------
(* Type correctness of the tables and of the rows a purge has marked.       *)
TypeOK ==
  /\ \A p \in points : p.thread \in Threads /\ p.id \in 1 .. lastId /\ p.by \in p.turns
                       /\ p.turns \subseteq Turns /\ p.ts \in 0 .. now
  /\ \A b \in blobs : b.thread \in Threads /\ b.by \in Turns
  /\ purge # Resting => purge.began \in 0 .. now

(* What a turn reads can be loaded: whatever saves, deletes and purges ran  *)
(* beside each other, the blob the latest checkpoint names is stored ("a    *)
(* version below the one the latest checkpoint references can never be read *)
(* again", "keeps a blob written by a concurrent save").                    *)
LatestReadable == \A th \in Threads : \A p \in LatestOf(points, th) : BlobOf(p) \in blobs

(* "A checkpoint saved while the purge runs is newer than the cutoff and    *)
(* survives": no commit takes a thread's latest checkpoint away unless it   *)
(* outlived the retention when the purge began.                             *)
LatestSurvives ==
  \A th \in Threads : \A p \in LatestOf(points, th) : p \in points' \/ OlderThanCutoff(p)
LatestKept == [][PurgeCommit => LatestSurvives]_vars

(* Retention is enforced in the end: no thread stays idle for longer than   *)
(* the retention, and no superseded checkpoint stays.                       *)
Overdue(th) ==
  \/ OfThread(points, th) # LatestOf(points, th)
  \/ /\ Retention # Never
     /\ \E p \in LatestOf(points, th) : p.ts < now - Retention
RetentionEnforced == \A th \in Threads : Overdue(th) ~> ~Overdue(th)
=============================================================================

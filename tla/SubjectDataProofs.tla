-------------------------- MODULE SubjectDataProofs --------------------------
(***************************************************************************)
(* What SubjectData promises, proved for every number of turns, facts,      *)
(* threads, stores and requests: the facts kept of a user stay within the   *)
(* configured maximum, the latest checkpoint of a thread can always be      *)
(* loaded and survives a purge, an erasure tells what it left behind.       *)
(***************************************************************************)
EXTENDS SubjectData, Sequences, FiniteSetTheorems, WellFoundedInduction, TLAPS

-----------------------------------------------------------------------------
(* Facts.  Rows only leave what is live, until a remember commits; of the   *)
(* calls that remember, only the one that holds the lock is under way; and  *)
(* what it will commit fits, counted over what is live by then.             *)
Jobs ==
  {[pc |-> "idle"], [pc |-> "sweep"]}
  \cup [pc : {"remember"}, fact : Facts, uses : 0 .. MaxUses]
  \cup [pc : {"commit"}, fact : Facts, gone : SUBSET Facts, row : Memory!Row]
  \cup [pc : {"touch"}, ids : SUBSET Facts]

MemoryTyped ==
  /\ facts \in [Facts -> Memory!Row \cup {Nothing}]
  /\ lock \in FactTurns \cup {Free} /\ memoryNow \in 0 .. FactHorizon
  /\ work \in [FactTurns -> Jobs]

LockHeld == \A t \in FactTurns : work[t].pc \in {"remember", "commit"} => lock = t
Staying(w) == (Memory!Live \ w.gone) \ {w.fact}
CommitFits ==
  \A t \in FactTurns : work[t].pc = "commit" => Cardinality(Staying(work[t])) + 1 <= MaxFacts

MemoryInv == MemoryTyped /\ LockHeld /\ CommitFits /\ Memory!FactsBounded

LEMMA SameSizes ==
  ASSUME NEW S
  PROVE  (Memory!IsFiniteSet(S) <=> IsFiniteSet(S)) /\ Memory!Cardinality(S) = Cardinality(S)
<1>1. Memory!IsFiniteSet(S) <=> IsFiniteSet(S)
  BY DEF Memory!IsFiniteSet, IsFiniteSet
<1>2. Memory!Cardinality(S) = Cardinality(S)
  BY DEF Memory!Cardinality, Cardinality
<1> QED
  BY <1>1, <1>2

LEMMA MemoryConstants ==
  /\ MaxFacts \in Nat \ {0} /\ FactTtl \in Nat \ {0} /\ FactHorizon \in Nat /\ MaxUses \in Nat
  /\ Free \notin FactTurns /\ IsFiniteSet(Facts)
  BY SubjectDataAssumption, SameSizes DEF Memory!MemoryAssumption

LEMMA FactsFit ==
  Memory!FactsBounded <=> Cardinality(Memory!Live) <= MaxFacts
  BY SameSizes DEF Memory!FactsBounded

LEMMA JobIs ==
  ASSUME NEW w \in Jobs
  PROVE  /\ w.pc \in {"idle", "sweep", "remember", "commit", "touch"}
         /\ w.pc = "idle" => w = Memory!Idle
         /\ w.pc = "remember" => w.fact \in Facts /\ w.uses \in 0 .. MaxUses
         /\ w.pc = "commit" => w.fact \in Facts /\ w.gone \in SUBSET Facts /\ w.row \in Memory!Row
         /\ w.pc = "touch" => w.ids \in SUBSET Facts
  BY DEF Jobs, Memory!Idle

LEMMA JobsAre ==
  /\ Memory!Idle \in Jobs /\ Memory!Idle.pc = "idle"
  /\ [pc |-> "sweep"] \in Jobs
  /\ \A f \in Facts, n \in 0 .. MaxUses : [pc |-> "remember", fact |-> f, uses |-> n] \in Jobs
  /\ \A f \in Facts, g \in SUBSET Facts, r \in Memory!Row :
       [pc |-> "commit", fact |-> f, gone |-> g, row |-> r] \in Jobs
  /\ \A g \in SUBSET Facts : [pc |-> "touch", ids |-> g] \in Jobs
  BY DEF Jobs, Memory!Idle

LEMMA LiveIs ==
  ASSUME MemoryTyped
  PROVE  /\ Memory!Live \in SUBSET Facts /\ IsFiniteSet(Memory!Live)
         /\ \A f \in Memory!Live : facts[f] \in Memory!Row /\ facts[f] # Nothing
<1>1. Memory!Live \in SUBSET Facts
  BY DEF Memory!Live, Memory!Stored
<1>2. IsFiniteSet(Memory!Live)
  BY <1>1, MemoryConstants, FS_Subset
<1> QED
  BY <1>1, <1>2 DEF Memory!Live, Memory!Stored, MemoryTyped

(* What every step but a commit does to the rows.                           *)
NoneGained ==
  /\ memoryNow' \in Int /\ memoryNow <= memoryNow'
  /\ \A f \in Facts : facts'[f] # Nothing => facts[f] # Nothing /\ facts'[f].expires = facts[f].expires

LEMMA LiveShrinks ==
  ASSUME MemoryTyped, NoneGained
  PROVE  Memory!Live' \subseteq Memory!Live
<1> SUFFICES ASSUME NEW f \in Memory!Live' PROVE f \in Memory!Live
  OBVIOUS
<1>1. f \in Facts /\ facts'[f] # Nothing /\ ~(facts'[f].expires <= memoryNow')
  BY DEF Memory!Live, Memory!Stored, Memory!Expired
<1>2. facts[f] # Nothing /\ facts'[f].expires = facts[f].expires
  BY <1>1 DEF NoneGained
<1>3. facts[f].expires \in Int /\ memoryNow \in Int
  BY <1>1, <1>2, MemoryConstants DEF MemoryTyped, Memory!Row
<1>4. ~(facts[f].expires <= memoryNow)
  BY <1>1, <1>2, <1>3 DEF NoneGained
<1> QED
  BY <1>1, <1>2, <1>4 DEF Memory!Live, Memory!Stored, Memory!Expired

LEMMA FewerLive ==
  ASSUME MemoryInv, NoneGained, MemoryTyped', LockHeld',
         \A t \in FactTurns : work'[t].pc = "commit" => work'[t] = work[t]
  PROVE  MemoryInv'
<1>1. Memory!Live' \subseteq Memory!Live /\ IsFiniteSet(Memory!Live) /\ Cardinality(Memory!Live) \in Nat
  BY LiveShrinks, LiveIs, FS_CardinalityType DEF MemoryInv
<1>2. Memory!FactsBounded'
  <2>1. Cardinality(Memory!Live') <= Cardinality(Memory!Live) /\ Cardinality(Memory!Live') \in Nat
    BY <1>1, FS_Subset, FS_CardinalityType
  <2>2. Cardinality(Memory!Live') <= MaxFacts
    BY <1>1, <2>1, FactsFit, MemoryConstants DEF MemoryInv
  <2> QED
    BY <2>2, SameSizes DEF Memory!FactsBounded
<1>3. ASSUME NEW t \in FactTurns, work'[t].pc = "commit"
      PROVE  Cardinality(Staying(work[t])') + 1 <= MaxFacts
  <2>1. work'[t] = work[t]
    BY <1>3
  <2>2. Cardinality(Staying(work[t])) + 1 <= MaxFacts
    BY <1>3, <2>1 DEF MemoryInv, CommitFits
  <2>3. Staying(work[t])' \subseteq Staying(work[t]) /\ IsFiniteSet(Staying(work[t]))
    BY <1>1, <2>1, FS_Subset DEF Staying
  <2>4. Cardinality(Staying(work[t])') <= Cardinality(Staying(work[t]))
        /\ Cardinality(Staying(work[t])') \in Nat /\ Cardinality(Staying(work[t])) \in Nat
    BY <2>3, FS_Subset, FS_CardinalityType
  <2> QED
    BY <2>2, <2>4, MemoryConstants
<1>4. CommitFits'
  BY <1>3 DEF CommitFits, Staying
<1> QED
  BY <1>2, <1>4 DEF MemoryInv

(* The eviction leaves room for the fact just written.                      *)
LEMMA EvictionFits ==
  ASSUME MemoryTyped, NEW f \in Facts, NEW gone \in Memory!Evicted(f)
  PROVE  /\ gone \in SUBSET Facts
         /\ Cardinality((Memory!Live \ gone) \ {f}) + 1 <= MaxFacts
<1> DEFINE rest == Memory!Live \ {f}
           excess == Cardinality(rest) + 1 - MaxFacts
<1>1. /\ gone \in SUBSET rest
      /\ Cardinality(gone) = IF excess > 0 THEN excess ELSE 0
  BY SameSizes DEF Memory!Evicted
<1>2. Memory!Live \in SUBSET Facts /\ IsFiniteSet(rest)
  BY LiveIs, FS_Subset
<1> HIDE DEF rest
<1>3. IsFiniteSet(gone) /\ Cardinality(rest) \in Nat /\ Cardinality(gone) \in Nat
  BY <1>1, <1>2, FS_Subset, FS_CardinalityType
<1>4. Cardinality(rest \ gone) = Cardinality(rest) - Cardinality(gone)
  <2>1. rest \cap gone = gone
    BY <1>1
  <2> QED
    BY <1>2, <2>1, FS_Difference
<1>5. Cardinality(rest \ gone) + 1 <= MaxFacts
  BY <1>1, <1>3, <1>4, MemoryConstants
<1>6. (Memory!Live \ gone) \ {f} = rest \ gone
  BY DEF rest
<1>7. gone \in SUBSET Facts
  BY <1>1, <1>2 DEF rest
<1> QED
  BY <1>5, <1>6, <1>7

(* What a call does to its own record, and to no other.                     *)
LEMMA GoIs ==
  ASSUME MemoryTyped, NEW t \in FactTurns, NEW w \in Jobs, Memory!Go(t, w)
  PROVE  /\ work' \in [FactTurns -> Jobs] /\ work'[t] = w
         /\ \A q \in FactTurns \ {t} : work'[q] = work[q]
  BY DEF MemoryTyped, Memory!Go

(* A call that remembers nothing, or no longer.                             *)
LEMMA CallFits ==
  ASSUME MemoryInv, NEW t \in FactTurns, NEW w \in Jobs, Memory!Go(t, w),
         w.pc \notin {"remember", "commit"},
         facts' \in [Facts -> Memory!Row \cup {Nothing}], NoneGained, UNCHANGED memoryNow,
         lock' = lock \/ (lock = t /\ lock' = Free)
  PROVE  MemoryInv'
<1>1. /\ work' \in [FactTurns -> Jobs] /\ work'[t] = w
      /\ \A q \in FactTurns \ {t} : work'[q] = work[q]
  BY GoIs DEF MemoryInv
<1>2. MemoryTyped'
  BY <1>1 DEF MemoryInv, MemoryTyped
<1>3. LockHeld'
  BY <1>1 DEF MemoryInv, LockHeld
<1>4. \A q \in FactTurns : work'[q].pc = "commit" => work'[q] = work[q]
  BY <1>1
<1> QED
  BY <1>2, <1>3, <1>4, FewerLive

(* A statement that belongs to no call under way.                           *)
LEMMA StatementFits ==
  ASSUME MemoryInv, facts' \in [Facts -> Memory!Row \cup {Nothing}], NoneGained,
         memoryNow' \in 0 .. FactHorizon, UNCHANGED <<lock, work>>
  PROVE  MemoryInv'
<1>1. MemoryTyped' /\ LockHeld'
  BY DEF MemoryInv, MemoryTyped, LockHeld
<1> QED
  BY <1>1, FewerLive

LEMMA SameRows ==
  ASSUME MemoryInv, UNCHANGED facts,
         memoryNow' = memoryNow \/ (memoryNow' = memoryNow + 1)
  PROVE  NoneGained /\ facts' \in [Facts -> Memory!Row \cup {Nothing}]
  BY MemoryConstants DEF MemoryInv, MemoryTyped, NoneGained

LEMMA FewerRows ==
  ASSUME MemoryInv, UNCHANGED memoryNow, facts' = [f \in Facts |-> facts'[f]],
         \A f \in Facts : facts'[f] \in {Nothing, facts[f]}
  PROVE  NoneGained /\ facts' \in [Facts -> Memory!Row \cup {Nothing}]
<1>1. \A f \in Facts : facts'[f] \in Memory!Row \cup {Nothing}
  BY DEF MemoryInv, MemoryTyped
<1>2. facts' \in [Facts -> Memory!Row \cup {Nothing}]
  BY <1>1
<1> QED
  BY <1>2, MemoryConstants DEF MemoryInv, MemoryTyped, NoneGained

LEMMA LiveFits ==
  ASSUME MemoryInv, NEW fit \in SUBSET Memory!Live
  PROVE  [pc |-> "touch", ids |-> fit] \in Jobs
<1>1. fit \in SUBSET Facts
  BY LiveIs DEF MemoryInv
<1> QED
  BY <1>1, JobsAre

LEMMA MemoryStart == Memory!Init => MemoryInv
<1> SUFFICES ASSUME Memory!Init PROVE MemoryInv
  OBVIOUS
<1>1. MemoryTyped
  BY JobsAre, MemoryConstants DEF Memory!Init, MemoryTyped
<1>2. LockHeld /\ CommitFits
  BY JobsAre DEF Memory!Init, LockHeld, CommitFits
<1>3. Memory!Live = {}
  BY DEF Memory!Init, Memory!Live, Memory!Stored
<1>4. Memory!FactsBounded
  BY <1>3, FactsFit, FS_EmptySet, MemoryConstants
<1> QED
  BY <1>1, <1>2, <1>4 DEF MemoryInv

LEMMA ReadFits ==
  ASSUME MemoryInv, NEW t \in FactTurns, NEW f \in Facts, Memory!RememberRead(t, f)
  PROVE  MemoryInv'
<1> DEFINE n == IF f \in Memory!Live THEN facts[f].uses ELSE 0
           w == [pc |-> "remember", fact |-> f, uses |-> n]
<1>1. lock = Free /\ lock' = t /\ UNCHANGED <<facts, memoryNow>> /\ Memory!Go(t, w)
  BY DEF Memory!RememberRead, Memory!CanLock
<1>2. n \in 0 .. MaxUses
  <2>1. CASE f \in Memory!Live
    BY <2>1, LiveIs DEF MemoryInv, Memory!Row
  <2>2. CASE f \notin Memory!Live
    BY <2>2, MemoryConstants
  <2> QED
    BY <2>1, <2>2
<1> HIDE DEF n
<1>3. w \in Jobs /\ w.pc = "remember"
  BY <1>2, JobsAre
<1> HIDE DEF w
<1>4. /\ work' \in [FactTurns -> Jobs] /\ work'[t] = w
      /\ \A q \in FactTurns \ {t} : work'[q] = work[q]
  BY <1>1, <1>3, GoIs DEF MemoryInv
<1>5. NoneGained /\ facts' \in [Facts -> Memory!Row \cup {Nothing}]
  BY <1>1, SameRows
<1>6. MemoryTyped'
  BY <1>1, <1>4, <1>5 DEF MemoryInv, MemoryTyped
<1>7. \A q \in FactTurns : work[q].pc \notin {"remember", "commit"}
  BY <1>1, MemoryConstants DEF MemoryInv, LockHeld
<1>8. LockHeld'
  BY <1>1, <1>3, <1>4, <1>7 DEF LockHeld
<1>9. \A q \in FactTurns : work'[q].pc = "commit" => work'[q] = work[q]
  BY <1>3, <1>4
<1> QED
  BY <1>5, <1>6, <1>8, <1>9, FewerLive

LEMMA PutFits ==
  ASSUME MemoryInv, NEW t \in FactTurns, Memory!RememberPut(t)
  PROVE  MemoryInv'
<1>1. work[t].pc = "remember" /\ UNCHANGED <<facts, lock, memoryNow>>
  BY DEF Memory!RememberPut
<1>2. work[t].fact \in Facts /\ work[t].uses \in 0 .. MaxUses
  BY <1>1, JobIs DEF MemoryInv, MemoryTyped
<1> DEFINE f == work[t].fact
           row == [uses |-> work[t].uses, used |-> memoryNow, expires |-> memoryNow + FactTtl]
<1>3. PICK gone \in Memory!Evicted(f) :
        Memory!Go(t, [pc |-> "commit", fact |-> f, gone |-> gone, row |-> row])
  BY DEF Memory!RememberPut
<1> DEFINE w == [pc |-> "commit", fact |-> f, gone |-> gone, row |-> row]
<1>4. gone \in SUBSET Facts /\ Cardinality((Memory!Live \ gone) \ {f}) + 1 <= MaxFacts
  BY <1>2, <1>3, EvictionFits DEF MemoryInv
<1>5. row \in Memory!Row
  BY <1>2, MemoryConstants DEF Memory!Row, MemoryInv, MemoryTyped
<1> HIDE DEF row
<1>6. w \in Jobs /\ w.pc = "commit" /\ Staying(w) = (Memory!Live \ gone) \ {f}
  BY <1>2, <1>4, <1>5, JobsAre DEF Staying
<1> HIDE DEF w
<1>7. /\ work' \in [FactTurns -> Jobs] /\ work'[t] = w
      /\ \A q \in FactTurns \ {t} : work'[q] = work[q]
  BY <1>3, <1>6, GoIs DEF MemoryInv, w
<1>8. MemoryTyped'
  BY <1>1, <1>7 DEF MemoryInv, MemoryTyped
<1>9. LockHeld'
  BY <1>1, <1>6, <1>7 DEF MemoryInv, LockHeld
<1>10. Memory!Live' = Memory!Live
  BY <1>1 DEF Memory!Live, Memory!Stored, Memory!Expired
<1>11. ASSUME NEW q \in FactTurns, work'[q].pc = "commit"
       PROVE  Cardinality(Staying(work[q])') + 1 <= MaxFacts
  <2>1. CASE q = t
    <3>1. Staying(work[q])' = Staying(w)
      BY <1>7, <1>10, <2>1 DEF Staying
    <3> QED
      BY <1>4, <1>6, <3>1
  <2>2. CASE q # t
    <3>1. work'[q] = work[q] /\ Staying(work[q])' = Staying(work[q])
      BY <1>7, <1>10, <2>2 DEF Staying
    <3> QED
      BY <1>11, <3>1 DEF MemoryInv, CommitFits
  <2> QED
    BY <2>1, <2>2
<1>12. CommitFits'
  BY <1>11 DEF CommitFits, Staying
<1>13. Memory!FactsBounded'
  BY <1>10, SameSizes DEF MemoryInv, Memory!FactsBounded
<1> QED
  BY <1>8, <1>9, <1>12, <1>13 DEF MemoryInv

LEMMA CommitStays ==
  ASSUME MemoryInv, NEW t \in FactTurns, Memory!RememberCommit(t)
  PROVE  MemoryInv'
<1>1. work[t].pc = "commit" /\ lock' = Free /\ Memory!Go(t, Memory!Idle) /\ UNCHANGED memoryNow
  BY DEF Memory!RememberCommit
<1>2. work[t].fact \in Facts /\ work[t].gone \in SUBSET Facts /\ work[t].row \in Memory!Row
  BY <1>1, JobIs DEF MemoryInv, MemoryTyped
<1> DEFINE f == work[t].fact
           lost == {g \in Facts : g \in work[t].gone \/ (g \in Memory!Stored /\ Memory!Expired(g))}
<1>3. facts' = [g \in Facts |-> IF g = f THEN work[t].row ELSE IF g \in lost THEN Nothing ELSE facts[g]]
  BY DEF Memory!RememberCommit
<1>4. facts' \in [Facts -> Memory!Row \cup {Nothing}]
  BY <1>2, <1>3 DEF MemoryInv, MemoryTyped
<1>5. /\ work' \in [FactTurns -> Jobs] /\ work'[t] = Memory!Idle
      /\ \A q \in FactTurns \ {t} : work'[q] = work[q]
  BY <1>1, JobsAre, GoIs DEF MemoryInv
<1>6. MemoryTyped'
  BY <1>1, <1>4, <1>5 DEF MemoryInv, MemoryTyped
<1>7. \A q \in FactTurns \ {t} : work[q].pc \notin {"remember", "commit"}
  BY <1>1 DEF MemoryInv, LockHeld
<1>8. \A q \in FactTurns : work'[q].pc \notin {"remember", "commit"}
  BY <1>5, <1>7, JobsAre
<1>9. LockHeld' /\ CommitFits'
  BY <1>8 DEF LockHeld, CommitFits
<1>10. Memory!Live' \subseteq Staying(work[t]) \cup {f}
  <2> SUFFICES ASSUME NEW g \in Memory!Live', g # f PROVE g \in Staying(work[t])
    OBVIOUS
  <2>1. g \in Facts /\ facts'[g] # Nothing /\ ~(facts'[g].expires <= memoryNow)
    BY <1>1 DEF Memory!Live, Memory!Stored, Memory!Expired
  <2>2. g \notin lost /\ facts'[g] = facts[g]
    BY <1>3, <2>1
  <2> QED
    BY <2>1, <2>2 DEF Staying, Memory!Live, Memory!Stored, Memory!Expired
<1>11. Cardinality(Memory!Live') <= MaxFacts
  <2>1. IsFiniteSet(Staying(work[t])) /\ f \notin Staying(work[t])
    BY LiveIs, FS_Subset DEF Staying, MemoryInv
  <2>2. Cardinality(Staying(work[t]) \cup {f}) = Cardinality(Staying(work[t])) + 1
        /\ IsFiniteSet(Staying(work[t]) \cup {f})
    BY <2>1, FS_AddElement
  <2>3. Cardinality(Staying(work[t])) + 1 <= MaxFacts
    BY <1>1 DEF MemoryInv, CommitFits
  <2>4. Cardinality(Memory!Live') <= Cardinality(Staying(work[t]) \cup {f})
        /\ Cardinality(Memory!Live') \in Nat /\ Cardinality(Staying(work[t])) \in Nat
    BY <1>10, <2>1, <2>2, FS_Subset, FS_CardinalityType
  <2> QED
    BY <2>2, <2>3, <2>4, MemoryConstants
<1>12. Memory!FactsBounded'
  BY <1>11, SameSizes DEF Memory!FactsBounded
<1> QED
  BY <1>6, <1>9, <1>12 DEF MemoryInv

LEMMA CallsStay ==
  ASSUME MemoryInv, NEW t \in FactTurns, Memory!Call(t)
  PROVE  MemoryInv'
<1>1. CASE Memory!List(t)
  <2>1. UNCHANGED <<facts, lock, memoryNow>>
    BY <1>1 DEF Memory!List
  <2>2. NoneGained /\ facts' \in [Facts -> Memory!Row \cup {Nothing}]
    BY <2>1, SameRows
  <2>3. PICK w \in Jobs : Memory!Go(t, w) /\ w.pc \notin {"remember", "commit"}
    <3>1. CASE \E f \in Memory!Stored : Memory!Expired(f)
      BY <1>1, <3>1, JobsAre DEF Memory!List
    <3>2. CASE ~\E f \in Memory!Stored : Memory!Expired(f)
      <4>1. PICK fit \in SUBSET Memory!Live : Memory!Go(t, [pc |-> "touch", ids |-> fit])
        BY <1>1, <3>2 DEF Memory!List
      <4> QED
        BY <4>1, LiveFits
    <3> QED
      BY <3>1, <3>2
  <2> QED
    BY <2>1, <2>2, <2>3, CallFits
<1>2. CASE Memory!ListPurge(t)
  <2>1. UNCHANGED <<lock, memoryNow>> /\ facts' = Memory!WithoutExpired(facts)
    BY <1>2 DEF Memory!ListPurge
  <2>2. NoneGained /\ facts' \in [Facts -> Memory!Row \cup {Nothing}]
    BY <2>1, FewerRows DEF Memory!WithoutExpired
  <2>3. PICK fit \in SUBSET Memory!Live : Memory!Go(t, [pc |-> "touch", ids |-> fit])
    BY <1>2 DEF Memory!ListPurge
  <2>4. [pc |-> "touch", ids |-> fit] \in Jobs
    BY LiveFits
  <2> QED
    BY <2>1, <2>2, <2>3, <2>4, CallFits
<1>3. CASE Memory!Touch(t)
  <2>1. /\ UNCHANGED <<lock, memoryNow>> /\ Memory!Go(t, Memory!Idle)
        /\ facts' = Memory!Touched(work[t].ids)
    BY <1>3 DEF Memory!Touch
  <2>2. ASSUME NEW f \in Facts
        PROVE  /\ facts'[f] \in Memory!Row \cup {Nothing}
               /\ facts'[f] # Nothing => facts[f] # Nothing /\ facts'[f].expires = facts[f].expires
    <3>1. CASE f \in work[t].ids \cap Memory!Stored
      <4>1. facts[f] \in Memory!Row /\ facts[f] # Nothing
        BY <3>1 DEF MemoryInv, MemoryTyped, Memory!Stored
      <4> DEFINE n == IF facts[f].uses < MaxUses THEN facts[f].uses + 1 ELSE facts[f].uses
      <4>2. facts'[f] = [facts[f] EXCEPT !.uses = n, !.used = memoryNow]
        BY <2>1, <3>1 DEF Memory!Touched
      <4>3. n \in 0 .. MaxUses /\ memoryNow \in 0 .. FactHorizon
        BY <4>1, MemoryConstants DEF MemoryInv, MemoryTyped, Memory!Row
      <4> HIDE DEF n
      <4> QED
        BY <4>1, <4>2, <4>3 DEF Memory!Row
    <3>2. CASE f \notin work[t].ids \cap Memory!Stored
      BY <2>1, <3>2 DEF Memory!Touched, MemoryInv, MemoryTyped
    <3> QED
      BY <3>1, <3>2
  <2>3. facts' \in [Facts -> Memory!Row \cup {Nothing}]
    BY <2>1, <2>2 DEF Memory!Touched
  <2>4. NoneGained
    BY <2>1, <2>2, MemoryConstants DEF NoneGained, MemoryInv, MemoryTyped
  <2> QED
    BY <2>1, <2>3, <2>4, JobsAre, CallFits
<1>4. CASE Memory!RememberPut(t)
  BY <1>4, PutFits
<1>5. CASE Memory!RememberCommit(t)
  BY <1>5, CommitStays
<1>6. CASE Memory!Abandon(t)
  <2>1. UNCHANGED <<facts, memoryNow>> /\ Memory!Go(t, Memory!Idle)
        /\ (lock' = lock \/ (lock = t /\ lock' = Free))
    BY <1>6 DEF Memory!Abandon
  <2>2. NoneGained /\ facts' \in [Facts -> Memory!Row \cup {Nothing}]
    BY <2>1, SameRows
  <2> QED
    BY <2>1, <2>2, JobsAre, CallFits
<1>7. ASSUME NEW f \in Facts, Memory!RememberRead(t, f)
      PROVE  MemoryInv'
  BY <1>7, ReadFits
<1>8. ASSUME NEW f \in Facts, Memory!Forget(t, f)
      PROVE  MemoryInv'
  <2>1. facts' = [facts EXCEPT ![f] = Nothing] /\ UNCHANGED <<lock, work, memoryNow>>
    BY <1>8 DEF Memory!Forget
  <2>2. facts' = [g \in Facts |-> facts'[g]] /\ \A g \in Facts : facts'[g] \in {Nothing, facts[g]}
    BY <2>1 DEF MemoryInv, MemoryTyped
  <2>3. NoneGained /\ facts' \in [Facts -> Memory!Row \cup {Nothing}]
    BY <2>1, <2>2, FewerRows
  <2> QED
    BY <2>1, <2>3, StatementFits DEF MemoryInv, MemoryTyped
<1> QED
  BY <1>1, <1>2, <1>3, <1>4, <1>5, <1>6, <1>7, <1>8 DEF Memory!Call

LEMMA MemoryStep ==
  ASSUME MemoryInv, Memory!Next
  PROVE  MemoryInv'
<1>1. ASSUME NEW t \in FactTurns, Memory!Call(t)
      PROVE  MemoryInv'
  BY <1>1, CallsStay
<1>2. CASE Memory!Delete
  <2>1. facts' = [f \in Facts |-> Nothing] /\ UNCHANGED <<lock, work, memoryNow>>
    BY <1>2 DEF Memory!Delete
  <2>2. NoneGained /\ facts' \in [Facts -> Memory!Row \cup {Nothing}]
    BY <2>1, FewerRows
  <2> QED
    BY <2>1, <2>2, StatementFits DEF MemoryInv, MemoryTyped
<1>3. CASE Memory!Sweep
  <2>1. facts' = Memory!WithoutExpired(facts) /\ UNCHANGED <<lock, work, memoryNow>>
    BY <1>3 DEF Memory!Sweep
  <2>2. NoneGained /\ facts' \in [Facts -> Memory!Row \cup {Nothing}]
    BY <2>1, FewerRows DEF Memory!WithoutExpired
  <2> QED
    BY <2>1, <2>2, StatementFits DEF MemoryInv, MemoryTyped
<1>4. CASE Memory!Tick
  <2>1. memoryNow < FactHorizon /\ memoryNow' = memoryNow + 1 /\ UNCHANGED <<facts, lock, work>>
    BY <1>4 DEF Memory!Tick
  <2>2. NoneGained /\ facts' \in [Facts -> Memory!Row \cup {Nothing}]
    BY <2>1, SameRows
  <2>3. memoryNow' \in 0 .. FactHorizon
    BY <2>1, MemoryConstants DEF MemoryInv, MemoryTyped
  <2> QED
    BY <2>1, <2>2, <2>3, StatementFits
<1> QED
  BY <1>1, <1>2, <1>3, <1>4 DEF Memory!Next

LEMMA MemorySame ==
  ASSUME MemoryInv, UNCHANGED memoryVars
  PROVE  MemoryInv'
<1>1. NoneGained /\ facts' \in [Facts -> Memory!Row \cup {Nothing}]
  BY SameRows DEF memoryVars
<1> QED
  BY <1>1, StatementFits DEF memoryVars, MemoryInv, MemoryTyped

-----------------------------------------------------------------------------
(* Threads.  Ids and times grow together, over the checkpoints stored and   *)
(* the ones a save carries; what a turn has not yet put is in no table and  *)
(* marked by no purge; and of every checkpoint that stays there is a later  *)
(* one, or itself, whose blob stays: in the tables, and in what they will   *)
(* be once the purge under way commits.                                     *)
PointRows ==
  [thread : Threads, id : Nat, ts : Nat, version : Nat, by : ThreadTurns, turns : SUBSET ThreadTurns]
BlobRows == [thread : Threads, version : Nat, by : ThreadTurns]
Saves == {Thread!NoSave, [pc |-> "done"]} \cup [pc : {"put"}, point : PointRows]
PurgeRecords ==
  [pc : {"idle", "delete", "orphans", "prune", "blobs", "commit"}, began : Nat,
   threads : SUBSET Threads, points : SUBSET PointRows, blobs : SUBSET BlobRows]

Made == points \cup {saves[t].point : t \in {u \in ThreadTurns : saves[u].pc = "put"}}
RowsTyped ==
  /\ points \in SUBSET PointRows /\ blobs \in SUBSET BlobRows
  /\ saves \in [ThreadTurns -> Saves] /\ lastId \in Nat /\ threadNow \in Nat
  /\ \A t \in ThreadTurns : saves[t].pc = "put" => saves[t].point.by = t
  /\ \A p \in Made : p.id \in 1 .. lastId /\ p.ts <= threadNow /\ p.by \in p.turns
Ordered == \A p, q \in Made : (p.id = q.id => p = q) /\ (p.id < q.id => p.ts <= q.ts)
NotOf(P, B, t) == (\A p \in P : p.by # t) /\ (\A b \in B : b.by # t)
Unwritten(P, B) == \A t \in ThreadTurns : saves[t].pc # "done" => NotOf(P, B, t)
Readable(P, B) ==
  \A p \in P : \E q \in P : q.thread = p.thread /\ p.id <= q.id /\ Thread!BlobOf(q) \in B

Outlived(p, began) == KeepThreads # Never /\ p.ts < began - KeepThreads
Overtaken(p, P) == \E q \in P : q.thread = p.thread /\ p.id < q.id
PurgeRight(r) ==
  /\ r \in PurgeRecords /\ r.began <= threadNow
  /\ Unwritten(r.points, r.blobs)
  /\ \A p \in points \cap r.points : Outlived(p, r.began) \/ Overtaken(p, points)
  /\ Readable(points \ r.points, blobs \ r.blobs)

StoredRight == RowsTyped /\ Ordered /\ Unwritten(points, blobs) /\ Readable(points, blobs)
ThreadInv == StoredRight /\ (purge = Thread!Resting \/ PurgeRight(purge))

LEMMA ThreadConstants == KeepThreads \in Nat \cup {Never} /\ ThreadHorizon \in Nat /\ Never \notin Nat
  BY SubjectDataAssumption DEF Thread!RetentionAssumption

LEMMA SaveIs ==
  /\ \A s \in Saves : s.pc \in {"no", "put", "done"}
  /\ \A s \in Saves : s.pc = "put" => s.point \in PointRows
  /\ Thread!NoSave \in Saves /\ Thread!NoSave.pc = "no"
  /\ [pc |-> "done"] \in Saves
  /\ \A p \in PointRows : [pc |-> "put", point |-> p] \in Saves
  BY DEF Saves, Thread!NoSave

LEMMA GreatestIs ==
  ASSUME NEW n \in Nat, NEW S \in SUBSET (1 .. n), S # {}
  PROVE  \E x \in S : \A y \in S : y <= x
<1> DEFINE T == {n - x : x \in S}
<1>1. T \in SUBSET Nat /\ T # {}
  <2>1. \A x \in S : x \in 1 .. n /\ n - x \in Nat
    OBVIOUS
  <2>2. \A j \in T : j \in Nat
    BY <2>1
  <2>3. PICK x \in S : TRUE
    OBVIOUS
  <2>4. n - x \in T
    OBVIOUS
  <2> QED
    BY <2>2, <2>4
<1>2. PICK k \in T : \A j \in T : k <= j
  <2> HIDE DEF T
  <2>1. PICK k \in T : \A j \in T : ~ (<<j, k>> \in OpToRel(<, Nat))
    BY <1>1, WFMin, NatLessThanWellFounded, Zenon
  <2>2. \A j \in T : ~ (j < k)
    BY <1>1, <2>1 DEF OpToRel
  <2> QED
    BY <1>1, <2>2
<1>3. PICK x \in S : k = n - x
  BY <1>2
<1>4. ASSUME NEW y \in S
      PROVE  y <= x
  <2>1. k <= n - y
    BY <1>2
  <2> QED
    BY <1>3, <2>1
<1> QED
  BY <1>3, <1>4

(* The checkpoint of the highest id is the latest of its thread, and the    *)
(* only one.                                                                *)
LEMMA LatestIs ==
  ASSUME RowsTyped, Ordered, NEW P \in SUBSET points, NEW p \in P
  PROVE  \E q \in P : /\ q.thread = p.thread /\ p.id <= q.id
                      /\ Thread!LatestOf(P, p.thread) = {q}
<1> DEFINE S == {q.id : q \in {r \in P : r.thread = p.thread}}
<1>1. \A q \in P : q \in Made /\ q \in PointRows /\ q.id \in 1 .. lastId
  BY DEF RowsTyped, Made
<1>2. S \in SUBSET (1 .. lastId) /\ S # {}
  BY <1>1
<1>3. PICK x \in S : \A y \in S : y <= x
  <2> HIDE DEF S
  <2> QED
    BY <1>2, GreatestIs DEF RowsTyped
<1>4. PICK q \in P : q.thread = p.thread /\ q.id = x
  BY <1>3
<1>5. \A r \in P : r.thread = p.thread => r.id <= q.id
  BY <1>3, <1>4
<1>6. \A r \in P : r.thread = p.thread /\ q.id <= r.id => r = q
  <2> SUFFICES ASSUME NEW r \in P, r.thread = p.thread, q.id <= r.id PROVE r = q
    OBVIOUS
  <2>1. r.id <= q.id /\ r.id \in Nat /\ q.id \in Nat
    BY <1>1, <1>5
  <2>2. r.id = q.id
    BY <2>1
  <2> QED
    BY <1>1, <2>2 DEF Ordered
<1>7. Thread!LatestOf(P, p.thread) = {q}
  BY <1>4, <1>5, <1>6 DEF Thread!LatestOf, Thread!OfThread
<1> QED
  BY <1>4, <1>5, <1>7

(* The latest checkpoint of a thread is its only latest one, and its blob   *)
(* stays.                                                                   *)
LEMMA LatestStays ==
  ASSUME RowsTyped, Ordered, NEW P \in SUBSET points, NEW B, Readable(P, B),
         NEW th, NEW p \in Thread!LatestOf(P, th)
  PROVE  p \in P /\ p.thread = th /\ Thread!BlobOf(p) \in B
<1>1. p \in P /\ p.thread = th /\ \A q \in P : q.thread = th => q.id <= p.id
  BY DEF Thread!LatestOf, Thread!OfThread
<1>2. PICK q \in P : q.thread = p.thread /\ p.id <= q.id /\ Thread!BlobOf(q) \in B
  BY <1>1 DEF Readable
<1>3. p \in Made /\ q \in Made /\ p.id \in Nat /\ q.id \in Nat
  BY <1>1, <1>2 DEF RowsTyped, Made, PointRows
<1>4. q = p
  BY <1>1, <1>2, <1>3 DEF Ordered
<1> QED
  BY <1>1, <1>2, <1>4

LEMMA ThreadStart == Thread!Init => ThreadInv
<1> SUFFICES ASSUME Thread!Init PROVE ThreadInv
  OBVIOUS
<1>1. Made = {}
  BY SaveIs DEF Thread!Init, Made
<1> QED
  BY <1>1, SaveIs DEF Thread!Init, ThreadInv, StoredRight, RowsTyped, Ordered, Unwritten, NotOf, Readable

(* The purge goes on while the tables stay.                                 *)
LEMMA PurgeGoesOn ==
  ASSUME ThreadInv, NEW r, PurgeRight(r), purge' = r,
         UNCHANGED <<points, blobs, saves, lastId, threadNow>>
  PROVE  ThreadInv'
<1>1. StoredRight'
  BY DEF ThreadInv, StoredRight, RowsTyped, Made, Ordered, Unwritten, NotOf, Readable
<1>2. PurgeRight(purge)'
  BY DEF PurgeRight, Unwritten, NotOf, Readable, Overtaken
<1> QED
  BY <1>1, <1>2 DEF ThreadInv

LEMMA PurgeStops ==
  ASSUME StoredRight, purge' = Thread!Resting,
         UNCHANGED <<points, blobs, saves, lastId, threadNow>>
  PROVE  ThreadInv'
<1>1. StoredRight'
  BY DEF ThreadInv, StoredRight, RowsTyped, Made, Ordered, Unwritten, NotOf, Readable
<1>2. Thread!Resting' = Thread!Resting
  BY DEF Thread!Resting
<1> QED
  BY <1>1, <1>2 DEF ThreadInv

LEMMA BeginStays ==
  ASSUME ThreadInv, Thread!PurgeBegin
  PROVE  ThreadInv'
<1> DEFINE step == IF KeepThreads = Never THEN "prune" ELSE "idle"
           r == [pc |-> step, began |-> threadNow, threads |-> {}, points |-> {}, blobs |-> {}]
<1>1. purge' = r /\ UNCHANGED <<points, blobs, saves, lastId, threadNow>>
  BY DEF Thread!PurgeBegin
<1>2. StoredRight /\ RowsTyped
  BY DEF ThreadInv, StoredRight
<1>3. step \in {"idle", "prune"} /\ threadNow \in Nat
  BY <1>2 DEF RowsTyped
<1> HIDE DEF step
<1>4. r \in PurgeRecords
  BY <1>3 DEF PurgeRecords
<1>5. r.began = threadNow /\ r.points = {} /\ r.blobs = {}
  OBVIOUS
<1> HIDE DEF r
<1>6. points \ r.points = points /\ blobs \ r.blobs = blobs
  BY <1>5
<1>7. Readable(points \ r.points, blobs \ r.blobs)
  BY <1>2, <1>6 DEF StoredRight
<1>8. PurgeRight(r)
  BY <1>3, <1>4, <1>5, <1>7 DEF PurgeRight, Unwritten, NotOf
<1> QED
  BY <1>1, <1>8, PurgeGoesOn

LEMMA Underway ==
  ASSUME ThreadInv, purge.pc # "rest"
  PROVE  /\ PurgeRight(purge) /\ RowsTyped /\ Ordered /\ purge \in PurgeRecords
         /\ purge.threads \in SUBSET Threads /\ purge.began \in Nat
         /\ Readable(Thread!LeftPoints, Thread!LeftBlobs)
         /\ Thread!LeftPoints \in SUBSET points /\ Thread!LeftBlobs \in SUBSET blobs
<1>1. PurgeRight(purge) /\ RowsTyped /\ Ordered
  BY DEF ThreadInv, StoredRight, Thread!Resting
<1>2. purge \in PurgeRecords /\ Readable(Thread!LeftPoints, Thread!LeftBlobs)
  BY <1>1 DEF PurgeRight, Thread!LeftPoints, Thread!LeftBlobs
<1>3. purge.threads \in SUBSET Threads /\ purge.began \in Nat
  BY <1>2 DEF PurgeRecords
<1> QED
  BY <1>1, <1>2, <1>3 DEF Thread!LeftPoints, Thread!LeftBlobs

(* A statement adds rows to those it found marked.                          *)
LEMMA MarkMore ==
  ASSUME ThreadInv, purge.pc # "rest", purge' \in PurgeRecords, purge'.began = purge.began,
         purge'.points \subseteq purge.points \cup points,
         purge'.blobs \subseteq purge.blobs \cup blobs,
         UNCHANGED <<points, blobs, saves, lastId, threadNow>>,
         \A p \in points \cap purge'.points :
           p \in purge.points \/ Outlived(p, purge.began) \/ Overtaken(p, points),
         Readable(points \ purge'.points, blobs \ purge'.blobs)
  PROVE  ThreadInv'
<1> DEFINE r == purge'
<1>1. PurgeRight(purge) /\ Unwritten(points, blobs)
  BY Underway DEF ThreadInv, StoredRight
<1>2. Unwritten(r.points, r.blobs)
  BY <1>1 DEF PurgeRight, Unwritten, NotOf
<1>3. \A p \in points \cap r.points : Outlived(p, r.began) \/ Overtaken(p, points)
  BY <1>1 DEF PurgeRight
<1>4. r.began <= threadNow
  BY <1>1 DEF PurgeRight
<1>5. PurgeRight(r)
  BY <1>2, <1>3, <1>4 DEF PurgeRight
<1>6. purge' = r
  OBVIOUS
<1> HIDE DEF r
<1> QED
  BY <1>5, <1>6, PurgeGoesOn

LEMMA IdleStays ==
  ASSUME ThreadInv, Thread!PurgeIdle
  PROVE  ThreadInv'
<1> DEFINE step == IF Thread!IdleThreads = {} THEN "prune" ELSE "delete"
<1>1. /\ purge' = [purge EXCEPT !.pc = step, !.threads = Thread!IdleThreads]
      /\ UNCHANGED <<points, blobs, saves, lastId, threadNow>> /\ purge.pc = "idle"
  BY DEF Thread!PurgeIdle
<1>2. step \in {"prune", "delete"} /\ Thread!IdleThreads \in SUBSET Threads
  BY DEF Thread!IdleThreads
<1> HIDE DEF step
<1>3. /\ purge' \in PurgeRecords /\ purge'.began = purge.began
      /\ purge'.points = purge.points \cup {} /\ purge'.blobs = purge.blobs \cup {}
  <2>1. purge \in PurgeRecords /\ points \in SUBSET PointRows /\ blobs \in SUBSET BlobRows
    BY <1>1, Underway DEF RowsTyped
  <2> QED
    BY <1>1, <1>2, <2>1 DEF PurgeRecords
<1>4. Readable(Thread!LeftPoints \ {}, Thread!LeftBlobs \ {})
  <2>1. Thread!LeftPoints \ {} = Thread!LeftPoints /\ Thread!LeftBlobs \ {} = Thread!LeftBlobs
    OBVIOUS
  <2> QED
    BY <1>1, <2>1, Underway
<1>5. /\ purge'.points \subseteq purge.points \cup points
       /\ purge'.blobs \subseteq purge.blobs \cup blobs
       /\ points \ purge'.points = Thread!LeftPoints \ {}
       /\ blobs \ purge'.blobs = Thread!LeftBlobs \ {}
  BY <1>2, <1>3 DEF Thread!LeftPoints, Thread!LeftBlobs
<1>6. Readable(points \ purge'.points, blobs \ purge'.blobs)
  BY <1>4, <1>5
<1>7. \A p \in points \cap purge'.points :
         p \in purge.points \/ Outlived(p, purge.began) \/ Overtaken(p, points)
  BY <1>2, <1>3
<1> QED
  BY <1>1, <1>3, <1>5, <1>6, <1>7, MarkMore

(* What is older than the cutoff is older than what came after it: the      *)
(* checkpoint that keeps another readable outlives it.                      *)
LEMMA DeleteStays ==
  ASSUME ThreadInv, Thread!PurgeDelete
  PROVE  ThreadInv'
<1>1. /\ purge' = [purge EXCEPT !.pc = "orphans", !.points = @ \cup Thread!IdleRows]
      /\ UNCHANGED <<points, blobs, saves, lastId, threadNow>> /\ purge.pc = "delete"
  BY DEF Thread!PurgeDelete
<1> DEFINE P == Thread!IdleRows
<1>2. /\ P \in SUBSET points
      /\ \A p \in P : Outlived(p, purge.began) /\ p.thread \in purge.threads
      /\ \A p \in points \ P : p.thread \in purge.threads => ~Outlived(p, purge.began)
  BY DEF Thread!IdleRows, Thread!OlderThanCutoff, Outlived
<1>3. /\ purge' \in PurgeRecords /\ purge'.began = purge.began
      /\ purge'.points = purge.points \cup P /\ purge'.blobs = purge.blobs \cup {}
  <2>1. purge \in PurgeRecords /\ points \in SUBSET PointRows /\ blobs \in SUBSET BlobRows
    BY <1>1, Underway DEF RowsTyped
  <2> QED
    BY <1>1, <1>2, <2>1 DEF PurgeRecords
<1> HIDE DEF P
<1>4. Readable(Thread!LeftPoints \ P, Thread!LeftBlobs \ {})
  <2>1. ASSUME NEW p \in Thread!LeftPoints \ P
        PROVE  \E q \in Thread!LeftPoints \ P :
                 q.thread = p.thread /\ p.id <= q.id /\ Thread!BlobOf(q) \in Thread!LeftBlobs
    <3>1. PICK q \in Thread!LeftPoints :
            q.thread = p.thread /\ p.id <= q.id /\ Thread!BlobOf(q) \in Thread!LeftBlobs
      BY <1>1, Underway DEF Readable
    <3>2. /\ p \in Made /\ q \in Made /\ p \in points /\ q \in points
          /\ p \in PointRows /\ q \in PointRows
      BY <1>1, Underway DEF Made, RowsTyped
    <3>3. /\ p.id \in Nat /\ q.id \in Nat /\ p.ts \in Nat /\ q.ts \in Nat /\ purge.began \in Nat
      BY <1>1, <3>2, Underway DEF PointRows
    <3>4. p.ts <= q.ts
      <4>1. CASE p.id = q.id
        BY <1>1, <3>2, <3>3, <4>1, Underway DEF Ordered
      <4>2. CASE p.id < q.id
        BY <1>1, <3>2, <4>2, Underway DEF Ordered
      <4> QED
        BY <3>1, <3>3, <4>1, <4>2
    <3>5. q \notin P
      <4>1. SUFFICES ASSUME q \in P PROVE FALSE
        OBVIOUS
      <4>2. KeepThreads # Never /\ q.ts < purge.began - KeepThreads /\ p.thread \in purge.threads
        BY <1>2, <3>1, <4>1 DEF Outlived
      <4>3. ~Outlived(p, purge.began)
        BY <1>2, <2>1, <3>2, <4>2
      <4>4. KeepThreads \in Nat
        BY <4>2, ThreadConstants
      <4> QED
        BY <3>3, <3>4, <4>2, <4>3, <4>4 DEF Outlived
    <3> QED
      BY <3>1, <3>5
  <2> QED
    BY <2>1 DEF Readable
<1>5. /\ purge'.points \subseteq purge.points \cup points
       /\ purge'.blobs \subseteq purge.blobs \cup blobs
       /\ points \ purge'.points = Thread!LeftPoints \ P
       /\ blobs \ purge'.blobs = Thread!LeftBlobs \ {}
  BY <1>2, <1>3 DEF Thread!LeftPoints, Thread!LeftBlobs
<1>6. Readable(points \ purge'.points, blobs \ purge'.blobs)
  BY <1>4, <1>5
<1>7. \A p \in points \cap purge'.points :
         p \in purge.points \/ Outlived(p, purge.began) \/ Overtaken(p, points)
  BY <1>2, <1>3
<1> QED
  BY <1>1, <1>3, <1>5, <1>6, <1>7, MarkMore

LEMMA OrphansStay ==
  ASSUME ThreadInv, Thread!PurgeOrphans
  PROVE  ThreadInv'
<1>1. /\ purge' = [purge EXCEPT !.pc = "prune", !.blobs = @ \cup Thread!Orphans]
      /\ UNCHANGED <<points, blobs, saves, lastId, threadNow>> /\ purge.pc = "orphans"
  BY DEF Thread!PurgeOrphans
<1> DEFINE B == Thread!Orphans
<1>2. /\ B \in SUBSET blobs
      /\ \A b \in B, q \in Thread!LeftPoints : q.thread # b.thread
  BY DEF Thread!Orphans, Thread!OfThread
<1>3. /\ purge' \in PurgeRecords /\ purge'.began = purge.began
      /\ purge'.points = purge.points \cup {} /\ purge'.blobs = purge.blobs \cup B
  <2>1. purge \in PurgeRecords /\ points \in SUBSET PointRows /\ blobs \in SUBSET BlobRows
    BY <1>1, Underway DEF RowsTyped
  <2> QED
    BY <1>1, <1>2, <2>1 DEF PurgeRecords
<1> HIDE DEF B
<1>4. Readable(Thread!LeftPoints \ {}, Thread!LeftBlobs \ B)
  <2>1. ASSUME NEW p \in Thread!LeftPoints
        PROVE  \E q \in Thread!LeftPoints :
                 q.thread = p.thread /\ p.id <= q.id /\ Thread!BlobOf(q) \in Thread!LeftBlobs \ B
    <3>1. PICK q \in Thread!LeftPoints :
            q.thread = p.thread /\ p.id <= q.id /\ Thread!BlobOf(q) \in Thread!LeftBlobs
      BY <1>1, Underway DEF Readable
    <3>2. Thread!BlobOf(q) \notin B
      BY <1>2 DEF Thread!BlobOf
    <3> QED
      BY <3>1, <3>2
  <2> QED
    BY <2>1 DEF Readable
<1>5. /\ purge'.points \subseteq purge.points \cup points
       /\ purge'.blobs \subseteq purge.blobs \cup blobs
       /\ points \ purge'.points = Thread!LeftPoints \ {}
       /\ blobs \ purge'.blobs = Thread!LeftBlobs \ B
  BY <1>2, <1>3 DEF Thread!LeftPoints, Thread!LeftBlobs
<1>6. Readable(points \ purge'.points, blobs \ purge'.blobs)
  BY <1>4, <1>5
<1>7. \A p \in points \cap purge'.points :
         p \in purge.points \/ Outlived(p, purge.began) \/ Overtaken(p, points)
  BY <1>2, <1>3
<1> QED
  BY <1>1, <1>3, <1>5, <1>6, <1>7, MarkMore

LEMMA PruneStays ==
  ASSUME ThreadInv, Thread!PurgePrune
  PROVE  ThreadInv'
<1>1. /\ purge' = [purge EXCEPT !.pc = "blobs", !.points = @ \cup Thread!Superseded]
      /\ UNCHANGED <<points, blobs, saves, lastId, threadNow>> /\ purge.pc = "prune"
  BY DEF Thread!PurgePrune
<1> DEFINE P == Thread!Superseded
<1>2. P \in SUBSET Thread!LeftPoints
  BY DEF Thread!Superseded, Thread!OfThread
<1>3. ASSUME NEW p \in Thread!LeftPoints, p \in P
      PROVE  Overtaken(p, points)
  <2>1. p \notin Thread!LatestOf(Thread!LeftPoints, p.thread)
    BY <1>3 DEF Thread!Superseded, Thread!OfThread
  <2>2. PICK q \in Thread!LeftPoints : q.thread = p.thread /\ ~(q.id <= p.id)
    BY <1>3, <2>1 DEF Thread!LatestOf, Thread!OfThread
  <2>3. p \in PointRows /\ q \in PointRows /\ q \in points
    BY <1>1, Underway DEF RowsTyped
  <2>4. p.id < q.id
    BY <2>2, <2>3 DEF PointRows
  <2> QED
    BY <2>2, <2>3, <2>4 DEF Overtaken
<1>4. ASSUME NEW p \in Thread!LeftPoints, p \notin P
      PROVE  p \in Thread!LatestOf(Thread!LeftPoints, p.thread)
  <2>1. p.thread \in Threads
    BY <1>1, Underway DEF RowsTyped, PointRows
  <2> QED
    BY <1>4, <2>1 DEF Thread!Superseded, Thread!OfThread
<1>5. P \in SUBSET points /\ \A p \in P : Outlived(p, purge.began) \/ Overtaken(p, points)
  BY <1>1, <1>2, <1>3, Underway
<1>6. /\ purge' \in PurgeRecords /\ purge'.began = purge.began
      /\ purge'.points = purge.points \cup P /\ purge'.blobs = purge.blobs \cup {}
  <2>1. purge \in PurgeRecords /\ points \in SUBSET PointRows /\ blobs \in SUBSET BlobRows
    BY <1>1, Underway DEF RowsTyped
  <2> QED
    BY <1>1, <1>5, <2>1 DEF PurgeRecords
<1> HIDE DEF P
<1>7. Readable(Thread!LeftPoints \ P, Thread!LeftBlobs \ {})
  <2>1. ASSUME NEW p \in Thread!LeftPoints \ P
        PROVE  p.id <= p.id /\ Thread!BlobOf(p) \in Thread!LeftBlobs
    <3>1. p \in Thread!LatestOf(Thread!LeftPoints, p.thread)
      BY <1>4
    <3>2. Thread!BlobOf(p) \in Thread!LeftBlobs
      BY <1>1, <3>1, Underway, LatestStays
    <3>3. p.id \in Nat
      BY <1>1, Underway DEF RowsTyped, PointRows
    <3> QED
      BY <3>2, <3>3
  <2> QED
    BY <2>1 DEF Readable
<1>8. /\ purge'.points \subseteq purge.points \cup points
       /\ purge'.blobs \subseteq purge.blobs \cup blobs
       /\ points \ purge'.points = Thread!LeftPoints \ P
       /\ blobs \ purge'.blobs = Thread!LeftBlobs \ {}
  BY <1>5, <1>6 DEF Thread!LeftPoints, Thread!LeftBlobs
<1>9. Readable(points \ purge'.points, blobs \ purge'.blobs)
  BY <1>7, <1>8
<1>10. \A p \in points \cap purge'.points :
         p \in purge.points \/ Outlived(p, purge.began) \/ Overtaken(p, points)
  BY <1>5, <1>6
<1> QED
  BY <1>1, <1>6, <1>8, <1>9, <1>10, MarkMore

LEMMA BlobsStay ==
  ASSUME ThreadInv, Thread!PurgeBlobs
  PROVE  ThreadInv'
<1>1. /\ purge' = [purge EXCEPT !.pc = "commit", !.blobs = @ \cup Thread!OldBlobs]
      /\ UNCHANGED <<points, blobs, saves, lastId, threadNow>> /\ purge.pc = "blobs"
  BY DEF Thread!PurgeBlobs
<1> DEFINE B == Thread!OldBlobs
<1>2. /\ B \in SUBSET Thread!LeftBlobs
      /\ \A b \in B : \E p \in Thread!LatestOf(Thread!LeftPoints, b.thread) : b.version < p.version
  BY DEF Thread!OldBlobs
<1>3. B \in SUBSET blobs
  BY <1>1, <1>2, Underway
<1>4. /\ purge' \in PurgeRecords /\ purge'.began = purge.began
      /\ purge'.points = purge.points \cup {} /\ purge'.blobs = purge.blobs \cup B
  <2>1. purge \in PurgeRecords /\ points \in SUBSET PointRows /\ blobs \in SUBSET BlobRows
    BY <1>1, Underway DEF RowsTyped
  <2> QED
    BY <1>1, <1>3, <2>1 DEF PurgeRecords
<1> HIDE DEF B
<1>5. Readable(Thread!LeftPoints \ {}, Thread!LeftBlobs \ B)
  <2>1. ASSUME NEW p \in Thread!LeftPoints
        PROVE  \E q \in Thread!LeftPoints :
                 q.thread = p.thread /\ p.id <= q.id /\ Thread!BlobOf(q) \in Thread!LeftBlobs \ B
    <3>1. PICK q \in Thread!LeftPoints : /\ q.thread = p.thread /\ p.id <= q.id
                                        /\ Thread!LatestOf(Thread!LeftPoints, p.thread) = {q}
      BY <1>1, Underway, LatestIs
    <3>2. q \in Thread!LatestOf(Thread!LeftPoints, p.thread)
      BY <3>1
    <3>3. Thread!BlobOf(q) \in Thread!LeftBlobs
      BY <1>1, <3>2, Underway, LatestStays
    <3>4. q.version \in Nat
      BY <1>1, Underway DEF RowsTyped, PointRows
    <3>5. Thread!BlobOf(q).thread = p.thread /\ Thread!BlobOf(q).version = q.version
      BY <3>1 DEF Thread!BlobOf
    <3>6. Thread!BlobOf(q) \notin B
      BY <1>2, <3>1, <3>4, <3>5
    <3> QED
      BY <3>1, <3>3, <3>6
  <2> QED
    BY <2>1 DEF Readable
<1>6. /\ purge'.points \subseteq purge.points \cup points
       /\ purge'.blobs \subseteq purge.blobs \cup blobs
       /\ points \ purge'.points = Thread!LeftPoints \ {}
       /\ blobs \ purge'.blobs = Thread!LeftBlobs \ B
  BY <1>3, <1>4 DEF Thread!LeftPoints, Thread!LeftBlobs
<1>7. Readable(points \ purge'.points, blobs \ purge'.blobs)
  BY <1>5, <1>6
<1>8. \A p \in points \cap purge'.points :
         p \in purge.points \/ Outlived(p, purge.began) \/ Overtaken(p, points)
  BY <1>3, <1>4
<1> QED
  BY <1>1, <1>4, <1>6, <1>7, <1>8, MarkMore

LEMMA PurgeCommits ==
  ASSUME ThreadInv, Thread!PurgeCommit
  PROVE  ThreadInv'
<1>1. /\ points' = Thread!LeftPoints /\ blobs' = Thread!LeftBlobs /\ purge' = Thread!Resting
      /\ UNCHANGED <<saves, lastId, threadNow>> /\ purge.pc = "commit"
  BY DEF Thread!PurgeCommit
<1>2. /\ points' \subseteq points /\ blobs' \subseteq blobs /\ Made' \subseteq Made
      /\ RowsTyped /\ Ordered /\ Unwritten(points, blobs)
      /\ Readable(Thread!LeftPoints, Thread!LeftBlobs)
  BY <1>1, Underway DEF Made, ThreadInv, StoredRight
<1>3. RowsTyped'
  BY <1>1, <1>2 DEF RowsTyped
<1>4. Ordered'
  BY <1>2 DEF Ordered
<1>5. Unwritten(points, blobs)'
  BY <1>1, <1>2 DEF Unwritten, NotOf
<1>6. Readable(points, blobs)'
  BY <1>1, <1>2 DEF Readable
<1> QED
  BY <1>1, <1>3, <1>4, <1>5, <1>6 DEF ThreadInv, StoredRight, Thread!Resting

LEMMA PurgesStay ==
  ASSUME ThreadInv, Thread!Purge \/ Thread!PurgeFails
  PROVE  ThreadInv'
<1>1. CASE Thread!PurgeFails
  BY <1>1, PurgeStops DEF Thread!PurgeFails, ThreadInv
<1> QED
  BY <1>1, BeginStays, IdleStays, DeleteStays, OrphansStay, PruneStays, BlobsStay, PurgeCommits
  DEF Thread!Purge

(* A step of a turn, the operator or the clock leaves the purge its record. *)
LEMMA SaveReads ==
  ASSUME ThreadInv, NEW t \in ThreadTurns, NEW th \in Threads, Thread!SaveRead(t, th)
  PROVE  ThreadInv'
<1> DEFINE base == Thread!LatestOf(points, th)
           version == IF base = {} THEN 0 ELSE (CHOOSE p \in base : TRUE).version
           turns == IF base = {} THEN {} ELSE (CHOOSE p \in base : TRUE).turns
           new == [thread |-> th, id |-> lastId + 1, ts |-> threadNow, version |-> version + 1,
                   by |-> t, turns |-> turns \cup {t}]
<1>1. /\ saves[t] = Thread!NoSave /\ saves' = [saves EXCEPT ![t] = [pc |-> "put", point |-> new]]
      /\ lastId' = lastId + 1 /\ UNCHANGED <<points, blobs, purge, threadNow>>
  BY DEF Thread!SaveRead
<1>2. RowsTyped /\ Ordered /\ Unwritten(points, blobs) /\ Readable(points, blobs)
  BY DEF ThreadInv, StoredRight
<1>3. version \in Nat /\ turns \in SUBSET ThreadTurns
  <2>1. CASE base = {}
    BY <2>1
  <2>2. CASE base # {}
    <3>1. (CHOOSE p \in base : TRUE) \in base
      BY <2>2
    <3>2. base \in SUBSET PointRows
      BY <1>2 DEF Thread!LatestOf, Thread!OfThread, RowsTyped
    <3> QED
      BY <2>2, <3>1, <3>2 DEF PointRows
  <2> QED
    BY <2>1, <2>2
<1> HIDE DEF base, version, turns
<1>4. new \in PointRows
  BY <1>2, <1>3 DEF PointRows, RowsTyped
<1>5. new.id = lastId + 1 /\ new.ts = threadNow /\ new.by = t /\ new.by \in new.turns
  OBVIOUS
<1> HIDE DEF new
<1>6. /\ saves' \in [ThreadTurns -> Saves] /\ saves'[t] = [pc |-> "put", point |-> new]
      /\ \A u \in ThreadTurns \ {t} : saves'[u] = saves[u]
  BY <1>1, <1>2, <1>4, SaveIs DEF RowsTyped
<1>7. Made' = Made \cup {new}
  <2>1. \A p \in Made' : p \in Made \cup {new}
    BY <1>1, <1>6 DEF Made
  <2>2. new \in Made'
    BY <1>6 DEF Made
  <2>3. ASSUME NEW p \in Made
        PROVE  p \in Made'
    <3>1. CASE p \in points
      BY <1>1, <3>1 DEF Made
    <3>2. CASE p \notin points
      <4>1. PICK u \in ThreadTurns : saves[u].pc = "put" /\ p = saves[u].point
        BY <3>2 DEF Made
      <4>2. u # t
        BY <1>1, <4>1, SaveIs
      <4>3. saves'[u].pc = "put" /\ p = saves'[u].point
        BY <1>6, <4>1, <4>2
      <4> QED
        BY <4>3 DEF Made
    <3> QED
      BY <3>1, <3>2
  <2> QED
    BY <2>1, <2>2, <2>3
<1>8. \A p \in Made : p.id \in 1 .. lastId /\ p.ts <= threadNow /\ p.by \in p.turns
  BY <1>2 DEF RowsTyped
<1>9. lastId \in Nat /\ threadNow \in Nat
  BY <1>2 DEF RowsTyped
<1>10. RowsTyped'
  <2>1. \A p \in Made' : p.id \in 1 .. lastId' /\ p.ts <= threadNow' /\ p.by \in p.turns
    BY <1>1, <1>5, <1>7, <1>8, <1>9
  <2>2. \A u \in ThreadTurns : saves'[u].pc = "put" => saves'[u].point.by = u
    BY <1>2, <1>5, <1>6 DEF RowsTyped
  <2> QED
    BY <1>1, <1>2, <1>6, <2>1, <2>2 DEF RowsTyped
<1>11. Ordered'
  <2>1. \A p \in Made : p.id < new.id /\ p.id # new.id /\ p.ts <= new.ts /\ ~(new.id < p.id)
    BY <1>5, <1>8, <1>9
  <2>2. new.id = new.id /\ ~(new.id < new.id)
    BY <1>5, <1>9
  <2> QED
    BY <1>2, <1>7, <2>1, <2>2 DEF Ordered
<1>12. \A u \in ThreadTurns : saves'[u].pc # "done" => saves[u].pc # "done"
  BY <1>1, <1>6, SaveIs
<1>13. StoredRight'
  BY <1>1, <1>2, <1>10, <1>11, <1>12 DEF StoredRight, Unwritten, NotOf, Readable
<1>14. PurgeRight(purge) => PurgeRight(purge)'
  BY <1>1, <1>12 DEF PurgeRight, Unwritten, NotOf, Readable, Overtaken
<1>15. Thread!Resting' = Thread!Resting
  BY DEF Thread!Resting
<1> QED
  BY <1>1, <1>13, <1>14, <1>15 DEF ThreadInv

LEMMA SavePuts ==
  ASSUME ThreadInv, NEW t \in ThreadTurns, Thread!SavePut(t)
  PROVE  ThreadInv'
<1> DEFINE new == saves[t].point
<1>1. /\ saves[t].pc = "put" /\ saves' = [saves EXCEPT ![t] = [pc |-> "done"]]
      /\ points' = points \cup {new} /\ blobs' = blobs \cup {Thread!BlobOf(new)}
      /\ UNCHANGED <<lastId, purge, threadNow>>
  BY DEF Thread!SavePut
<1>2. RowsTyped /\ Ordered /\ Unwritten(points, blobs) /\ Readable(points, blobs)
  BY DEF ThreadInv, StoredRight
<1>3. new \in PointRows /\ new.by = t /\ new \in Made
  BY <1>1, <1>2, SaveIs DEF RowsTyped, Made
<1> HIDE DEF new
<1>4. Thread!BlobOf(new) \in BlobRows /\ Thread!BlobOf(new).by = t
  BY <1>3 DEF Thread!BlobOf, PointRows, BlobRows
<1>5. /\ saves' \in [ThreadTurns -> Saves] /\ saves'[t].pc = "done"
      /\ \A u \in ThreadTurns \ {t} : saves'[u] = saves[u]
  BY <1>1, <1>2, SaveIs DEF RowsTyped
<1>6. Made' \subseteq Made
  BY <1>1, <1>3, <1>5 DEF Made
<1>7. RowsTyped'
  <2>1. points' \in SUBSET PointRows /\ blobs' \in SUBSET BlobRows
    BY <1>1, <1>2, <1>3, <1>4 DEF RowsTyped
  <2>2. \A u \in ThreadTurns : saves'[u].pc = "put" => saves'[u].point.by = u
    BY <1>2, <1>5 DEF RowsTyped
  <2>3. \A p \in Made' : p.id \in 1 .. lastId /\ p.ts <= threadNow /\ p.by \in p.turns
    BY <1>2, <1>6 DEF RowsTyped
  <2> QED
    BY <1>1, <1>2, <1>5, <2>1, <2>2, <2>3 DEF RowsTyped
<1>8. Ordered'
  BY <1>2, <1>6 DEF Ordered
<1>9. Unwritten(points, blobs)'
  BY <1>1, <1>2, <1>3, <1>4, <1>5 DEF Unwritten, NotOf
<1>10. new.id \in Nat
  BY <1>3 DEF PointRows
<1>11. Readable(points, blobs)'
  BY <1>1, <1>2, <1>10 DEF Readable
<1>12. ASSUME PurgeRight(purge)
       PROVE  PurgeRight(purge)'
  <2>1. \A p \in purge.points : p # new
    BY <1>1, <1>3, <1>12 DEF PurgeRight, Unwritten, NotOf
  <2>2. Thread!BlobOf(new) \notin purge.blobs
    BY <1>1, <1>4, <1>12 DEF PurgeRight, Unwritten, NotOf
  <2>3. /\ points' \ purge'.points = (points \ purge.points) \cup {new}
        /\ blobs' \ purge'.blobs = (blobs \ purge.blobs) \cup {Thread!BlobOf(new)}
    BY <1>1, <2>1, <2>2
  <2>4. Readable(points \ purge.points, blobs \ purge.blobs)'
    BY <1>10, <1>12, <2>3 DEF PurgeRight, Readable
  <2>5. Unwritten(purge.points, purge.blobs)'
    BY <1>1, <1>5, <1>12 DEF PurgeRight, Unwritten, NotOf
  <2>6. \A p \in points' \cap purge'.points : Outlived(p, purge'.began) \/ Overtaken(p, points)'
    <3>1. \A p \in points' \cap purge'.points : p \in points \cap purge.points
      BY <1>1, <2>1
    <3>2. \A p : Overtaken(p, points) => Overtaken(p, points)'
      BY <1>1 DEF Overtaken
    <3>3. \A p \in points \cap purge.points : Outlived(p, purge.began) \/ Overtaken(p, points)
      BY <1>12 DEF PurgeRight
    <3> QED
      BY <1>1, <3>1, <3>2, <3>3
  <2>7. purge' \in PurgeRecords /\ purge'.began <= threadNow'
    BY <1>1, <1>12 DEF PurgeRight
  <2> QED
    BY <2>4, <2>5, <2>6, <2>7 DEF PurgeRight
<1>13. Thread!Resting' = Thread!Resting
  BY DEF Thread!Resting
<1> QED
  BY <1>1, <1>7, <1>8, <1>9, <1>11, <1>12, <1>13 DEF ThreadInv, StoredRight

LEMMA SavesFail ==
  ASSUME ThreadInv, NEW t \in ThreadTurns, Thread!SaveFails(t)
  PROVE  ThreadInv'
<1>1. /\ saves[t].pc = "put" /\ saves' = [saves EXCEPT ![t] = [pc |-> "done"]]
      /\ UNCHANGED <<points, blobs, purge, lastId, threadNow>>
  BY DEF Thread!SaveFails
<1>2. RowsTyped /\ Ordered /\ Unwritten(points, blobs) /\ Readable(points, blobs)
  BY DEF ThreadInv, StoredRight
<1>3. /\ saves' \in [ThreadTurns -> Saves] /\ saves'[t].pc = "done"
      /\ \A u \in ThreadTurns \ {t} : saves'[u] = saves[u]
  BY <1>1, <1>2, SaveIs DEF RowsTyped
<1>4. Made' \subseteq Made
  BY <1>1, <1>3 DEF Made
<1>5. RowsTyped'
  <2>1. \A u \in ThreadTurns : saves'[u].pc = "put" => saves'[u].point.by = u
    BY <1>2, <1>3 DEF RowsTyped
  <2>2. \A p \in Made' : p.id \in 1 .. lastId /\ p.ts <= threadNow /\ p.by \in p.turns
    BY <1>2, <1>4 DEF RowsTyped
  <2> QED
    BY <1>1, <1>2, <1>3, <2>1, <2>2 DEF RowsTyped
<1>6. Ordered'
  BY <1>2, <1>4 DEF Ordered
<1>7. \A u \in ThreadTurns : saves'[u].pc # "done" => saves[u].pc # "done"
  BY <1>3
<1>8. StoredRight'
  BY <1>1, <1>2, <1>5, <1>6, <1>7 DEF StoredRight, Unwritten, NotOf, Readable
<1>9. PurgeRight(purge) => PurgeRight(purge)'
  BY <1>1, <1>7 DEF PurgeRight, Unwritten, NotOf, Readable, Overtaken
<1>10. Thread!Resting' = Thread!Resting
  BY DEF Thread!Resting
<1> QED
  BY <1>1, <1>8, <1>9, <1>10 DEF ThreadInv

(* A thread goes with every row it has: what keeps a checkpoint of another  *)
(* thread readable is of that thread.                                       *)
LEMMA ThreadDeleted ==
  ASSUME ThreadInv, NEW th \in Threads, Thread!DeleteThread(th)
  PROVE  ThreadInv'
<1>1. /\ points' = {p \in points : p.thread # th} /\ blobs' = {b \in blobs : b.thread # th}
      /\ UNCHANGED <<saves, purge, lastId, threadNow>>
  BY DEF Thread!DeleteThread, Thread!OfThread
<1>2. RowsTyped /\ Ordered /\ Unwritten(points, blobs) /\ Readable(points, blobs)
  BY DEF ThreadInv, StoredRight
<1>3. points' \subseteq points /\ blobs' \subseteq blobs /\ Made' \subseteq Made
  BY <1>1 DEF Made
<1>4. RowsTyped'
  BY <1>1, <1>2, <1>3 DEF RowsTyped
<1>5. Ordered'
  BY <1>2, <1>3 DEF Ordered
<1>6. Unwritten(points, blobs)'
  BY <1>1, <1>2, <1>3 DEF Unwritten, NotOf
<1>7. \A q : Thread!BlobOf(q).thread = q.thread
  BY DEF Thread!BlobOf
<1>8. Readable(points, blobs)'
  BY <1>1, <1>2, <1>7 DEF Readable
<1>9. ASSUME PurgeRight(purge)
      PROVE  PurgeRight(purge)'
  <2>1. Readable(points \ purge.points, blobs \ purge.blobs)'
    BY <1>1, <1>7, <1>9 DEF PurgeRight, Readable
  <2>2. Unwritten(purge.points, purge.blobs)'
    BY <1>1, <1>9 DEF PurgeRight, Unwritten, NotOf
  <2>3. ASSUME NEW p \in points', p \in purge'.points
        PROVE  Outlived(p, purge'.began) \/ Overtaken(p, points)'
    <3>1. p \in points \cap purge.points /\ p.thread # th
      BY <1>1, <2>3
    <3>2. Outlived(p, purge.began) \/ Overtaken(p, points)
      BY <1>9, <3>1 DEF PurgeRight
    <3>3. Overtaken(p, points) => Overtaken(p, points)'
      BY <1>1, <3>1 DEF Overtaken
    <3> QED
      BY <1>1, <3>2, <3>3
  <2>4. purge' \in PurgeRecords /\ purge'.began <= threadNow'
    BY <1>1, <1>9 DEF PurgeRight
  <2> QED
    BY <2>1, <2>2, <2>3, <2>4 DEF PurgeRight
<1>10. Thread!Resting' = Thread!Resting
  BY DEF Thread!Resting
<1> QED
  BY <1>1, <1>4, <1>5, <1>6, <1>8, <1>9, <1>10 DEF ThreadInv, StoredRight

LEMMA TicksStay ==
  ASSUME ThreadInv, threadNow' \in {threadNow, threadNow + 1},
         UNCHANGED <<points, blobs, saves, purge, lastId>>
  PROVE  ThreadInv'
<1>1. RowsTyped /\ Ordered /\ Unwritten(points, blobs) /\ Readable(points, blobs)
  BY DEF ThreadInv, StoredRight
<1>2. Made' = Made /\ threadNow \in Nat
  BY <1>1 DEF Made, RowsTyped
<1>3. \A p \in Made : p.ts \in Nat
  BY <1>1, SaveIs DEF RowsTyped, Made, PointRows
<1>4. \A p \in Made : p.ts <= threadNow'
  BY <1>1, <1>2, <1>3 DEF RowsTyped
<1>5. RowsTyped'
  BY <1>1, <1>2, <1>4 DEF RowsTyped
<1>6. StoredRight'
  BY <1>1, <1>2, <1>5 DEF StoredRight, Ordered, Unwritten, NotOf, Readable
<1>7. ASSUME PurgeRight(purge)
      PROVE  PurgeRight(purge)'
  <2>1. purge.began \in Nat /\ purge.began <= threadNow
    BY <1>7 DEF PurgeRight, PurgeRecords
  <2>2. purge.began <= threadNow'
    BY <1>2, <2>1
  <2> QED
    BY <1>7, <2>2 DEF PurgeRight, Unwritten, NotOf, Readable, Overtaken
<1>8. Thread!Resting' = Thread!Resting
  BY DEF Thread!Resting
<1> QED
  BY <1>6, <1>7, <1>8 DEF ThreadInv

LEMMA ThreadStep ==
  ASSUME ThreadInv, Thread!Next
  PROVE  ThreadInv'
<1>1. CASE Thread!Purge \/ Thread!PurgeFails
  BY <1>1, PurgesStay
<1>2. CASE Thread!Tick
  BY <1>2, TicksStay DEF Thread!Tick
<1>3. CASE \E th \in Threads : Thread!DeleteThread(th)
  BY <1>3, ThreadDeleted
<1>4. CASE \E t \in ThreadTurns :
             Thread!SavePut(t) \/ Thread!SaveFails(t) \/ \E th \in Threads : Thread!SaveRead(t, th)
  BY <1>4, SavePuts, SavesFail, SaveReads
<1> QED
  BY <1>1, <1>2, <1>3, <1>4 DEF Thread!Next

LEMMA ThreadSame ==
  ASSUME ThreadInv, UNCHANGED threadVars
  PROVE  ThreadInv'
  BY TicksStay DEF threadVars

LEMMA ReadableStays == ThreadInv => Thread!LatestReadable
<1> SUFFICES ASSUME ThreadInv, NEW th \in Threads, NEW p \in Thread!LatestOf(points, th)
             PROVE  Thread!BlobOf(p) \in blobs
  BY DEF Thread!LatestReadable
<1>1. RowsTyped /\ Ordered /\ Readable(points, blobs)
  BY DEF ThreadInv, StoredRight
<1> QED
  BY <1>1, LatestStays

(* What a commit takes away was older than the cutoff when it was marked,   *)
(* or is not the latest.                                                    *)
LEMMA LatestOutlives ==
  ASSUME ThreadInv, Thread!PurgeCommit
  PROVE  Thread!LatestSurvives
<1> SUFFICES ASSUME NEW th \in Threads, NEW p \in Thread!LatestOf(points, th)
             PROVE  p \in points' \/ Thread!OlderThanCutoff(p)
  BY DEF Thread!LatestSurvives
<1>1. points' = points \ purge.points /\ purge.pc = "commit"
  BY DEF Thread!PurgeCommit, Thread!LeftPoints
<1>2. PurgeRight(purge) /\ RowsTyped
  BY <1>1, Underway
<1>3. p \in points /\ p.thread = th /\ \A q \in points : q.thread = th => q.id <= p.id
  BY DEF Thread!LatestOf, Thread!OfThread
<1>4. ~Overtaken(p, points)
  <2>1. ASSUME NEW q \in points, q.thread = p.thread, p.id < q.id
        PROVE  FALSE
    <3>1. q.id <= p.id /\ p.id \in Nat /\ q.id \in Nat
      BY <1>2, <1>3, <2>1 DEF RowsTyped, PointRows
    <3> QED
      BY <2>1, <3>1
  <2> QED
    BY <2>1 DEF Overtaken
<1>5. CASE p \in purge.points
  <2>1. Outlived(p, purge.began)
    BY <1>2, <1>3, <1>4, <1>5 DEF PurgeRight
  <2> QED
    BY <2>1 DEF Outlived, Thread!OlderThanCutoff
<1> QED
  BY <1>1, <1>3, <1>5

LEMMA ThreadTypes == ThreadInv => Thread!TypeOK
<1> SUFFICES ASSUME ThreadInv PROVE Thread!TypeOK
  OBVIOUS
<1>1. RowsTyped /\ threadNow \in Nat /\ lastId \in Nat
  BY DEF ThreadInv, StoredRight, RowsTyped
<1>2. ASSUME NEW p \in points
      PROVE  p.thread \in Threads /\ p.id \in 1 .. lastId /\ p.by \in p.turns
             /\ p.turns \subseteq ThreadTurns /\ p.ts \in 0 .. threadNow
  <2>1. p \in PointRows /\ p \in Made
    BY <1>1 DEF RowsTyped, Made
  <2>2. p.thread \in Threads /\ p.turns \subseteq ThreadTurns /\ p.ts \in Nat
    BY <2>1 DEF PointRows
  <2> QED
    BY <1>1, <2>1, <2>2 DEF RowsTyped
<1>3. \A b \in blobs : b.thread \in Threads /\ b.by \in ThreadTurns
  BY <1>1 DEF RowsTyped, BlobRows
<1>4. purge # Thread!Resting => purge.began \in 0 .. threadNow
  BY <1>1 DEF ThreadInv, PurgeRight, PurgeRecords
<1> QED
  BY <1>2, <1>3, <1>4 DEF Thread!TypeOK

-----------------------------------------------------------------------------
(* Erasures.  A request under way knows of every place it has been to that  *)
(* nothing is left there, that it failed, or that a turn wrote there since; *)
(* the threads it means, and so those it deletes, are the subject's.        *)
Names == Stores \cup Threads
Asked ==
  [pc : {"stores", "threads", "audit", "ok", "failed"}, subject : Subjects, left : SUBSET Names,
   threads : SUBSET Threads, deleted : SUBSET Names, failed : SUBSET Names,
   since : SUBSET Erasure!Places, audited : BOOLEAN]
Requests == {Erasure!NoErasure} \cup [pc : {"refused"}, status : {403, 409}] \cup Asked

ErasureTyped ==
  /\ app \in Erasure!Apps /\ data \in [Erasure!Places -> {"none", "fresh", "old"}]
  /\ erasure \in [Operators -> Requests] /\ purger \in Seq(Stores) /\ writes \in 0 .. MaxWrites

Visited(e, loaded) ==
  IF e.pc = "stores" THEN Stores \ e.left
  ELSE Stores \cup (IF ~loaded THEN {} ELSE IF e.pc = "threads" THEN e.threads \ e.left ELSE e.threads)
Told(e, loaded, d) ==
  \A n \in Visited(e, loaded) :
    d[<<n, e.subject>>] # "none" => n \in e.failed \/ <<n, e.subject>> \in e.since
Own(e) ==
  /\ e.threads \subseteq Erasure!Owned(e.subject)
  /\ e.deleted \cap Threads \subseteq Erasure!Owned(e.subject)
Honest(e, loaded, d) ==
  /\ e.pc \in {"stores", "threads", "audit"} => Told(e, loaded, d)
  /\ e.pc = "stores" => e.left \subseteq Stores
  /\ e.pc = "threads" => e.left \subseteq e.threads
  /\ e.pc \notin {"no", "refused"} => Own(e)
ErasureInv == ErasureTyped /\ \A o \in Operators : Honest(erasure[o], app.threads, data)

LEMMA ErasureConstants ==
  /\ Retained \in Seq(Stores) /\ Stores \cap Threads = {} /\ Owner \in [Threads -> Subjects]
  /\ MaxWrites \in Nat
  BY SubjectDataAssumption DEF Erasure!ErasureAssumption

LEMMA RequestIs ==
  ASSUME NEW e \in Requests
  PROVE  /\ e.pc \in {"no", "refused", "stores", "threads", "audit", "ok", "failed"}
         /\ e.pc \notin {"no", "refused"} => e \in Asked
  BY DEF Requests, Asked, Erasure!NoErasure

(* Rows that only leave, or age, hide nothing from a request.               *)
LEMMA FewerTold ==
  ASSUME NEW e, NEW loaded, NEW d, NEW d2, Honest(e, loaded, d),
         \A n \in Visited(e, loaded) : d2[<<n, e.subject>>] # "none" => d[<<n, e.subject>>] # "none"
  PROVE  Honest(e, loaded, d2)
  BY DEF Honest, Told

LEMMA VisitedIn ==
  ASSUME NEW e \in Asked, NEW loaded
  PROVE  \A n \in Visited(e, loaded) : n \in Names /\ <<n, e.subject>> \in Erasure!Places
<1>1. e.threads \in SUBSET Threads /\ e.subject \in Subjects
  BY DEF Asked
<1>2. \A n \in Visited(e, loaded) : n \in Names
  BY <1>1 DEF Visited, Names
<1> QED
  BY <1>1, <1>2 DEF Names, Erasure!Places

(* What one step leaves alone.                                              *)
LEMMA OthersHonest ==
  ASSUME ErasureInv, NEW o \in Operators, erasure'[o] = erasure[o], UNCHANGED app,
         \A p \in Erasure!Places : data'[p] # "none" => data[p] # "none"
  PROVE  Honest(erasure[o], app.threads, data)'
<1>1. Honest(erasure[o], app.threads, data) /\ erasure[o] \in Requests
  BY DEF ErasureInv, ErasureTyped
<1>2. CASE erasure[o].pc \in {"no", "refused"}
  BY <1>1, <1>2 DEF Honest
<1>3. CASE erasure[o].pc \notin {"no", "refused"}
  <2>1. erasure[o] \in Asked
    BY <1>1, <1>3, RequestIs
  <2>2. \A n \in Visited(erasure[o], app.threads) :
          data'[<<n, erasure[o].subject>>] # "none" => data[<<n, erasure[o].subject>>] # "none"
    BY <2>1, VisitedIn
  <2> QED
    BY <1>1, <2>2, FewerTold
<1> QED
  BY <1>2, <1>3

(* A step of one request.                                                   *)
LEMMA OneTells ==
  ASSUME ErasureInv, NEW o \in Operators, NEW r \in Requests, Erasure!Tell(o, r),
         UNCHANGED <<app, purger, writes>>, data' \in [Erasure!Places -> {"none", "fresh", "old"}],
         \A p \in Erasure!Places : data'[p] # "none" => data[p] # "none",
         Honest(r, app.threads, data')
  PROVE  ErasureInv'
<1>1. /\ erasure' \in [Operators -> Requests] /\ erasure'[o] = r
      /\ \A q \in Operators \ {o} : erasure'[q] = erasure[q]
  BY DEF ErasureInv, ErasureTyped, Erasure!Tell
<1>2. ErasureTyped'
  BY <1>1 DEF ErasureInv, ErasureTyped
<1>3. ASSUME NEW q \in Operators
      PROVE  Honest(erasure[q], app.threads, data)'
  <2>1. CASE q = o
    BY <1>1, <2>1
  <2>2. CASE q # o
    BY <1>1, <2>2, OthersHonest
  <2> QED
    BY <2>1, <2>2
<1> QED
  BY <1>2, <1>3 DEF ErasureInv

(* A step of none.                                                          *)
LEMMA NoneTells ==
  ASSUME ErasureInv, UNCHANGED <<app, erasure>>,
         data' \in [Erasure!Places -> {"none", "fresh", "old"}],
         \A p \in Erasure!Places : data'[p] # "none" => data[p] # "none",
         purger' \in Seq(Stores), writes' \in 0 .. MaxWrites
  PROVE  ErasureInv'
<1>1. ErasureTyped'
  BY DEF ErasureInv, ErasureTyped
<1>2. \A q \in Operators : Honest(erasure[q], app.threads, data)'
  BY OthersHonest
<1> QED
  BY <1>1, <1>2 DEF ErasureInv

LEMMA ErasureStart == Erasure!Init => ErasureInv
<1> SUFFICES ASSUME Erasure!Init PROVE ErasureInv
  OBVIOUS
<1>1. Erasure!NoErasure \in Requests /\ Erasure!NoErasure.pc = "no"
  BY DEF Requests, Erasure!NoErasure
<1>2. ErasureTyped
  BY <1>1, ErasureConstants DEF Erasure!Init, ErasureTyped
<1> QED
  BY <1>1, <1>2 DEF Erasure!Init, ErasureInv, Honest

LEMMA WriteStays ==
  ASSUME ErasureInv, NEW p \in Erasure!Places, Erasure!Write(p)
  PROVE  ErasureInv'
<1>1. /\ writes < MaxWrites /\ writes' = writes + 1 /\ UNCHANGED <<app, purger>>
      /\ data' = [data EXCEPT ![p] = "fresh"] /\ erasure' = Erasure!WithNote(p)
  BY DEF Erasure!Write
<1>2. ErasureTyped
  BY DEF ErasureInv
<1>3. data' \in [Erasure!Places -> {"none", "fresh", "old"}]
  BY <1>1, <1>2 DEF ErasureTyped
<1>4. \A q \in Erasure!Places : q # p => data'[q] = data[q]
  BY <1>1, <1>2 DEF ErasureTyped
<1>5. ASSUME NEW o \in Operators
      PROVE  erasure'[o] \in Requests /\ Honest(erasure'[o], app.threads, data')
  <2> DEFINE e == erasure[o]
  <2>1. e \in Requests /\ Honest(e, app.threads, data)
    BY <1>2 DEF ErasureInv, ErasureTyped
  <2>2. CASE e.pc \in {"stores", "threads", "audit"} /\ e.subject = p[2]
    <3>1. erasure'[o] = [e EXCEPT !.since = @ \cup {p}]
      BY <1>1, <2>2 DEF Erasure!WithNote
    <3>2. e \in Asked
      BY <2>1, <2>2, RequestIs
    <3> DEFINE r == [e EXCEPT !.since = @ \cup {p}]
    <3>3. /\ r \in Asked /\ r.pc = e.pc /\ r.subject = e.subject /\ r.left = e.left
          /\ r.threads = e.threads /\ r.deleted = e.deleted /\ r.failed = e.failed
          /\ r.since = e.since \cup {p}
      BY <3>2 DEF Asked
    <3> HIDE DEF r
    <3>4. Visited(r, app.threads) = Visited(e, app.threads) /\ Own(r) = Own(e)
      BY <3>3 DEF Visited, Own
    <3>5. ASSUME NEW n \in Visited(r, app.threads), data'[<<n, r.subject>>] # "none"
          PROVE  n \in r.failed \/ <<n, r.subject>> \in r.since
      <4>1. <<n, r.subject>> \in Erasure!Places
        BY <3>3, VisitedIn
      <4>2. CASE <<n, r.subject>> = p
        BY <3>3, <4>2
      <4>3. CASE <<n, r.subject>> # p
        <5>1. data[<<n, e.subject>>] # "none"
          BY <1>4, <3>3, <3>5, <4>1, <4>3
        <5>2. Told(e, app.threads, data)
          BY <2>1, <2>2 DEF Honest
        <5> QED
          BY <3>3, <3>4, <3>5, <5>1, <5>2 DEF Told
      <4> QED
        BY <4>2, <4>3
    <3>6. Told(r, app.threads, data')
      BY <3>5 DEF Told
    <3>7. Honest(r, app.threads, data')
      BY <2>1, <3>3, <3>4, <3>6 DEF Honest
    <3>8. erasure'[o] = r
      BY <3>1 DEF r
    <3> QED
      BY <3>3, <3>7, <3>8 DEF Requests
  <2>3. CASE ~(e.pc \in {"stores", "threads", "audit"} /\ e.subject = p[2])
    <3>1. erasure'[o] = e
      BY <1>1, <2>3 DEF Erasure!WithNote
    <3>2. Honest(e, app.threads, data')
      <4>1. CASE e.pc \notin {"stores", "threads", "audit"}
        BY <2>1, <4>1 DEF Honest
      <4>2. CASE e.pc \in {"stores", "threads", "audit"}
        <5>1. e \in Asked /\ e.subject # p[2]
          BY <2>1, <2>3, <4>2, RequestIs
        <5>2. \A n \in Visited(e, app.threads) : <<n, e.subject>> # p
          BY <5>1
        <5>3. \A n \in Visited(e, app.threads) : data'[<<n, e.subject>>] = data[<<n, e.subject>>]
          BY <1>4, <5>1, <5>2, VisitedIn
        <5> QED
          BY <2>1, <5>3, FewerTold
      <4> QED
        BY <4>1, <4>2
    <3> QED
      BY <2>1, <3>1, <3>2
  <2> QED
    BY <2>2, <2>3
<1>6. erasure' = [o \in Operators |-> erasure'[o]]
  BY <1>1 DEF Erasure!WithNote
<1>7. writes' \in 0 .. MaxWrites
  BY <1>1, <1>2, ErasureConstants DEF ErasureTyped
<1>8. ErasureTyped'
  BY <1>1, <1>2, <1>3, <1>5, <1>6, <1>7 DEF ErasureTyped
<1> QED
  BY <1>1, <1>5, <1>8 DEF ErasureInv

LEMMA AskStays ==
  ASSUME ErasureInv, NEW o \in Operators, NEW s \in Subjects, NEW named \in SUBSET Threads,
         Erasure!Ask(o, s, named)
  PROVE  ErasureInv'
<1> DEFINE meant == IF ~app.hook THEN {} ELSE IF named # {} THEN named ELSE Erasure!Owned(s)
           asked == [pc |-> "stores", subject |-> s, left |-> Stores, threads |-> meant,
                     deleted |-> {}, failed |-> {}, since |-> {}, audited |-> FALSE]
           no == [pc |-> "refused", status |-> 409]
           not == [pc |-> "refused", status |-> 403]
           r == IF ~app.hook /\ app.threads THEN no
                ELSE IF app.hook /\ ~Erasure!MayName(s, named) THEN not ELSE asked
<1>1. Erasure!Tell(o, r) /\ UNCHANGED <<app, data, purger, writes>>
  BY DEF Erasure!Ask
<1>2. r \in {no, not} => r \in Requests /\ Honest(r, app.threads, data')
  BY DEF Requests, Honest
<1>3. ASSUME r = asked, r \notin {no, not}
      PROVE  r \in Requests /\ Honest(r, app.threads, data')
  <2>1. app.hook => named \subseteq Erasure!Owned(s)
    BY <1>3 DEF Erasure!MayName
  <2>2. meant \in SUBSET Threads /\ meant \subseteq Erasure!Owned(s)
    BY <2>1 DEF Erasure!Owned
  <2> HIDE DEF meant
  <2>3. asked \in Asked
    BY <2>2 DEF Asked, Names
  <2>4. Visited(asked, app.threads) = {}
    BY DEF Visited
  <2>5. Own(asked)
    BY <2>2 DEF Own
  <2>6. Honest(asked, app.threads, data')
    BY <2>4, <2>5 DEF Honest, Told
  <2> QED
    BY <1>3, <2>3, <2>6 DEF Requests
<1>4. r \in Requests /\ Honest(r, app.threads, data')
  BY <1>2, <1>3
<1> HIDE DEF r
<1> QED
  BY <1>1, <1>4, OneTells DEF ErasureInv, ErasureTyped

LEMMA StoreDeleted ==
  ASSUME ErasureInv, NEW o \in Operators, NEW name \in Stores, Erasure!DeleteStore(o, name)
  PROVE  ErasureInv'
<1> DEFINE e == erasure[o]
           gone == [e EXCEPT !.left = @ \ {name}, !.deleted = @ \cup {name}]
           kept == [e EXCEPT !.left = @ \ {name}, !.failed = @ \cup {name}]
<1>1. e.pc = "stores" /\ name \in e.left /\ UNCHANGED <<app, purger, writes>>
  BY DEF Erasure!DeleteStore
<1>2. e \in Asked /\ Honest(e, app.threads, data) /\ ErasureTyped
  BY <1>1, RequestIs DEF ErasureInv, ErasureTyped
<1>3. Told(e, app.threads, data) /\ e.left \subseteq Stores /\ Own(e)
  BY <1>1, <1>2 DEF Honest
<1>4. Visited(e, app.threads) = Stores \ e.left
  BY <1>1 DEF Visited
<1>5. CASE Erasure!Tell(o, gone) /\ data' = [data EXCEPT ![<<name, e.subject>>] = "none"]
  <2>1. /\ gone \in Asked /\ gone.pc = "stores" /\ gone.subject = e.subject
        /\ gone.left = e.left \ {name} /\ gone.threads = e.threads
        /\ gone.deleted = e.deleted \cup {name} /\ gone.failed = e.failed /\ gone.since = e.since
    BY <1>1, <1>2 DEF Asked, Names
  <2> HIDE DEF gone
  <2>2. <<name, e.subject>> \in Erasure!Places
    BY <1>2 DEF Asked, Erasure!Places
  <2>3. /\ data' \in [Erasure!Places -> {"none", "fresh", "old"}]
        /\ \A p \in Erasure!Places : data'[p] # "none" => data[p] # "none"
        /\ data'[<<name, e.subject>>] = "none"
    BY <1>2, <1>5, <2>2 DEF ErasureTyped
  <2>4. ASSUME NEW n \in Visited(gone, app.threads), data'[<<n, gone.subject>>] # "none"
        PROVE  n \in gone.failed \/ <<n, gone.subject>> \in gone.since
    <3>1. n \in Stores /\ n # name /\ n \notin e.left
      BY <2>1, <2>3, <2>4 DEF Visited
    <3>2. data[<<n, e.subject>>] # "none"
      BY <2>1, <2>3, <2>4, VisitedIn
    <3> QED
      BY <1>3, <1>4, <2>1, <3>1, <3>2 DEF Told
  <2>5. Own(gone)
    BY <1>3, <2>1, ErasureConstants DEF Own
  <2>6. Honest(gone, app.threads, data')
    BY <1>3, <2>1, <2>4, <2>5 DEF Honest, Told
  <2>7. gone \in Requests
    BY <2>1 DEF Requests
  <2> QED
    BY <1>1, <1>5, <2>3, <2>6, <2>7, OneTells
<1>6. CASE Erasure!Tell(o, kept) /\ UNCHANGED data
  <2>1. /\ kept \in Asked /\ kept.pc = "stores" /\ kept.subject = e.subject
        /\ kept.left = e.left \ {name} /\ kept.threads = e.threads
        /\ kept.deleted = e.deleted /\ kept.failed = e.failed \cup {name} /\ kept.since = e.since
    BY <1>1, <1>2 DEF Asked, Names
  <2> HIDE DEF kept
  <2>2. Told(kept, app.threads, data)
    BY <1>3, <1>4, <2>1 DEF Told, Visited
  <2>3. Honest(kept, app.threads, data')
    BY <1>3, <1>6, <2>1, <2>2 DEF Honest, Own
  <2>4. kept \in Requests
    BY <2>1 DEF Requests
  <2> QED
    BY <1>1, <1>2, <1>6, <2>3, <2>4, OneTells DEF ErasureTyped
<1> QED
  BY <1>5, <1>6 DEF Erasure!DeleteStore, Erasure!Failed

LEMMA ThreadErased ==
  ASSUME ErasureInv, NEW o \in Operators, NEW th \in Threads, Erasure!DeleteThread(o, th)
  PROVE  ErasureInv'
<1> DEFINE e == erasure[o]
           gone == [e EXCEPT !.left = @ \ {th}, !.deleted = @ \cup {th}]
           kept == [e EXCEPT !.left = @ \ {th}, !.failed = @ \cup {th}]
<1>1. e.pc = "threads" /\ th \in e.left /\ UNCHANGED <<app, purger, writes>>
  BY DEF Erasure!DeleteThread
<1>2. e \in Asked /\ Honest(e, app.threads, data) /\ ErasureTyped
  BY <1>1, RequestIs DEF ErasureInv, ErasureTyped
<1>3. Told(e, app.threads, data) /\ e.left \subseteq e.threads /\ Own(e)
  BY <1>1, <1>2 DEF Honest
<1>4. Owner[th] = e.subject /\ Erasure!ThreadOf(th) = <<th, e.subject>>
  BY <1>1, <1>3 DEF Own, Erasure!Owned, Erasure!ThreadOf
<1>5. \A r : r.pc = "threads" =>
        Visited(r, app.threads) = Stores \cup (IF app.threads THEN r.threads \ r.left ELSE {})
  BY DEF Visited
<1>6. CASE Erasure!Tell(o, gone) /\ data' = [data EXCEPT ![Erasure!ThreadOf(th)] = "none"]
  <2>1. /\ gone \in Asked /\ gone.pc = "threads" /\ gone.subject = e.subject
        /\ gone.left = e.left \ {th} /\ gone.threads = e.threads
        /\ gone.deleted = e.deleted \cup {th} /\ gone.failed = e.failed /\ gone.since = e.since
    BY <1>1, <1>2 DEF Asked, Names
  <2> HIDE DEF gone
  <2>2. <<th, e.subject>> \in Erasure!Places
    BY <1>2 DEF Asked, Erasure!Places
  <2>3. /\ data' \in [Erasure!Places -> {"none", "fresh", "old"}]
        /\ \A p \in Erasure!Places : data'[p] # "none" => data[p] # "none"
        /\ data'[<<th, e.subject>>] = "none"
    BY <1>2, <1>4, <1>6, <2>2 DEF ErasureTyped
  <2>4. ASSUME NEW n \in Visited(gone, app.threads), data'[<<n, gone.subject>>] # "none"
        PROVE  n \in gone.failed \/ <<n, gone.subject>> \in gone.since
    <3>1. n # th
      BY <2>1, <2>3, <2>4
    <3>2. n \in Visited(e, app.threads)
      BY <1>1, <1>5, <2>1, <2>4, <3>1
    <3>3. data[<<n, e.subject>>] # "none"
      BY <2>1, <2>3, <2>4, VisitedIn
    <3> QED
      BY <1>3, <2>1, <3>2, <3>3 DEF Told
  <2>5. Own(gone)
    BY <1>3, <1>4, <2>1 DEF Own, Erasure!Owned
  <2>6. Honest(gone, app.threads, data')
    BY <1>3, <2>1, <2>4, <2>5 DEF Honest, Told
  <2>7. gone \in Requests
    BY <2>1 DEF Requests
  <2> QED
    BY <1>1, <1>6, <2>3, <2>6, <2>7, OneTells
<1>7. CASE Erasure!Tell(o, kept) /\ UNCHANGED data
  <2>1. /\ kept \in Asked /\ kept.pc = "threads" /\ kept.subject = e.subject
        /\ kept.left = e.left \ {th} /\ kept.threads = e.threads
        /\ kept.deleted = e.deleted /\ kept.failed = e.failed \cup {th} /\ kept.since = e.since
    BY <1>1, <1>2 DEF Asked, Names
  <2> HIDE DEF kept
  <2>2. Told(kept, app.threads, data)
    BY <1>1, <1>3, <1>5, <2>1 DEF Told
  <2>3. Honest(kept, app.threads, data')
    BY <1>3, <1>7, <2>1, <2>2 DEF Honest, Own
  <2>4. kept \in Requests
    BY <2>1 DEF Requests
  <2> QED
    BY <1>1, <1>2, <1>7, <2>3, <2>4, OneTells DEF ErasureTyped
<1> QED
  BY <1>6, <1>7 DEF Erasure!DeleteThread, Erasure!Failed

LEMMA EraseStays ==
  ASSUME ErasureInv, NEW o \in Operators, Erasure!Erase(o)
  PROVE  ErasureInv'
<1> DEFINE e == erasure[o]
<1>1. CASE Erasure!StoresDone(o)
  <2> DEFINE left == IF app.threads THEN e.threads ELSE {}
             r == [e EXCEPT !.pc = "threads", !.left = left]
  <2>1. /\ e.pc = "stores" /\ e.left = {} /\ Erasure!Tell(o, r)
        /\ UNCHANGED <<app, data, purger, writes>>
    BY <1>1 DEF Erasure!StoresDone
  <2>2. e \in Asked /\ Honest(e, app.threads, data) /\ ErasureTyped
    BY <2>1, RequestIs DEF ErasureInv, ErasureTyped
  <2>3. Told(e, app.threads, data) /\ Own(e) /\ Visited(e, app.threads) = Stores
    BY <2>1, <2>2 DEF Honest, Visited
  <2>4. left \subseteq e.threads /\ (app.threads => left = e.threads) /\ e.threads \in SUBSET Threads
    BY <2>2 DEF Asked
  <2> HIDE DEF left
  <2>5. /\ r \in Asked /\ r.pc = "threads" /\ r.subject = e.subject /\ r.left = left
        /\ r.threads = e.threads /\ r.deleted = e.deleted /\ r.failed = e.failed /\ r.since = e.since
    BY <2>2, <2>4 DEF Asked, Names
  <2> HIDE DEF r
  <2>6. Visited(r, app.threads) = Stores
    BY <2>4, <2>5 DEF Visited
  <2>7. Honest(r, app.threads, data') /\ r \in Requests
    BY <2>1, <2>3, <2>4, <2>5, <2>6 DEF Honest, Told, Own, Requests
  <2> QED
    BY <2>1, <2>2, <2>7, OneTells DEF ErasureTyped
<1>2. CASE Erasure!ThreadsDone(o)
  <2> DEFINE r == [e EXCEPT !.pc = "audit"]
  <2>1. /\ e.pc = "threads" /\ e.left = {} /\ Erasure!Tell(o, r)
        /\ UNCHANGED <<app, data, purger, writes>>
    BY <1>2 DEF Erasure!ThreadsDone
  <2>2. e \in Asked /\ Honest(e, app.threads, data) /\ ErasureTyped
    BY <2>1, RequestIs DEF ErasureInv, ErasureTyped
  <2>3. Told(e, app.threads, data) /\ Own(e)
    BY <2>1, <2>2 DEF Honest
  <2>4. /\ r \in Asked /\ r.pc = "audit" /\ r.subject = e.subject
        /\ r.threads = e.threads /\ r.deleted = e.deleted /\ r.failed = e.failed /\ r.since = e.since
    BY <2>2 DEF Asked
  <2> HIDE DEF r
  <2>5. Visited(r, app.threads) = Visited(e, app.threads)
    BY <2>1, <2>4 DEF Visited
  <2>6. Honest(r, app.threads, data') /\ r \in Requests
    BY <2>1, <2>3, <2>4, <2>5 DEF Honest, Told, Own, Requests
  <2> QED
    BY <2>1, <2>2, <2>6, OneTells DEF ErasureTyped
<1>3. CASE Erasure!Finish(o)
  <2>1. PICK audited \in BOOLEAN :
          Erasure!Tell(o, [e EXCEPT !.pc = IF e.failed = {} THEN "ok" ELSE "failed",
                                    !.audited = audited])
    BY <1>3 DEF Erasure!Finish
  <2> DEFINE end == IF e.failed = {} THEN "ok" ELSE "failed"
             r == [e EXCEPT !.pc = end, !.audited = audited]
  <2>2. /\ e.pc = "audit" /\ Erasure!Tell(o, r) /\ UNCHANGED <<app, data, purger, writes>>
    BY <1>3, <2>1 DEF Erasure!Finish
  <2>3. e \in Asked /\ Honest(e, app.threads, data) /\ ErasureTyped
    BY <2>2, RequestIs DEF ErasureInv, ErasureTyped
  <2>4. end \in {"ok", "failed"} /\ Own(e)
    BY <2>2, <2>3 DEF Honest
  <2> HIDE DEF end
  <2>5. /\ r \in Asked /\ r.pc = end /\ r.subject = e.subject
        /\ r.threads = e.threads /\ r.deleted = e.deleted
    BY <2>3, <2>4 DEF Asked
  <2> HIDE DEF r
  <2>6. Honest(r, app.threads, data') /\ r \in Requests
    BY <2>4, <2>5 DEF Honest, Own, Requests
  <2> QED
    BY <2>2, <2>3, <2>6, OneTells DEF ErasureTyped
<1> QED
  BY <1>1, <1>2, <1>3, AskStays, StoreDeleted, ThreadErased DEF Erasure!Erase

LEMMA ErasureStep ==
  ASSUME ErasureInv, Erasure!Next
  PROVE  ErasureInv'
<1>1. ErasureTyped
  BY DEF ErasureInv
<1>2. ASSUME NEW p \in Erasure!Places, Erasure!Age(p)
      PROVE  ErasureInv'
  <2>1. data[p] = "fresh" /\ data' = [data EXCEPT ![p] = "old"]
        /\ UNCHANGED <<app, erasure, purger, writes>>
    BY <1>2 DEF Erasure!Age
  <2>2. /\ data' \in [Erasure!Places -> {"none", "fresh", "old"}]
        /\ \A q \in Erasure!Places : data'[q] # "none" => data[q] # "none"
    BY <1>1, <2>1 DEF ErasureTyped
  <2> QED
    BY <1>1, <2>1, <2>2, NoneTells DEF ErasureTyped
<1>3. CASE Erasure!PurgeStart
  BY <1>1, <1>3, NoneTells, ErasureConstants DEF ErasureTyped, Erasure!PurgeStart
<1>4. ASSUME NEW name \in Stores, Erasure!PurgeStore(name)
      PROVE  ErasureInv'
  <2>1. /\ data' = [p \in Erasure!Places |-> IF p[1] = name /\ data[p] = "old" THEN "none" ELSE data[p]]
        /\ purger # <<>> /\ purger' = Tail(purger) /\ UNCHANGED <<app, erasure, writes>>
    BY <1>4 DEF Erasure!PurgeStore
  <2>2. /\ data' \in [Erasure!Places -> {"none", "fresh", "old"}]
        /\ \A q \in Erasure!Places : data'[q] # "none" => data[q] # "none"
    BY <1>1, <2>1 DEF ErasureTyped
  <2>3. purger' \in Seq(Stores) /\ writes' \in 0 .. MaxWrites
    BY <1>1, <2>1 DEF ErasureTyped
  <2> QED
    BY <2>1, <2>2, <2>3, NoneTells
<1>5. ASSUME NEW name \in Stores, Erasure!PurgeFails(name)
      PROVE  ErasureInv'
  <2>1. purger # <<>> /\ purger' = Tail(purger) /\ UNCHANGED <<app, data, erasure, writes>>
    BY <1>5 DEF Erasure!PurgeFails, Erasure!RunGoesOn
  <2>2. purger' \in Seq(Stores)
    BY <1>1, <2>1 DEF ErasureTyped
  <2> QED
    BY <1>1, <2>1, <2>2, NoneTells DEF ErasureTyped
<1> QED
  BY <1>2, <1>3, <1>4, <1>5, WriteStays, EraseStays DEF Erasure!Next, Erasure!Purge

LEMMA ErasureSame ==
  ASSUME ErasureInv, UNCHANGED erasureVars
  PROVE  ErasureInv'
  BY NoneTells DEF erasureVars, ErasureInv, ErasureTyped

LEMMA ErasureHolds == ErasureInv => Erasure!ErasureTrue
<1> SUFFICES ASSUME ErasureInv PROVE Erasure!LeftIsTold /\ Erasure!OwnThreadsOnly
  BY DEF Erasure!ErasureTrue
<1>1. ASSUME NEW o \in Operators, erasure[o].pc = "audit", NEW p \in Erasure!Mine(o), data[p] # "none"
      PROVE  p[1] \in erasure[o].failed \/ p \in erasure[o].since
  <2> DEFINE e == erasure[o]
  <2>1. Told(e, app.threads, data) /\ Own(e)
    BY <1>1 DEF ErasureInv, Honest
  <2>2. Visited(e, app.threads) = Stores \cup (IF app.threads THEN e.threads ELSE {})
    BY <1>1 DEF Visited
  <2>3. PICK n \in Visited(e, app.threads) : p = <<n, e.subject>>
    <3>1. CASE p \in Stores \X {e.subject}
      BY <2>2, <3>1
    <3>2. CASE p \notin Stores \X {e.subject}
      <4>1. PICK th \in IF app.threads THEN e.threads ELSE {} : p = Erasure!ThreadOf(th)
        BY <1>1, <3>2 DEF Erasure!Mine
      <4>2. th \in Visited(e, app.threads) /\ th \in Erasure!Owned(e.subject)
        BY <2>1, <2>2, <4>1 DEF Own
      <4> QED
        BY <4>1, <4>2 DEF Erasure!ThreadOf, Erasure!Owned
    <3> QED
      BY <3>1, <3>2
  <2> QED
    BY <1>1, <2>1, <2>3 DEF Told
<1>2. ASSUME NEW o \in Operators, erasure[o].pc \notin {"no", "refused"},
             NEW th \in erasure[o].deleted \cap Threads
      PROVE  Owner[th] = erasure[o].subject
  <2>1. Own(erasure[o])
    BY <1>2 DEF ErasureInv, Honest
  <2> QED
    BY <2>1 DEF Own, Erasure!Owned
<1> QED
  BY <1>1, <1>2 DEF Erasure!LeftIsTold, Erasure!OwnThreadsOnly

-----------------------------------------------------------------------------
(* The parts together.                                                      *)
IInv == MemoryInv /\ ThreadInv /\ ErasureInv

LEMMA Start == Init => IInv
  BY MemoryStart, ThreadStart, ErasureStart DEF Init, IInv

LEMMA Step == IInv /\ [Next]_vars => IInv'
<1> SUFFICES ASSUME IInv, [Next]_vars PROVE IInv'
  OBVIOUS
<1>1. CASE InMemory(Memory!Next)
  BY <1>1, MemoryStep, ThreadSame, ErasureSame DEF IInv, InMemory
<1>2. CASE InThreads(Thread!Next)
  BY <1>2, MemorySame, ThreadStep, ErasureSame DEF IInv, InThreads
<1>3. CASE InErasure(Erasure!Next)
  BY <1>3, MemorySame, ThreadSame, ErasureStep DEF IInv, InErasure
<1>4. CASE UNCHANGED vars
  BY <1>4, MemorySame, ThreadSame, ErasureSame DEF IInv, vars
<1> QED
  BY <1>1, <1>2, <1>3, <1>4 DEF Next

LEMMA MemoryTypes == MemoryInv => Memory!TypeOK
<1> SUFFICES ASSUME MemoryInv PROVE Memory!TypeOK
  OBVIOUS
<1>1. \A t \in FactTurns : work[t] \in Jobs
  BY DEF MemoryInv, MemoryTyped
<1> QED
  BY <1>1 DEF MemoryInv, MemoryTyped, Memory!TypeOK, Jobs, Memory!Idle

LEMMA ErasureTypes == ErasureInv => Erasure!TypeOK
  BY RequestIs DEF ErasureInv, ErasureTyped, Erasure!TypeOK

THEOREM Invariant == Spec => []IInv
  BY Start, Step, PTL DEF Spec

(* The rows of the facts, of the checkpoints and of the requests stay what  *)
(* their tables say (UserFacts, checkpoints, DeletionReport), whatever the  *)
(* turns, the purges and the operator do beside each other.                 *)
THEOREM SubjectDataTyped == Spec => []TypeOK
<1>1. IInv => TypeOK
  BY MemoryTypes, ThreadTypes, ErasureTypes DEF IInv, TypeOK
<1> QED
  BY <1>1, Invariant, PTL

(* Never more than max_facts are live, the latest checkpoint of a thread    *)
(* can always be loaded, and an erasure deletes its subject's data only and *)
(* tells what it could not: user_memory.py, checkpointer.py and the         *)
(* operator's delete.                                                       *)
THEOREM SubjectDataHolds == Spec => []SubjectDataTrue
<1>1. IInv => SubjectDataTrue
  BY ReadableStays, ErasureHolds DEF IInv, MemoryInv, SubjectDataTrue
<1> QED
  BY <1>1, Invariant, PTL

(* No commit of the purge takes a thread's latest checkpoint away unless it *)
(* outlived the retention when the purge began (CheckpointPurger._purge).   *)
THEOREM LatestAlwaysKept == Spec => LatestKept
<1>1. IInv /\ [Next]_vars => [InThreads(Thread!PurgeCommit) => Thread!LatestSurvives]_vars
  BY LatestOutlives DEF IInv, InThreads
<1> QED
  BY <1>1, Invariant, PTL DEF Spec, LatestKept
=============================================================================

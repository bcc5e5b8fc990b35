--------------------------- MODULE PlatformProofs ---------------------------
(***************************************************************************)
(* The platform around a turn, for any requests, commands and statements:   *)
(* a command from its spawn to its end (CommandRun), a guarded query from   *)
(* the statement to what the model is told (QueryRun), and the two ways a   *)
(* turn starts (TurnEntry): the limiter counts exactly the turns in flight, *)
(* a message is kept once and only from a genuine delivery, and a request   *)
(* waits for its turn only once every check has passed.  And how agents are *)
(* evaluated: one scenario (EvalRun) and the capability matrix (EvalMatrix) *)
(* report what was run.                                                     *)
(***************************************************************************)
EXTENDS
  CommandRun, QueryRun, TurnEntry, EvalMatrix, FiniteSetTheorems, WellFoundedInduction, TLAPS

-----------------------------------------------------------------------------
(* Commands.  Where a call stands tells how far its spawn has come, what    *)
(* it will answer, and whether a kill is done or armed.                     *)

Calls == {"asked", "spawning", "running", "finishing", "reaping", "ended"}
Spawns == {"none", "pending", "done", "failed", "cancelled"}

CommandTyped ==
    /\ asked \in Commands /\ call \in Calls /\ spawn \in Spawns
    /\ group \in {"none", "alive", "dead"} /\ cancels \in Nat
    /\ armed \in BOOLEAN /\ overdue \in BOOLEAN

GroupFits ==
    /\ spawn \in {"none", "failed"} => group = "none"
    /\ spawn = "done" => group /= "none"
    /\ spawn = "cancelled" => overdue

(* Outside its cleanup a call has met no cancellation; in it, the group is  *)
(* dead or its kill hangs on the spawn.                                     *)
StandsWhere ==
    /\ call = "asked" => spawn = "none" /\ cancels = 0
    /\ call = "spawning" => spawn \in {"pending", "done", "failed"} /\ cancels = 0
    /\ call = "running" => spawn = "done" /\ cancels = 0
    /\ call = "finishing" => spawn \in {"pending", "done", "failed"} /\ armed
    /\ call = "reaping" => spawn = "done" /\ group = "dead"
    /\ call \in {"finishing", "reaping"} =>
         /\ answer \in {"timeout", "cancelled"} /\ (cancels > 0 => answer = "cancelled")

(* What an ended call has answered stays true of what is left of it: only   *)
(* a cancelled one leaves a spawn that may still fork.                      *)
EndedWell ==
    call = "ended" =>
        /\ AnswersAreTrue
        /\ spawn = "pending" => answer = "cancelled"

CallInv == CommandTyped /\ GroupFits /\ StandsWhere /\ EndedWell

LEMMA CallInit == CommandInit => CallInv
<1>1. 0 \in Nat
  OBVIOUS
<1> QED
  BY <1>1, Zenon DEF CommandInit, CallInv, CommandTyped, Calls, Spawns, GroupFits, StandsWhere, EndedWell

LEMMA CallEnds ==
  ASSUME CallInv, [CommandStep]_commandVars
  PROVE  CallInv'
<1> USE DEF CallInv, CommandTyped, Calls, Spawns, GroupFits, StandsWhere, EndedWell,
            AnswersAreTrue, End
<1>1. CASE Refuse
  BY <1>1 DEF Refuse
<1>2. CASE StartSpawn
  BY <1>2 DEF StartSpawn
<1>3. CASE Fork
  BY <1>3 DEF Fork
<1>4. CASE Spawned
  BY <1>4 DEF Spawned
<1>5. CASE SpawnFails
  BY <1>5 DEF SpawnFails
<1>6. CASE KillOnceSpawned \/ Exit
  BY <1>6 DEF KillOnceSpawned, Exit
<1>7. CASE Resume
  BY <1>7 DEF Resume
<1>8. CASE CouldNotStart
  BY <1>8 DEF CouldNotStart, Finally
<1>9. CASE Completed
  BY <1>9 DEF Completed, Finally
<1>10. CASE OwnTimeout
  <2>2. CASE call = "spawning" /\ spawn /= "failed"
    <3>1. cancels' = cancels /\ ~ (cancels > 0)
      BY <1>10, <2>2 DEF OwnTimeout
    <3> QED
      BY <1>10, <2>2, <3>1, Zenon DEF OwnTimeout, Finally, Arm
  <2>3. CASE call = "spawning" /\ spawn = "failed"
    BY <1>10, <2>3 DEF OwnTimeout, Finally
  <2>4. CASE call = "running"
    BY <1>10, <2>4 DEF OwnTimeout, Finally, KillGroup
  <2> QED
    BY <1>10, <2>2, <2>3, <2>4 DEF OwnTimeout
<1>11. CASE FinishSpawn
  BY <1>11 DEF FinishSpawn, KillGroup
<1>12. CASE SpawnOverdue \/ Reaped
  BY <1>12 DEF SpawnOverdue, Reaped
<1>13. CASE Cancel
  <2>1. cancels' \in Nat /\ cancels' /= 0 /\ asked' = asked /\ spawn' = spawn
    BY <1>13 DEF Cancel
  <2>2. CASE call = "spawning" /\ spawn /= "failed"
    BY <1>13, <2>1, <2>2 DEF Cancel, Finally, Arm
  <2>3. CASE call = "spawning" /\ spawn = "failed"
    BY <1>13, <2>1, <2>3 DEF Cancel, Finally
  <2>4. CASE call = "running"
    BY <1>13, <2>1, <2>4 DEF Cancel, Finally, KillGroup
  <2>5. CASE call \in {"finishing", "reaping"}
    BY <1>13, <2>1, <2>5 DEF Cancel, Interrupted
  <2> QED
    BY <1>13, <2>2, <2>3, <2>4, <2>5 DEF Cancel
<1>14. CASE UNCHANGED commandVars
  BY <1>14 DEF commandVars
<1> QED
  BY <1>1, <1>2, <1>3, <1>4, <1>5, <1>6, <1>7, <1>8, <1>9, <1>10, <1>11, <1>12, <1>13, <1>14
     DEF CommandStep

-----------------------------------------------------------------------------
(* Whatever runs was offered and allowed.                                   *)

AskedInv ==
    /\ asked \in Commands /\ Offered(asked)
    /\ call = "asked" => spawn = "none"
    /\ spawn /= "none" => Allowed(asked)

LEMMA AskedKept ==
  ASSUME AskedInv, [CommandStep]_commandVars
  PROVE  AskedInv'
<1>1. asked' = asked
  BY DEF CommandStep, Refuse, StartSpawn, Fork, Spawned, SpawnFails, KillOnceSpawned, Exit,
         Resume, CouldNotStart, Completed, OwnTimeout, FinishSpawn, SpawnOverdue, Reaped,
         Cancel, commandVars
<1>2. spawn' /= "none" => spawn /= "none" \/ Allowed(asked)
  BY DEF AskedInv, CommandStep, Refuse, StartSpawn, Fork, Spawned, SpawnFails, KillOnceSpawned,
         Exit, Resume, CouldNotStart, Completed, OwnTimeout, FinishSpawn, SpawnOverdue, Reaped,
         Cancel, commandVars
<1>3. call' = "asked" => call = "asked" /\ spawn' = spawn
  BY DEF AskedInv, CommandStep, Refuse, StartSpawn, Fork, Spawned, SpawnFails, KillOnceSpawned,
         Exit, Resume, CouldNotStart, Completed, OwnTimeout, FinishSpawn, SpawnOverdue, Reaped,
         Cancel, Finally, End, commandVars
<1>4. Offered(asked)' /\ (Allowed(asked) => Allowed(asked)')
  BY <1>1 DEF AskedInv, Offered, Allowed
<1> QED
  BY <1>1, <1>2, <1>3, <1>4 DEF AskedInv

(* One declaration bears the name of a tool that is offered, and that one   *)
(* is what is called, its program located once and for all.                 *)
LEMMA OneDeclaration ==
  ASSUME NEW r \in Commands, r.tool = "command", Offered(r)
  PROVE  \E k \in DOMAIN r.manifest :
           /\ {i \in DOMAIN r.manifest : r.manifest[i].name = r.name} = {k}
           /\ ToolCalled(r) = Built(r.manifest[k])
<1>1. PICK e \in ToolsOf(r.manifest) : e.name = r.name
  BY DEF Offered
<1>2. PICK k \in DOMAIN r.manifest : e = Built(r.manifest[k])
  BY DEF ToolsOf
<1>3. \A i \in DOMAIN r.manifest : Built(r.manifest[i]).name = r.manifest[i].name
  BY ManifestAssumption DEF Built, EntryShape
<1>4. \A i, j \in DOMAIN r.manifest : r.manifest[i].name = r.manifest[j].name => i = j
  BY DEF Offered, ManifestLoads
<1>5. ToolCalled(r) \in ToolsOf(r.manifest) /\ ToolCalled(r).name = r.name
  BY <1>1 DEF ToolCalled
<1>6. PICK j \in DOMAIN r.manifest : ToolCalled(r) = Built(r.manifest[j])
  BY <1>5 DEF ToolsOf
<1>7. r.manifest[k].name = r.name /\ j = k
  BY <1>1, <1>2, <1>3, <1>4, <1>5, <1>6
<1> QED
  BY <1>4, <1>6, <1>7

(* An input that fits its tool fills the tool's template as it is declared. *)
LEMMA FillsAsDeclared ==
  ASSUME NEW d, EntryShape(d), ToolDeclared(d), Located(d.program),
         NEW inputs, InputsFit(Built(d), inputs)
  PROVE  AsDeclared(Built(d), inputs)
<1> DEFINE e == Built(d)
<1>1. /\ e.rest = d.rest /\ e.params = d.params
      /\ e.program.is = "literal" /\ e.program.path = "absolute"
  BY DEF Built, EntryShape, ToolDeclared, TemplateFits, Located
<1> HIDE DEF e
<1>2. DOMAIN inputs = DOMAIN d.params /\ Placed(d.rest) = DOMAIN d.params
  BY <1>1 DEF InputsFit, e, ToolDeclared, TemplateFits, RestFits
<1>3. ASSUME NEW n \in DOMAIN d.params
      PROVE  /\ inputs[n].text \notin Dashed
             /\ \A m \in d.params[n].length : m <= LengthCap /\ LengthOf[inputs[n].text] <= m
             /\ d.params[n].type = "string" =>
                  \E texts \in d.params[n].pattern \cup d.params[n].enum : inputs[n].text \in texts
  <2>1. ValueFits(inputs[n], d.params[n]) /\ ParamDeclared(d.params[n])
    BY <1>1, <1>2 DEF InputsFit, e, ToolDeclared
  <2> QED
    BY <2>1 DEF ValueFits, ParamDeclared, Narrow
<1>4. ASSUME NEW i \in DOMAIN d.rest, d.rest[i].is = "param"
      PROVE  d.rest[i].of \in DOMAIN d.params /\ Filled(e, inputs)[i] = inputs[d.rest[i].of].text
  BY <1>1, <1>2, <1>4 DEF Placed, Filled
<1>5. ASSUME NEW i \in DOMAIN d.rest, d.rest[i].is /= "param"
      PROVE  d.rest[i].is = "literal" /\ Filled(e, inputs)[i] = d.rest[i].of
  BY <1>1, <1>5 DEF Filled, EntryShape, ToolDeclared, TemplateFits, RestFits
<1>6. ASSUME NEW n \in DOMAIN inputs
      PROVE  \E i \in DOMAIN d.rest : Filled(e, inputs)[i] = inputs[n].text
  <2>1. PICK i \in DOMAIN d.rest : d.rest[i].is = "param" /\ d.rest[i].of = n
    BY <1>2 DEF Placed
  <2> QED
    BY <2>1, <1>4
<1> QED
  BY <1>1, <1>3, <1>4, <1>5, <1>6 DEF AsDeclared, e

LEMMA RunsWhatWasDeclared == AskedInv => RunsAsDeclared
<1> SUFFICES ASSUME AskedInv, asked.tool = "command", spawn /= "none"
             PROVE  /\ Cardinality({i \in DOMAIN asked.manifest :
                                      asked.manifest[i].name = asked.name}) = 1
                    /\ AsDeclared(ToolCalled(asked), asked.inputs)
  BY DEF RunsAsDeclared
<1>1. PICK k \in DOMAIN asked.manifest :
        /\ {i \in DOMAIN asked.manifest : asked.manifest[i].name = asked.name} = {k}
        /\ ToolCalled(asked) = Built(asked.manifest[k])
  BY OneDeclaration DEF AskedInv
<1>2. Cardinality({k}) = 1
  BY FS_Singleton
<1>3. ToolDeclared(asked.manifest[k]) /\ Located(asked.manifest[k].program)
  BY DEF AskedInv, Offered, ManifestLoads
<1>4. EntryShape(asked.manifest[k])
  BY ManifestAssumption DEF AskedInv
<1>5. InputsFit(ToolCalled(asked), asked.inputs)
  BY DEF AskedInv, Allowed
<1>6. AsDeclared(ToolCalled(asked), asked.inputs)
  BY <1>1, <1>3, <1>4, <1>5, FillsAsDeclared
<1> QED
  BY <1>1, <1>2, <1>6

(* What a call of a command answers is true when it is said and of what is  *)
(* left behind, whatever cancels it and however its spawn goes, and what a  *)
(* command tool runs is what its one declaration says.                      *)
THEOREM CommandsAreSafe == CommandSpec => []CommandsSafe
<1>1. CommandInit => CallInv /\ AskedInv
  BY CallInit DEF CommandInit, AskedInv
<1>2. CallInv /\ [CommandStep]_commandVars => CallInv'
  BY CallEnds
<1>3. AskedInv /\ [CommandStep]_commandVars => AskedInv'
  BY AskedKept
<1>4. CallInv /\ AskedInv => CommandsSafe
  BY RunsWhatWasDeclared DEF CallInv, EndedWell, AnswersAreTrue, CommandsSafe
<1> QED
  BY <1>1, <1>2, <1>3, <1>4, PTL DEF CommandSpec

-----------------------------------------------------------------------------
(* Queries.  What a statement reaches: only a guarded statement gets past   *)
(* the guard, and only a safe role past the check.                          *)

Steps == {"guard", "check", "declare", "fetch", "ended"}

ReachInv ==
    /\ query \in Queries /\ step \in Steps
    /\ step \in {"check", "declare", "fetch"} => Guarded(query)
    /\ step \in {"guard", "check", "declare"} => ran = {}
    /\ step \in {"declare", "fetch"} \/ ran /= {} => \A r \in checked : Safe(r)
    /\ ran /= {} => ran = {query.rendering} /\ Guarded(query)
    /\ told.kind = "rows" => told.relations = RelationsOf(query.rendering)

LEMMA ReachKept ==
  ASSUME ReachInv, [QueryStep]_queryVars
  PROVE  ReachInv'
<1> USE DEF ReachInv, Steps, Finish, Told
<1>1. CASE Guard
  BY <1>1 DEF Guard
<1>2. CASE CheckRole
  BY <1>2 DEF CheckRole
<1>3. CASE Declare
  BY <1>3 DEF Declare
<1>4. CASE Fetch
  <2>1. /\ UNCHANGED <<query, role, drifts, checked, ran, result>> /\ step = "fetch"
        /\ step' \in {"fetch", "ended"}
        /\ told' = told \/ \E n, more, cut : told' = Answered(n, more, cut)
    BY <1>4, Zenon DEF Fetch
  <2>2. \A n, more, cut : Answered(n, more, cut).relations = RelationsOf(query.rendering)
    BY DEF Answered
  <2> QED
    BY <2>1, <2>2 DEF RelationsOf
<1>5. CASE DatabaseFails \/ Cancelled
  BY <1>5 DEF DatabaseFails, Cancelled
<1>6. CASE Drift
  BY <1>6 DEF Drift
<1>7. CASE UNCHANGED queryVars
  BY <1>7 DEF queryVars
<1> QED
  BY <1>1, <1>2, <1>3, <1>4, <1>5, <1>6, <1>7 DEF QueryStep

(* A rendering that passes the guard reads what it names: every relation    *)
(* has its schema by then, and is the one candidate of that name.           *)
LEMMA GuardedReads ==
  ASSUME NEW q \in Queries, Guarded(q)
  PROVE  LET s == q.rendering
         IN  /\ s.count = 1 /\ s.root = "select" /\ s.holds = {}
             /\ DatabaseReads(s) \subseteq Relations
             /\ RelationsOf(s) = DatabaseReads(s)
<1> DEFINE s == q.rendering
<1>1. Valid(s) /\ q.again = s
  BY DEF Guarded, FixedPoint
<1>2. s.holds = {}
  BY <1>1, StatementAssumption DEF Valid
<1>3. ASSUME NEW t \in s.tables, IsRelation(t)
      PROVE  t.schema /= "" /\ Candidates(t) = {<<t.schema, t.name>>}
  <2>1. Resolves(t) /\ t.schema /= ""
    BY <1>1, <1>3, StatementAssumption DEF Valid
  <2>2. Candidates(t) /= {}
    <3>1. Cardinality({}) /= 1
      BY FS_EmptySet
    <3>2. Cardinality(Candidates(t)) = 1
      BY <2>1 DEF Resolves
    <3> QED
      BY <3>1, <3>2, Zenon
  <2>3. \A r \in Candidates(t) : r = <<t.schema, t.name>>
    BY <2>1, StatementAssumption DEF Candidates
  <2> QED
    BY <2>1, <2>2, <2>3
<1>4. \A t \in s.tables : IsRelation(t) =>
        /\ <<IF t.schema = "" THEN "pg_catalog" ELSE t.schema, t.name>> \in Candidates(t)
        /\ Candidates(t) = {<<IF t.schema = "" THEN "pg_catalog" ELSE t.schema, t.name>>}
  BY <1>3
<1>5. RelationsOf(s) = DatabaseReads(s)
  BY <1>4 DEF RelationsOf, DatabaseReads
<1>6. RelationsOf(s) \subseteq Relations
  BY DEF RelationsOf, Candidates
<1> QED
  BY <1>1, <1>2, <1>5, <1>6 DEF Valid

LEMMA SafeContains ==
  ASSUME NEW r, Safe(r)
  PROVE  ~Reaches(r) /\ MayRead(r) \subseteq Relations /\ ~MayChange(r) /\ ~SeesPast(r)
  BY DEF Safe, FindingSafe, AcceptedKind, Reaches, MayRead, MayChange, SeesPast

LEMMA ReachContains == ReachInv => QueryContained
<1> SUFFICES ASSUME ReachInv PROVE QueryContained
  OBVIOUS
<1>1. ReadsInside
  BY GuardedReads DEF ReadsInside, ReachInv
<1>2. RoleContains
  BY SafeContains DEF RoleContains, ReachInv
<1> QED
  BY <1>1, <1>2 DEF QueryContained

(* What runs reads allowlisted relations only, and ran under a role that    *)
(* could have reached nothing else, whatever statement is rendered, however *)
(* often the role changes and wherever the call fails or is cancelled.      *)
THEOREM QueriesAreContained == QuerySpec => []QueryContained
<1>1. QueryInit => ReachInv
  BY DEF QueryInit, ReachInv, Steps, None
<1>2. ReachInv /\ [QueryStep]_queryVars => ReachInv'
  BY ReachKept
<1> QED
  BY <1>1, <1>2, ReachContains, PTL DEF QuerySpec

-----------------------------------------------------------------------------
(* Running totals, the shape of SizeOf and JsonOf: from a start and a       *)
(* weight of each place.                                                    *)

LEMMA LeastIs ==
  ASSUME NEW S \in SUBSET Nat, S /= {}
  PROVE  \E x \in S : \A y \in S : x <= y
<1>1. PICK x \in S : \A y \in S : ~ (<<y, x>> \in OpToRel(<, Nat))
  BY WFMin, NatLessThanWellFounded, Zenon
<1>2. \A y \in S : ~ (y < x)
  BY <1>1 DEF OpToRel
<1> QED
  BY <1>2

Totals(g, n, start, weight) ==
    /\ g \in [0..n -> Nat] /\ g[0] = start
    /\ \A i \in 1..n : g[i] = g[i - 1] + weight[i]

LEMMA TotalsExist ==
  ASSUME NEW n \in Nat, NEW start \in Nat, NEW weight \in [1..n -> Nat]
  PROVE  \E g : Totals(g, n, start, weight)
<1> DEFINE T == {k \in 0..n : ~\E g : Totals(g, k, start, weight)}
<1> SUFFICES ASSUME n \in T PROVE FALSE
  OBVIOUS
<1>1. PICK k \in T : \A j \in T : k <= j
  <2>1. T \in SUBSET Nat
    OBVIOUS
  <2> HIDE DEF T
  <2> QED
    BY <2>1, LeastIs
<1>2. CASE k = 0
  <2>1. Totals([i \in 0..0 |-> start], 0, start, weight)
    BY DEF Totals
  <2> QED
    BY <1>2, <2>1
<1>3. CASE k > 0
  <2>1. k - 1 \in 0..n /\ k - 1 \notin T
    BY <1>1, <1>3
  <2>2. PICK g : Totals(g, k - 1, start, weight)
    BY <2>1
  <2> DEFINE h == [i \in 0..k |-> IF i = k THEN g[k - 1] + weight[k] ELSE g[i]]
  <2>3. g[k - 1] + weight[k] \in Nat
    BY <2>2, <1>3 DEF Totals
  <2>4. h \in [0..k -> Nat] /\ h[0] = start
    BY <2>2, <2>3, <1>3 DEF Totals
  <2>5. ASSUME NEW i \in 1..k
        PROVE  h[i] = h[i - 1] + weight[i]
    <3>1. k \in Nat /\ i - 1 \in 0..k /\ i - 1 /= k /\ h[i - 1] = g[i - 1]
      OBVIOUS
    <3>2. CASE i = k
      BY <3>1, <3>2
    <3>3. CASE i /= k
      <4>1. i \in 1..(k - 1) /\ h[i] = g[i]
        BY <3>1, <3>3
      <4> QED
        BY <2>2, <3>1, <4>1 DEF Totals
    <3> QED
      BY <3>2, <3>3
  <2>6. Totals(h, k, start, weight)
    BY <2>4, <2>5 DEF Totals
  <2> QED
    BY <2>6
<1> QED
  BY <1>2, <1>3

(* Two functions that agree at the start and from each place to the next.   *)
LEMMA AgreeFrom ==
  ASSUME NEW m \in Nat, NEW f, NEW g, f[0] = g[0],
         \A i \in 1..m : f[i - 1] = g[i - 1] => f[i] = g[i]
  PROVE  f[m] = g[m]
<1> DEFINE T == {i \in 0..m : f[i] /= g[i]}
<1> SUFFICES ASSUME m \in T PROVE FALSE
  OBVIOUS
<1>1. PICK k \in T : \A j \in T : k <= j
  <2>1. T \in SUBSET Nat
    OBVIOUS
  <2> HIDE DEF T
  <2> QED
    BY <2>1, LeastIs
<1>2. k \in 1..m /\ k - 1 \in 0..m /\ k - 1 \notin T
  BY <1>1
<1> QED
  BY <1>2

LEMMA TotalsClimb ==
  ASSUME NEW n \in Nat, NEW start \in Nat, NEW weight \in [1..n -> Nat], NEW g,
         Totals(g, n, start, weight), NEW i \in 0..n, NEW j \in i..n
  PROVE  g[i] <= g[j]
<1> DEFINE T == {k \in i..n : ~ (g[i] <= g[k])}
<1> SUFFICES ASSUME T /= {} PROVE FALSE
  OBVIOUS
<1>1. PICK k \in T : \A l \in T : k <= l
  <2>1. T \in SUBSET Nat
    OBVIOUS
  <2> HIDE DEF T
  <2> QED
    BY <2>1, LeastIs
<1>2. g[i] \in Nat /\ k \in i..n /\ g[k] \in Nat
  BY DEF Totals
<1>3. k /= i
  BY <1>2
<1>4. k - 1 \in i..n /\ k - 1 \notin T /\ k \in 1..n
  BY <1>1, <1>2, <1>3
<1>5. g[k] = g[k - 1] + weight[k] /\ g[k - 1] \in Nat /\ weight[k] \in Nat
  BY <1>4 DEF Totals
<1> QED
  BY <1>2, <1>4, <1>5

(* The last place of a stretch where something that holds at its start      *)
(* still holds.                                                             *)
LEMMA LastPlace ==
  ASSUME NEW n \in Nat, NEW S \in SUBSET (0..n), 0 \in S
  PROVE  \E k \in S : k = n \/ k + 1 \notin S
<1> DEFINE T == {k \in 0..n : k \notin S}
<1>1. CASE T = {}
  BY <1>1
<1>2. CASE T /= {}
  <2>1. PICK k \in T : \A j \in T : k <= j
    <3>1. T \in SUBSET Nat
      OBVIOUS
    <3> HIDE DEF T
    <3> QED
      BY <1>2, <3>1, LeastIs
  <2>2. k - 1 \in 0..n /\ k - 1 \notin T /\ k = (k - 1) + 1
    BY <2>1
  <2> QED
    BY <2>1, <2>2
<1> QED
  BY <1>1, <1>2

(* The two totals of the rows of a result.                                  *)
Sizes(rows) == [i \in 1..Len(rows) |-> rows[i].size]
Jsons(rows) == [i \in 1..Len(rows) |-> rows[i].json + (IF i > 1 THEN 2 ELSE 0)]

LEMMA PlacesOfSeq ==
  ASSUME NEW R, NEW s \in Seq(R)
  PROVE  Len(s) \in Nat /\ \A i \in 1..Len(s) : s[i] \in R
  OBVIOUS

LEMMA EmptySeq ==
  ASSUME NEW R
  PROVE  <<>> \in Seq(R)
  OBVIOUS

LEMMA RowsTotals ==
  ASSUME NEW rows \in Seq([size : Nat, json : Nat])
  PROVE  /\ Len(rows) \in Nat
         /\ Sizes(rows) \in [1..Len(rows) -> Nat]
         /\ Jsons(rows) \in [1..Len(rows) -> Nat]
<1>1. Len(rows) \in Nat /\ \A i \in 1..Len(rows) : rows[i] \in [size : Nat, json : Nat]
  BY PlacesOfSeq
<1>2. \A i \in 1..Len(rows) : /\ rows[i].size \in Nat /\ rows[i].json \in Nat
                              /\ rows[i].json + (IF i > 1 THEN 2 ELSE 0) \in Nat
  BY <1>1
<1> QED
  BY <1>1, <1>2 DEF Sizes, Jsons

LEMMA SizeOfIs ==
  ASSUME NEW rows \in Seq([size : Nat, json : Nat]), NEW m \in 0..Len(rows), NEW g,
         Totals(g, Len(rows), 0, Sizes(rows))
  PROVE  SizeOf(rows, m) = g[m]
<1> DEFINE Ruled(f) == f = [i \in 0..m |-> IF i = 0 THEN 0 ELSE f[i - 1] + rows[i].size]
           h == [i \in 0..m |-> g[i]]
           c == CHOOSE f : Ruled(f)
<1>1. m \in Nat /\ \A i \in 1..m : /\ i \in 1..Len(rows) /\ i - 1 \in 0..Len(rows) /\ i /= 0
                                  /\ i - 1 \in 0..m /\ i \in 0..m
  BY RowsTotals
<1>2. g[0] = 0 /\ \A i \in 1..m : g[i] = g[i - 1] + rows[i].size
  <2>1. ASSUME NEW i \in 1..m
        PROVE  g[i] = g[i - 1] + rows[i].size
    <3>1. i \in 1..Len(rows) /\ g[i] = g[i - 1] + Sizes(rows)[i] /\ g[i - 1] \in Nat
      BY <1>1 DEF Totals
    <3> QED
      BY <3>1, PlacesOfSeq DEF Sizes
  <2> QED
    BY <2>1 DEF Totals
<1>3. Ruled(h)
  BY <1>1, <1>2
<1>4. Ruled(c)
  <2> HIDE DEF Ruled, h
  <2> QED
    BY <1>3, Zenon
<1> HIDE DEF c
<1>5. c[0] = 0 /\ \A i \in 1..m : c[i] = c[i - 1] + rows[i].size
  BY <1>1, <1>4
<1>6. c[m] = g[m]
  BY <1>1, <1>2, <1>5, AgreeFrom
<1> QED
  BY <1>6 DEF SizeOf, c

LEMMA JsonOfIs ==
  ASSUME NEW rows \in Seq([size : Nat, json : Nat]), NEW m \in 0..Len(rows), NEW g,
         Totals(g, Len(rows), 2, Jsons(rows))
  PROVE  JsonOf(rows, m) = g[m]
<1> DEFINE Ruled(f) == f = [i \in 0..m |-> IF i = 0 THEN 2 ELSE f[i - 1] + rows[i].json + (IF i > 1 THEN 2 ELSE 0)]
           h == [i \in 0..m |-> g[i]]
           c == CHOOSE f : Ruled(f)
<1>1. m \in Nat /\ \A i \in 1..m : /\ i \in 1..Len(rows) /\ i - 1 \in 0..Len(rows) /\ i /= 0
                                  /\ i - 1 \in 0..m /\ i \in 0..m
  BY RowsTotals
<1>2. g[0] = 2 /\ \A i \in 1..m : g[i] = g[i - 1] + rows[i].json + (IF i > 1 THEN 2 ELSE 0)
  <2>1. ASSUME NEW i \in 1..m
        PROVE  g[i] = g[i - 1] + rows[i].json + (IF i > 1 THEN 2 ELSE 0)
    <3>1. i \in 1..Len(rows) /\ g[i] = g[i - 1] + Jsons(rows)[i] /\ g[i - 1] \in Nat
      BY <1>1 DEF Totals
    <3>2. rows[i] \in [size : Nat, json : Nat]
      BY <3>1, PlacesOfSeq
    <3> DEFINE between == IF i > 1 THEN 2 ELSE 0
               size == rows[i].json
    <3>3. Jsons(rows)[i] = size + between /\ size \in Nat /\ between \in Nat
      BY <3>1, <3>2 DEF Jsons
    <3>4. g[i] = g[i - 1] + size + between
      <4> HIDE DEF between, size
      <4> QED
        BY <3>1, <3>3
    <3> QED
      BY <3>4
  <2> QED
    BY <2>1 DEF Totals
<1>3. Ruled(h)
  <2>1. ASSUME NEW i \in 0..m
        PROVE  g[i] = IF i = 0 THEN 2
                      ELSE h[i - 1] + rows[i].json + (IF i > 1 THEN 2 ELSE 0)
    <3>1. CASE i = 0
      BY <1>2, <3>1
    <3>2. CASE i /= 0
      <4>1. i \in 1..m /\ h[i - 1] = g[i - 1]
        BY <1>1, <3>2
      <4> HIDE DEF h
      <4> QED
        BY <1>2, <3>2, <4>1, Zenon
    <3> QED
      BY <3>1, <3>2
  <2>2. h = [i \in 0..m |-> IF i = 0 THEN 2
                            ELSE h[i - 1] + rows[i].json + (IF i > 1 THEN 2 ELSE 0)]
    BY <2>1, Zenon
  <2> QED
    BY <2>2
<1>4. Ruled(c)
  <2> HIDE DEF Ruled, h
  <2> QED
    BY <1>3, Zenon
<1> HIDE DEF c
<1>5. c[0] = 2 /\ \A i \in 1..m : c[i] = c[i - 1] + rows[i].json + (IF i > 1 THEN 2 ELSE 0)
  BY <1>1, <1>4
<1>6. c[m] = g[m]
  BY <1>1, <1>2, <1>5, AgreeFrom, SMTT(30)
<1> QED
  BY <1>6 DEF JsonOf, c

(* What the two sizes of a result's rows come to, place by place.           *)
LEMMA SizesAdd ==
  ASSUME NEW rows \in Seq([size : Nat, json : Nat])
  PROVE  /\ SizeOf(rows, 0) = 0
         /\ \A n \in 0..Len(rows) : SizeOf(rows, n) \in Nat /\ JsonOf(rows, n) \in Nat
         /\ \A n \in 1..Len(rows) : rows[n].size \in Nat /\ rows[n].size <= SizeOf(rows, n)
         /\ \A n \in 0..Len(rows) : \A m \in n..Len(rows) :
              SizeOf(rows, n) <= SizeOf(rows, m) /\ JsonOf(rows, n) <= JsonOf(rows, m)
<1> DEFINE L == Len(rows)
<1>1. L \in Nat /\ Sizes(rows) \in [1..L -> Nat] /\ Jsons(rows) \in [1..L -> Nat]
  BY RowsTotals
<1>2. PICK g : Totals(g, L, 0, Sizes(rows))
  BY <1>1, TotalsExist
<1>3. PICK j : Totals(j, L, 2, Jsons(rows))
  BY <1>1, TotalsExist
<1>4. \A n \in 0..L : SizeOf(rows, n) = g[n] /\ JsonOf(rows, n) = j[n]
  BY <1>2, <1>3, SizeOfIs, JsonOfIs
<1>5. g \in [0..L -> Nat] /\ j \in [0..L -> Nat] /\ g[0] = 0
  BY <1>2, <1>3 DEF Totals
<1>6. ASSUME NEW n \in 1..L
      PROVE  rows[n].size \in Nat /\ rows[n].size <= SizeOf(rows, n)
  <2>1. g[n] = g[n - 1] + Sizes(rows)[n] /\ g[n - 1] \in Nat /\ n \in 0..L
    <3>1. n - 1 \in 0..L /\ n \in 0..L
      BY <1>1
    <3> QED
      BY <1>2, <1>5, <3>1 DEF Totals
  <2>2. Sizes(rows)[n] = rows[n].size /\ Sizes(rows)[n] \in Nat
    BY <1>1 DEF Sizes
  <2> QED
    BY <2>1, <2>2, <1>4
<1>7. \A n \in 0..L : \A m \in n..L : m \in 0..L /\ g[n] <= g[m] /\ j[n] <= j[m]
  <2>1. ASSUME NEW n \in 0..L, NEW m \in n..L
        PROVE  g[n] <= g[m] /\ j[n] <= j[m]
    BY <1>1, <1>2, <1>3, TotalsClimb
  <2>2. \A n \in 0..L : \A m \in n..L : m \in 0..L
    BY <1>1
  <2> QED
    BY <2>1, <2>2
<1>8. 0 \in 0..L
  BY <1>1
<1>9. \A n \in 0..L : SizeOf(rows, n) \in Nat /\ JsonOf(rows, n) \in Nat
  BY <1>4, <1>5
<1>10. \A n \in 0..L : \A m \in n..L :
         SizeOf(rows, n) <= SizeOf(rows, m) /\ JsonOf(rows, n) <= JsonOf(rows, m)
  BY <1>4, <1>7
<1> QED
  BY <1>4, <1>5, <1>6, <1>8, <1>9, <1>10

-----------------------------------------------------------------------------
(* What the model is told.  Rows fetched fit both limits, whatever is still *)
(* to come.                                                                 *)

FetchInv ==
    /\ step \in Steps /\ result \in {<<>>} \cup Results
    /\ fetched \in 0..Len(result) /\ fetched <= RowLimit
    /\ SizeOf(result, fetched) <= ByteLimit
    /\ step \in {"guard", "check", "declare"} => fetched = 0
    /\ told.kind = "rows" => step = "ended"

LEMMA ResultTyped ==
  ASSUME FetchInv
  PROVE  /\ result \in Seq([size : Nat, json : Nat]) /\ Len(result) \in Nat
         /\ fetched \in Nat /\ RowLimit \in Nat /\ RowLimit > 0
         /\ ByteLimit \in Nat /\ FetchBatch \in Nat /\ FetchBatch > 0
<1>1. result \in Seq([size : Nat, json : Nat])
  <2>1. CASE result = <<>>
    BY <2>1, EmptySeq
  <2>2. CASE result \in Results
    BY <2>2, StatementAssumption
  <2> QED
    BY <2>1, <2>2 DEF FetchInv
<1> QED
  BY <1>1, QueryAssumption, PlacesOfSeq DEF FetchInv

(* Rows are kept while their JSON fits, and as many of them as fit.         *)
LEMMA KeptIs ==
  ASSUME FetchInv, NEW n \in 0..Len(result)
  PROVE  /\ Kept(n) \in 0..n
         /\ Kept(n) = 0 \/ JsonOf(result, Kept(n)) <= ByteLimit
         /\ Kept(n) = n \/ JsonOf(result, Kept(n) + 1) > ByteLimit
<1> DEFINE S == {k \in 0..n : k = 0 \/ JsonOf(result, k) <= ByteLimit}
<1>1. n \in Nat /\ \A k \in 0..n : JsonOf(result, k) \in Nat
  <2>1. Len(result) \in Nat /\ result \in Seq([size : Nat, json : Nat])
    BY ResultTyped
  <2>2. n \in Nat /\ \A k \in 0..n : k \in 0..Len(result)
    BY <2>1
  <2> QED
    BY <2>1, <2>2, SizesAdd
<1>2. \E k \in S : k = n \/ k + 1 \notin S
  <2>1. S \in SUBSET (0..n) /\ 0 \in S
    BY <1>1
  <2> HIDE DEF S
  <2> QED
    BY <1>1, <2>1, LastPlace
<1>3. PICK k \in S : k = n \/ k + 1 \notin S
  BY <1>2
<1>4. k = n \/ JsonOf(result, k + 1) > ByteLimit
  <2> SUFFICES ASSUME k /= n PROVE JsonOf(result, k + 1) > ByteLimit
    OBVIOUS
  <2>1. k + 1 \in 0..n /\ k + 1 /= 0
    BY <1>1
  <2> QED
    BY <1>1, <1>3, <2>1, ResultTyped
<1>5. \E x \in 0..n :
        /\ x = 0 \/ JsonOf(result, x) <= ByteLimit
        /\ x = n \/ JsonOf(result, x + 1) > ByteLimit
  BY <1>3, <1>4
<1> QED
  <2> DEFINE Fit(x) == /\ x = 0 \/ JsonOf(result, x) <= ByteLimit
                       /\ x = n \/ JsonOf(result, x + 1) > ByteLimit
  <2>1. \E x \in 0..n : Fit(x)
    BY <1>5
  <2>2. Kept(n) = CHOOSE x \in 0..n : Fit(x)
    BY DEF Kept
  <2> HIDE DEF Fit
  <2>3. Kept(n) \in 0..n /\ Fit(Kept(n))
    BY <2>1, <2>2, Zenon
  <2> QED
    BY <2>3 DEF Fit

(* An answer is honest when the rows it was made from fit the limits, and   *)
(* are all of them, or a limit was met by the next one.                     *)
LEMMA AnswersHonest ==
  ASSUME FetchInv, NEW n \in 0..Len(result), NEW more \in BOOLEAN, NEW cut \in BOOLEAN,
         n <= RowLimit, SizeOf(result, n) <= ByteLimit,
         more \/ cut <=> n < Len(result),
         more => Len(result) > RowLimit,
         cut => n + 1 <= Len(result) /\ SizeOf(result, n + 1) > ByteLimit,
         told' = Answered(n, more, cut), result' = result
  PROVE  AnswerHonest'
<1> SUFFICES /\ (told.rows <= RowLimit)'
             /\ (told.rows > 0 => JsonOf(result, told.rows) <= ByteLimit)'
             /\ (\A i \in 1..told.rows : result[i].size <= ByteLimit)'
             /\ (~told.truncated <=> told.rows = Len(result))'
             /\ (told.empty <=> result = <<>>)'
             /\ (Fits(result) => ~told.truncated)'
  BY Zenon DEF AnswerHonest
<1> DEFINE k == Kept(n)
           all == Len(result)
<1>1. /\ k \in 0..n
      /\ k = 0 \/ JsonOf(result, k) <= ByteLimit
      /\ k = n \/ JsonOf(result, k + 1) > ByteLimit
  BY KeptIs
<1>2. /\ told'.rows = k /\ told'.truncated = (more \/ cut \/ k < n)
      /\ told'.empty = (k = 0 /\ ~more /\ ~(cut \/ k < n))
  BY DEF Answered
<1>3. all \in Nat /\ n \in Nat /\ k \in Nat /\ RowLimit \in Nat /\ ByteLimit \in Nat
  BY <1>1, ResultTyped
<1> HIDE DEF k
<1>4. k <= RowLimit /\ (k > 0 => JsonOf(result, k) <= ByteLimit)
  BY <1>1, <1>3
<1>5. ASSUME NEW i \in 1..k
      PROVE  result[i].size <= ByteLimit
  <2>1. i \in 1..all /\ i \in 0..all /\ n \in i..all
    BY <1>1, <1>3
  <2>2. result[i].size \in Nat /\ result[i].size <= SizeOf(result, i)
        /\ SizeOf(result, i) \in Nat /\ SizeOf(result, n) \in Nat
        /\ SizeOf(result, i) <= SizeOf(result, n)
    BY <2>1, SizesAdd, ResultTyped
  <2> QED
    BY <2>2, <1>3
<1>6. ~told'.truncated <=> k = all
  <2>1. more \/ cut \/ k < n <=> k /= all
    BY <1>1, <1>3
  <2> QED
    BY <1>2, <2>1, Zenon
<1>7. told'.empty <=> result = <<>>
  <2>1. k = 0 /\ ~more /\ ~(cut \/ k < n) <=> all = 0
    BY <1>1, <1>3
  <2>2. told'.empty <=> all = 0
    BY <1>2, <2>1, Zenon
  <2>3. all = 0 <=> result = <<>>
    BY ResultTyped
  <2> QED
    BY <2>2, <2>3, Zenon
<1>8. Fits(result) => ~told'.truncated
  <2> SUFFICES ASSUME Fits(result) PROVE k = all
    BY <1>6
  <2>1. all <= RowLimit /\ SizeOf(result, all) <= ByteLimit /\ JsonOf(result, all) <= ByteLimit
    BY DEF Fits
  <2>2. ~more
    BY <2>1, <1>3
  <2>3. ~cut
    <3> SUFFICES ASSUME cut PROVE FALSE
      OBVIOUS
    <3>1. n + 1 \in 0..all /\ all \in (n + 1)..all /\ SizeOf(result, n + 1) > ByteLimit
      BY <1>3
    <3>2. SizeOf(result, n + 1) <= SizeOf(result, all) /\ SizeOf(result, n + 1) \in Nat
          /\ SizeOf(result, all) \in Nat
      <4>1. all \in 0..all /\ all = Len(result) /\ result \in Seq([size : Nat, json : Nat])
        BY <1>3, ResultTyped
      <4> HIDE DEF all
      <4> QED
        BY <3>1, <4>1, SizesAdd, Zenon
    <3> QED
      BY <2>1, <3>1, <3>2, <1>3
  <2>4. n = all
    BY <2>2, <2>3, <1>3
  <2>5. k = n
    <3> SUFFICES ASSUME k /= n PROVE FALSE
      OBVIOUS
    <3>1. k + 1 \in 0..all /\ all \in (k + 1)..all /\ JsonOf(result, k + 1) > ByteLimit
      BY <1>1, <1>3, <2>4
    <3>2. JsonOf(result, k + 1) <= JsonOf(result, all) /\ JsonOf(result, k + 1) \in Nat
          /\ JsonOf(result, all) \in Nat
      BY <3>1, <1>3, SizesAdd, ResultTyped, SMTT(30)
    <3> QED
      BY <2>1, <3>1, <3>2, <1>3
  <2> QED
    BY <2>4, <2>5
<1>9. /\ told'.rows <= RowLimit
      /\ told'.rows > 0 => JsonOf(result, told'.rows) <= ByteLimit
      /\ \A i \in 1..told'.rows : result[i].size <= ByteLimit
      /\ ~told'.truncated <=> told'.rows = Len(result)
      /\ told'.empty <=> result = <<>>
      /\ Fits(result) => ~told'.truncated
  BY <1>2, <1>4, <1>5, <1>6, <1>7, <1>8, Zenon
<1>10. /\ Fits(result)' <=> Fits(result)
       /\ JsonOf(result, told.rows)' = JsonOf(result, told'.rows)
  BY DEF Fits, SizeOf, JsonOf
<1> QED
  BY <1>9, <1>10, Zenon

(* One fetch: rows up to the last of the batch, or to the one before the    *)
(* first that is over a limit.                                              *)
LEMMA FetchKeeps ==
  ASSUME FetchInv, AnswerHonest, Fetch
  PROVE  FetchInv' /\ AnswerHonest'
<1> DEFINE all == Len(result)
           last == IF fetched + FetchBatch < Sent THEN fetched + FetchBatch ELSE Sent
           over == {n \in (fetched + 1)..last : RowOver(n) \/ BytesOver(n)}
           first == CHOOSE n \in over : \A m \in over : n <= m
<1>1. /\ step = "fetch" /\ result' = result /\ told.kind /= "rows"
      /\ IF over /= {}
           THEN /\ fetched' = first - 1
                /\ step' = "ended" /\ told' = Answered(first - 1, RowOver(first), ~RowOver(first))
           ELSE /\ fetched' = last
                /\ IF last - fetched < FetchBatch
                     THEN step' = "ended" /\ told' = Answered(last, FALSE, FALSE)
                     ELSE step' = step /\ told' = told
  BY DEF Fetch, Finish, FetchInv
<1>2. /\ all \in Nat /\ fetched \in 0..all /\ fetched <= RowLimit /\ RowLimit \in Nat
      /\ ByteLimit \in Nat /\ FetchBatch \in Nat /\ FetchBatch > 0
      /\ SizeOf(result, fetched) <= ByteLimit
  BY ResultTyped DEF FetchInv
<1>3. Sent \in Nat /\ fetched <= Sent /\ Sent <= all /\ (Sent <= RowLimit => Sent = all)
  BY <1>2 DEF Sent
<1>4. last \in fetched..all /\ (last - fetched < FetchBatch => last = Sent)
  BY <1>2, <1>3
<1>5. over \subseteq (fetched + 1)..last /\ \A n \in over : RowOver(n) \/ BytesOver(n)
  OBVIOUS
<1>6. \A n \in (fetched + 1)..last : n \notin over => n <= RowLimit /\ SizeOf(result, n) <= ByteLimit
  <2>1. ASSUME NEW n \in (fetched + 1)..last, n \notin over
        PROVE  n <= RowLimit /\ SizeOf(result, n) <= ByteLimit
    <3>1. ~ (n > RowLimit) /\ ~ (SizeOf(result, n) > ByteLimit)
      BY <2>1 DEF RowOver, BytesOver
    <3>2. n \in 0..all /\ SizeOf(result, n) \in Nat
      BY <1>2, <1>4, ResultTyped, SizesAdd
    <3> QED
      BY <1>2, <3>1, <3>2
  <2> QED
    BY <2>1
<1> HIDE DEF last, over, first
<1>7. \A t : FetchInv' /\ told'.kind /= "rows" => AnswerHonest'
  BY DEF AnswerHonest
<1>8. CASE over /= {}
  <2>1. first \in over /\ \A m \in over : first <= m
    <3>1. over \in SUBSET Nat
      BY <1>2, <1>5
    <3>2. \E n \in over : \A m \in over : n <= m
      BY <1>8, <3>1, LeastIs
    <3> QED
      BY <3>2, Zenon DEF first
  <2> DEFINE n == first - 1
  <2>2. first \in (fetched + 1)..last /\ n \in 0..all /\ first = n + 1 /\ n < all
    BY <1>2, <1>4, <1>5, <2>1
  <2>3. n <= RowLimit /\ SizeOf(result, n) <= ByteLimit
    <3>1. CASE n = fetched
      BY <1>2, <3>1
    <3>2. CASE n /= fetched
      <4>1. n \in (fetched + 1)..last /\ ~ (first <= n)
        BY <1>2, <1>4, <2>2, <3>2
      <4> QED
        BY <1>6, <2>1, <4>1
    <3> QED
      BY <3>1, <3>2
  <2>4. /\ RowOver(first) => all > RowLimit
        /\ ~RowOver(first) => SizeOf(result, n + 1) > ByteLimit
    BY <1>2, <1>4, <1>5, <2>1, <2>2 DEF RowOver, BytesOver
  <2>5. told' = Answered(n, RowOver(first), ~RowOver(first)) /\ fetched' = n /\ step' = "ended"
    BY <1>1, <1>8
  <2> HIDE DEF n
  <2>6. AnswerHonest'
    <3> DEFINE more == RowOver(first)
    <3>1. more \in BOOLEAN /\ (~more) \in BOOLEAN
      BY DEF RowOver
    <3>2. n + 1 <= all
      BY <1>2, <2>2
    <3> HIDE DEF more
    <3> QED
      BY <1>1, <2>2, <2>3, <2>4, <2>5, <3>1, <3>2, AnswersHonest DEF more
  <2>7. FetchInv'
    BY <1>1, <2>2, <2>3, <2>5 DEF FetchInv, Steps, SizeOf
  <2> QED
    BY <2>6, <2>7
<1>9. CASE over = {}
  <2>1. last <= RowLimit /\ SizeOf(result, last) <= ByteLimit /\ last \in 0..all
    <3>1. CASE last = fetched
      BY <1>2, <3>1
    <3>2. CASE last /= fetched
      <4>1. last \in (fetched + 1)..last
        BY <1>2, <1>4, <3>2
      <4> QED
        BY <1>2, <1>4, <1>6, <1>9, <4>1
    <3> QED
      BY <3>1, <3>2
  <2>2. CASE last - fetched < FetchBatch
    <3>1. last = all
      BY <1>3, <1>4, <2>1, <2>2
    <3>2. told' = Answered(last, FALSE, FALSE) /\ fetched' = last /\ step' = "ended"
      BY <1>1, <1>9, <2>2
    <3>3. AnswerHonest'
      <4>1. ~ (last < Len(result)) /\ FALSE \in BOOLEAN
        BY <1>2, <3>1
      <4> QED
        BY <1>1, <2>1, <3>2, <4>1, AnswersHonest
    <3>4. FetchInv'
      BY <1>1, <2>1, <3>2 DEF FetchInv, Steps, SizeOf
    <3> QED
      BY <3>3, <3>4
  <2>3. CASE ~ (last - fetched < FetchBatch)
    <3>1. told' = told /\ fetched' = last /\ step' = step
      BY <1>1, <1>9, <2>3
    <3>2. FetchInv'
      BY <1>1, <2>1, <3>1 DEF FetchInv, Steps, SizeOf
    <3> QED
      BY <1>1, <1>7, <3>1, <3>2
  <2> QED
    BY <2>2, <2>3
<1> QED
  BY <1>8, <1>9

LEMMA FetchKept ==
  ASSUME FetchInv, AnswerHonest, [QueryStep]_queryVars
  PROVE  FetchInv' /\ AnswerHonest'
<1>1. ASSUME UNCHANGED <<result, fetched>>, step' \in Steps,
             told'.kind = "rows" => UNCHANGED <<step, told>>,
             step' \in {"guard", "check", "declare"} => step \in {"guard", "check", "declare"}
      PROVE  FetchInv' /\ AnswerHonest'
  <2>1. FetchInv'
    BY <1>1 DEF FetchInv, SizeOf
  <2>2. AnswerHonest'
    <3>1. CASE told' = told
      BY <1>1, <3>1 DEF AnswerHonest, SizeOf, JsonOf, Fits
    <3>2. CASE told'.kind /= "rows"
      BY <3>2 DEF AnswerHonest
    <3> QED
      BY <1>1, <3>1, <3>2
  <2> QED
    BY <2>1, <2>2
<1>2. CASE Guard \/ CheckRole
  BY <1>1, <1>2 DEF Guard, CheckRole, Finish, Told, Steps, FetchInv
<1>3. CASE Declare
  <2>1. CASE result' = result
    BY <1>1, <1>3, <2>1 DEF Declare, Finish, Told, Steps, FetchInv
  <2>2. CASE result' /= result
    <3>1. result' \in Results /\ fetched' = 0 /\ step' = "fetch" /\ told' = told
      BY <1>3, <2>2 DEF Declare, Finish, FetchInv
    <3>2. result' \in Seq([size : Nat, json : Nat])
      BY <3>1, StatementAssumption
    <3>3. Len(result') \in Nat /\ SizeOf(result', 0) = 0
      BY <3>2, SizesAdd, PlacesOfSeq
    <3>4. FetchInv'
      BY <1>3, <3>1, <3>3, ResultTyped DEF FetchInv, Steps, SizeOf, Declare
    <3> QED
      BY <1>3, <3>1, <3>4 DEF AnswerHonest, FetchInv, Declare
  <2> QED
    BY <2>1, <2>2
<1>4. CASE Fetch
  BY <1>4, FetchKeeps
<1>5. CASE DatabaseFails \/ Cancelled
  BY <1>1, <1>5 DEF DatabaseFails, Cancelled, Finish, Told, Steps
<1>6. CASE Drift
  BY <1>1, <1>6 DEF Drift, FetchInv
<1>7. CASE UNCHANGED queryVars
  BY <1>1, <1>7 DEF queryVars, FetchInv
<1> QED
  BY <1>2, <1>3, <1>4, <1>5, <1>6, <1>7 DEF QueryStep

(* The rows told are the first of what the statement yields, within both    *)
(* limits; more than told is always said, and said only when a limit was    *)
(* met: for any sizes of rows, limits and batches.                          *)
THEOREM AnswersAreHonest == QuerySpec => []AnswerHonest
<1>1. QueryInit => FetchInv /\ AnswerHonest
  <2> SUFFICES ASSUME QueryInit PROVE FetchInv /\ AnswerHonest
    OBVIOUS
  <2>1. SizeOf(<<>>, 0) = 0
    BY EmptySeq, SizesAdd
  <2> QED
    BY <2>1, QueryAssumption DEF QueryInit, FetchInv, AnswerHonest, Steps, None
<1>2. FetchInv /\ AnswerHonest /\ [QueryStep]_queryVars => (FetchInv /\ AnswerHonest)'
  BY FetchKept
<1> QED
  BY <1>1, <1>2, PTL DEF QuerySpec

-----------------------------------------------------------------------------
(* The scan.  Closed is defined by the length of a stretch; what follows    *)
(* reads it as a grammar of the stretches i..j of a text.                   *)

From(s, C, n) == {i \in 1..(Len(s) + 1 - n) : Begins(s, C, i, i + n - 1)}

Stretch(s, i, j) == i \in Closed(s)[j - i + 1]

Ends(s, k) == s[k] \notin Openers /\ ~PlainAt(s, k)

LEMMA FromAgrees ==
  ASSUME NEW s, Len(s) \in Nat, NEW C, NEW D, NEW n \in 0..Len(s),
         \A m \in 0..(n - 1) : C[m] = D[m]
  PROVE  From(s, C, n) = From(s, D, n)
<1> SUFFICES ASSUME NEW i \in 1..(Len(s) + 1 - n)
             PROVE  Begins(s, C, i, i + n - 1) <=> Begins(s, D, i, i + n - 1)
  BY Zenon DEF From
<1> DEFINE j == i + n - 1
<1>1. j < i \/ C[j - i] = D[j - i]
  <2>1. j < i \/ j - i \in 0..(n - 1)
    OBVIOUS
  <2> HIDE DEF j
  <2> QED
    BY <2>1
<1>2. ASSUME NEW k \in (i + 1)..j
      PROVE  C[k - i - 1] = D[k - i - 1] /\ C[j - k] = D[j - k]
  OBVIOUS
<1> HIDE DEF j
<1>3. Begins(s, C, i, j) <=> Begins(s, D, i, j)
  BY <1>1, <1>2, Zenon DEF Begins
<1> QED
  BY <1>3 DEF j

(* The recursion of Closed has a solution, found length by length.          *)
LEMMA ClosedExists ==
  ASSUME NEW s, Len(s) \in Nat
  PROVE  \E C : C = [n \in 0..Len(s) |-> From(s, C, n)]
<1> DEFINE L == Len(s)
           Right(C, d) == \A n \in 0..L : n < d => C[n] = From(s, C, n)
           T == {d \in 0..(L + 1) : ~\E C : C = [n \in 0..L |-> C[n]] /\ Right(C, d)}
<1>1. ASSUME T /= {} PROVE FALSE
  <2>1. PICK d \in T : \A e \in T : d <= e
    <3>1. T \in SUBSET Nat
      OBVIOUS
    <3> HIDE DEF T
    <3> QED
      BY <1>1, <3>1, LeastIs
  <2>2. d /= 0
    <3> DEFINE D == [n \in 0..L |-> 0]
    <3>1. D = [n \in 0..L |-> D[n]] /\ Right(D, 0)
      OBVIOUS
    <3> QED
      BY <3>1
  <2>3. d - 1 \in 0..(L + 1) /\ d - 1 \notin T
    BY <2>1, <2>2
  <2>4. PICK C : C = [n \in 0..L |-> C[n]] /\ Right(C, d - 1)
    BY <2>3
  <2> DEFINE D == [n \in 0..L |-> From(s, C, n)]
  <2>5. D = [n \in 0..L |-> D[n]]
    OBVIOUS
  <2>6. ASSUME NEW n \in 0..L, n < d PROVE D[n] = From(s, D, n)
    <3>1. \A m \in 0..(n - 1) : m \in 0..L /\ m < d - 1
      BY <2>6
    <3>2. \A m \in 0..(n - 1) : C[m] = D[m]
      BY <3>1, <2>4
    <3>3. From(s, C, n) = From(s, D, n)
      <4> HIDE DEF D
      <4> QED
        BY <3>2, FromAgrees
    <3> QED
      BY <3>3
  <2>7. Right(D, d)
    BY <2>6
  <2> HIDE DEF D, Right
  <2> QED
    BY <2>1, <2>5, <2>7
<1>2. L + 1 \in 0..(L + 1)
  OBVIOUS
<1>3. PICK C : C = [n \in 0..L |-> C[n]] /\ Right(C, L + 1)
  BY <1>1, <1>2
<1>4. \A n \in 0..L : C[n] = From(s, C, n)
  BY <1>3
<1>5. [n \in 0..L |-> C[n]] = [n \in 0..L |-> From(s, C, n)]
  BY <1>4, Zenon
<1> QED
  BY <1>3, <1>5

LEMMA ClosedIs ==
  ASSUME NEW s, Len(s) \in Nat
  PROVE  Closed(s) = [n \in 0..Len(s) |-> From(s, Closed(s), n)]
<1> DEFINE c == CHOOSE C : C = [n \in 0..Len(s) |-> From(s, C, n)]
<1>1. c = [n \in 0..Len(s) |-> From(s, c, n)]
  BY ClosedExists, Zenon
<1>2. Closed(s) = c
  BY Zenon DEF Closed, From
<1> QED
  BY <1>1, <1>2, Zenon

(* A stretch is empty, or begins with a plain token or with a bracket.      *)
LEMMA StretchRule ==
  ASSUME NEW s, Len(s) \in Nat, NEW i \in 1..(Len(s) + 1), NEW j \in (i - 1)..Len(s)
  PROVE  Stretch(s, i, j) <=>
           \/ j = i - 1
           \/ j >= i /\ PlainAt(s, i) /\ Stretch(s, i + 1, j)
           \/ \E k \in (i + 1)..j : Matches(s, i, k) /\ Stretch(s, i + 1, k - 1) /\ Stretch(s, k + 1, j)
<1> DEFINE n == j - i + 1
           C == Closed(s)
<1>1. n \in 0..Len(s) /\ i \in 1..(Len(s) + 1 - n) /\ i + n - 1 = j /\ j - (i + 1) + 1 = j - i
  OBVIOUS
<1>2. C[n] = From(s, C, n)
  BY <1>1, ClosedIs
<1>3. Stretch(s, i, j) <=> Begins(s, C, i, j)
  BY <1>1, <1>2, Zenon DEF Stretch, From
<1>4. Stretch(s, i + 1, j) <=> i + 1 \in C[j - i]
  BY <1>1 DEF Stretch
<1>5. ASSUME NEW k \in (i + 1)..j
      PROVE  /\ Stretch(s, i + 1, k - 1) <=> i + 1 \in C[k - i - 1]
             /\ Stretch(s, k + 1, j) <=> k + 1 \in C[j - k]
  <2>1. (k - 1) - (i + 1) + 1 = k - i - 1 /\ j - (k + 1) + 1 = j - k
    OBVIOUS
  <2> QED
    BY <2>1 DEF Stretch
<1>6. (j < i <=> j = i - 1) /\ (j >= i <=> ~(j < i))
  OBVIOUS
<1> HIDE DEF n, C
<1> QED
  BY <1>3, <1>4, <1>5, <1>6, Zenon DEF Begins

(* The three kinds of token, and the empty stretch.                         *)
LEMMA TokenKinds ==
  ASSUME NEW s, NEW i, NEW k, NEW j
  PROVE  /\ s[i] \in Openers => ~PlainAt(s, i) /\ ~Ends(s, i)
         /\ Ends(s, i) => ~PlainAt(s, i) /\ s[i] \notin Openers
         /\ Matches(s, i, k) => Ends(s, k) /\ s[i] \in Openers
  BY DEF PlainAt, Ends, Matches, Openers, ClosedBy

LEMMA EmptyStretch ==
  ASSUME NEW s, Len(s) \in Nat, NEW i \in 1..(Len(s) + 1)
  PROVE  Stretch(s, i, i - 1)
  BY StretchRule

LEMMA StretchOfPlain ==
  ASSUME NEW s, Len(s) \in Nat, NEW i \in 1..Len(s), NEW j \in i..Len(s), PlainAt(s, i)
  PROVE  Stretch(s, i, j) <=> Stretch(s, i + 1, j)
  BY StretchRule, TokenKinds

LEMMA StretchOfOpener ==
  ASSUME NEW s, Len(s) \in Nat, NEW i \in 1..Len(s), NEW j \in i..Len(s), s[i] \in Openers
  PROVE  Stretch(s, i, j) <=>
           \E k \in (i + 1)..j : Matches(s, i, k) /\ Stretch(s, i + 1, k - 1) /\ Stretch(s, k + 1, j)
<1>1. i \in 1..(Len(s) + 1) /\ j \in (i - 1)..Len(s) /\ j /= i - 1
  OBVIOUS
<1>2. ~PlainAt(s, i)
  BY TokenKinds, Zenon
<1> QED
  BY <1>1, <1>2, StretchRule, Zenon

LEMMA StretchStarts ==
  ASSUME NEW s, Len(s) \in Nat, NEW i \in 1..Len(s), NEW j \in i..Len(s), Stretch(s, i, j)
  PROVE  PlainAt(s, i) \/ s[i] \in Openers
<1>1. i \in 1..(Len(s) + 1) /\ j \in (i - 1)..Len(s) /\ j /= i - 1
  OBVIOUS
<1> QED
  BY <1>1, StretchRule, Zenon DEF Matches

(* Unambiguous: a stretch does not stop at a token that ends a level while  *)
(* another from the same place runs past it.                                *)
LEMMA StretchStops ==
  ASSUME NEW s, Len(s) \in Nat, NEW a \in 1..Len(s), NEW k \in a..Len(s), NEW b \in k..Len(s),
         Ends(s, k), Stretch(s, a, k - 1)
  PROVE  ~Stretch(s, a, b)
<1> DEFINE L == Len(s)
           Meets(d) == \E i \in 1..L : \E c \in i..L : \E j \in c..L :
                         /\ j - i = d /\ Ends(s, c)
                         /\ Stretch(s, i, c - 1) /\ Stretch(s, i, j)
           T == {d \in 0..L : Meets(d)}
<1>1. ASSUME T /= {} PROVE FALSE
  <2>1. PICK d \in T : \A e \in T : d <= e
    <3>1. T \in SUBSET Nat
      OBVIOUS
    <3> HIDE DEF T
    <3> QED
      BY <1>1, <3>1, LeastIs
  <2>2. PICK i \in 1..L, c \in 1..L, j \in 1..L :
          i <= c /\ c <= j /\ j - i = d /\ Ends(s, c) /\ Stretch(s, i, c - 1) /\ Stretch(s, i, j)
    BY <2>1
  <2>3. ASSUME NEW x \in 1..L, NEW y \in x..L, NEW z \in y..L, z - x < d,
               Ends(s, y), Stretch(s, x, y - 1), Stretch(s, x, z)
        PROVE  FALSE
    <3>1. z - x \in 0..L
      BY <2>3
    <3>2. Meets(z - x)
      BY <2>3, Zenon
    <3>3. z - x \in T
      BY <3>1, <3>2, Zenon
    <3>4. d \in Nat
      OBVIOUS
    <3> HIDE DEF T, Meets
    <3> QED
      BY <2>1, <2>3, <3>1, <3>3, <3>4
  <2> HIDE DEF T, Meets
  <2>4. i \in 1..L /\ j \in i..L /\ ~PlainAt(s, c) /\ s[c] \notin Openers
    <3>1. ~PlainAt(s, c) /\ s[c] \notin Openers
      BY <2>2, TokenKinds, Zenon
    <3> QED
      BY <2>2, <3>1
  <2>5. c /= i /\ c - 1 \in i..L
    BY <2>2, <2>4, StretchStarts
  <2>6. CASE PlainAt(s, i)
    <3>1. Stretch(s, i + 1, c - 1) /\ Stretch(s, i + 1, j)
      BY <2>2, <2>4, <2>5, <2>6, StretchOfPlain
    <3>2. i + 1 \in 1..L /\ c \in (i + 1)..L /\ j - (i + 1) < d
      BY <2>2, <2>5
    <3> QED
      BY <2>2, <2>3, <3>1, <3>2
  <2>7. CASE s[i] \in Openers
    <3>1. PICK m \in (i + 1)..(c - 1) :
            Matches(s, i, m) /\ Stretch(s, i + 1, m - 1) /\ Stretch(s, m + 1, c - 1)
      BY <2>2, <2>5, <2>7, StretchOfOpener
    <3>2. PICK n \in (i + 1)..j :
            Matches(s, i, n) /\ Stretch(s, i + 1, n - 1) /\ Stretch(s, n + 1, j)
      BY <2>2, <2>4, <2>7, StretchOfOpener
    <3>3. Ends(s, m) /\ Ends(s, n)
      BY <3>1, <3>2, TokenKinds
    <3>4. CASE m < n
      <4>1. i + 1 \in 1..L /\ m \in (i + 1)..L /\ n - 1 \in m..L /\ (n - 1) - (i + 1) < d
        BY <2>2, <3>1, <3>2, <3>4, SMTT(30)
      <4> QED
        BY <2>3, <3>1, <3>2, <3>3, <4>1
    <3>5. CASE n < m
      <4>1. i + 1 \in 1..L /\ n \in (i + 1)..L /\ m - 1 \in n..L /\ (m - 1) - (i + 1) < d
        BY <2>2, <3>1, <3>2, <3>5, SMTT(30)
      <4> QED
        BY <2>3, <3>1, <3>2, <3>3, <4>1
    <3>6. CASE m = n
      <4>1. m + 1 \in 1..L /\ c \in (m + 1)..L /\ j \in c..L /\ j - (m + 1) < d
        BY <2>2, <3>1, <3>2
      <4> QED
        BY <2>2, <2>3, <3>1, <3>2, <3>6, <4>1
    <3> QED
      BY <3>1, <3>2, <3>4, <3>5, <3>6
  <2> QED
    BY <2>2, <2>4, <2>6, <2>7, StretchStarts
<1>2. ASSUME Stretch(s, a, b) PROVE FALSE
  <2>1. b - a \in 0..L /\ Meets(b - a)
    BY <1>2
  <2> QED
    BY <1>1, <2>1
<1> QED
  BY <1>2

(* A bracket a stretch runs over from its opener on is closed within it.    *)
LEMMA StretchSplits ==
  ASSUME NEW s, Len(s) \in Nat, NEW a \in 1..Len(s), NEW o \in a..Len(s), NEW b \in o..Len(s),
         s[o] \in Openers, Stretch(s, a, o - 1), Stretch(s, a, b)
  PROVE  Stretch(s, o, b)
<1> DEFINE L == Len(s)
           Misses(d) == \E i \in 1..L : \E c \in i..L : \E j \in c..L :
                         /\ j - i = d /\ s[c] \in Openers
                         /\ Stretch(s, i, c - 1) /\ Stretch(s, i, j) /\ ~Stretch(s, c, j)
           T == {d \in 0..L : Misses(d)}
<1>1. ASSUME T /= {} PROVE FALSE
  <2>1. PICK d \in T : \A e \in T : d <= e
    <3>1. T \in SUBSET Nat
      OBVIOUS
    <3> HIDE DEF T
    <3> QED
      BY <1>1, <3>1, LeastIs
  <2>2. PICK i \in 1..L, c \in 1..L, j \in 1..L :
          /\ i <= c /\ c <= j /\ j - i = d /\ s[c] \in Openers
          /\ Stretch(s, i, c - 1) /\ Stretch(s, i, j) /\ ~Stretch(s, c, j)
    BY <2>1
  <2>3. ASSUME NEW x \in 1..L, NEW y \in x..L, NEW z \in y..L, z - x < d,
               s[y] \in Openers, Stretch(s, x, y - 1), Stretch(s, x, z)
        PROVE  Stretch(s, y, z)
    <3>1. z - x \in 0..L
      BY <2>3
    <3>2. ~Stretch(s, y, z) => Misses(z - x)
      BY <2>3, Zenon
    <3>3. ~Stretch(s, y, z) => z - x \in T
      BY <3>1, <3>2, Zenon
    <3>4. d \in Nat
      OBVIOUS
    <3> HIDE DEF T, Misses
    <3> QED
      BY <2>1, <2>3, <3>1, <3>3, <3>4
  <2> HIDE DEF T, Misses
  <2>4. i \in 1..L /\ j \in i..L
    BY <2>2
  <2>5. c /= i /\ c - 1 \in i..L
    BY <2>2
  <2>6. CASE PlainAt(s, i)
    <3>1. Stretch(s, i + 1, c - 1) /\ Stretch(s, i + 1, j)
      BY <2>2, <2>4, <2>5, <2>6, StretchOfPlain
    <3>2. i + 1 \in 1..L /\ c \in (i + 1)..L /\ j \in c..L /\ j - (i + 1) < d
      BY <2>2, <2>5
    <3> QED
      BY <2>2, <2>3, <3>1, <3>2
  <2>7. CASE s[i] \in Openers
    <3>1. PICK m \in (i + 1)..(c - 1) :
            Matches(s, i, m) /\ Stretch(s, i + 1, m - 1) /\ Stretch(s, m + 1, c - 1)
      BY <2>2, <2>5, <2>7, StretchOfOpener
    <3>2. PICK n \in (i + 1)..j :
            Matches(s, i, n) /\ Stretch(s, i + 1, n - 1) /\ Stretch(s, n + 1, j)
      BY <2>2, <2>4, <2>7, StretchOfOpener
    <3>3. Ends(s, m) /\ Ends(s, n)
      BY <3>1, <3>2, TokenKinds
    <3>4. ~(m < n)
      <4>1. m < n => i + 1 \in 1..L /\ m \in (i + 1)..L /\ n - 1 \in m..L
        BY <2>2, <3>1, <3>2, SMTT(30)
      <4> QED
        BY <3>1, <3>2, <3>3, <4>1, StretchStops
    <3>5. ~(n < m)
      <4>1. n < m => i + 1 \in 1..L /\ n \in (i + 1)..L /\ m - 1 \in n..L
        BY <2>2, <3>1, <3>2, SMTT(30)
      <4> QED
        BY <3>1, <3>2, <3>3, <4>1, StretchStops
    <3>6. m = n
      BY <3>1, <3>2, <3>4, <3>5
    <3>7. m + 1 \in 1..L /\ c \in (m + 1)..L /\ j \in c..L /\ j - (m + 1) < d
      BY <2>2, <3>1, <3>2, SMTT(30)
    <3> QED
      BY <2>2, <2>3, <3>1, <3>2, <3>6, <3>7
  <2> QED
    BY <2>2, <2>4, <2>6, <2>7, StretchStarts
<1>2. ASSUME ~Stretch(s, o, b) PROVE FALSE
  <2>1. b - a \in 0..L /\ Misses(b - a)
    BY <1>2
  <2> QED
    BY <1>1, <2>1
<1> QED
  BY <1>2

(* No opener inside a stretch stays open.                                   *)
LEMMA StretchCloses ==
  ASSUME NEW s, Len(s) \in Nat, NEW a \in 1..Len(s), NEW o \in a..Len(s), NEW b \in o..Len(s),
         s[o] \in Openers, Stretch(s, a, b)
  PROVE  \E k \in (o + 1)..b : Matches(s, o, k) /\ Stretch(s, o + 1, k - 1)
<1> DEFINE L == Len(s)
           Shut(c, j) == \E k \in (c + 1)..j : Matches(s, c, k) /\ Stretch(s, c + 1, k - 1)
           Misses(d) == \E i \in 1..L : \E c \in i..L : \E j \in c..L :
                         j - i = d /\ s[c] \in Openers /\ Stretch(s, i, j) /\ ~Shut(c, j)
           T == {d \in 0..L : Misses(d)}
<1>1. ASSUME T /= {} PROVE FALSE
  <2>1. PICK d \in T : \A e \in T : d <= e
    <3>1. T \in SUBSET Nat
      OBVIOUS
    <3> HIDE DEF T
    <3> QED
      BY <1>1, <3>1, LeastIs
  <2>2. PICK i \in 1..L, c \in 1..L, j \in 1..L :
          /\ i <= c /\ c <= j /\ j - i = d /\ s[c] \in Openers
          /\ Stretch(s, i, j) /\ ~Shut(c, j)
    <3> HIDE DEF Shut
    <3> QED
      BY <2>1
  <2>3. ASSUME NEW x \in 1..L, NEW y \in x..L, NEW z \in y..L, z - x < d,
               s[y] \in Openers, Stretch(s, x, z)
        PROVE  Shut(y, z)
    <3> HIDE DEF Shut
    <3>1. z - x \in 0..L
      BY <2>3
    <3>2. ~Shut(y, z) => Misses(z - x)
      BY <2>3, Zenon
    <3>3. ~Shut(y, z) => z - x \in T
      BY <3>1, <3>2, Zenon
    <3>4. d \in Nat
      OBVIOUS
    <3> HIDE DEF T, Misses
    <3> QED
      BY <2>1, <2>3, <3>1, <3>3, <3>4
  <2> HIDE DEF T, Misses
  <2>4. i \in 1..L /\ j \in i..L
    BY <2>2
  <2>5. CASE PlainAt(s, i)
    <3>1. c /= i
      BY <2>2, <2>5, TokenKinds
    <3>2. i + 1 \in 1..L /\ c \in (i + 1)..L /\ j \in c..L /\ j - (i + 1) < d
      BY <2>2, <3>1
    <3>3. Stretch(s, i + 1, j)
      BY <2>2, <2>4, <2>5, StretchOfPlain
    <3> HIDE DEF Shut
    <3> QED
      BY <2>2, <2>3, <3>2, <3>3
  <2>6. CASE s[i] \in Openers
    <3>1. PICK n \in (i + 1)..j :
            Matches(s, i, n) /\ Stretch(s, i + 1, n - 1) /\ Stretch(s, n + 1, j)
      BY <2>2, <2>4, <2>6, StretchOfOpener
    <3>2. c /= n
      BY <2>2, <3>1, TokenKinds
    <3>3. c /= i
      BY <2>2, <3>1
    <3>4. CASE c < n
      <4>1. i + 1 \in 1..L /\ c \in (i + 1)..L /\ n - 1 \in c..L /\ (n - 1) - (i + 1) < d
        BY <2>2, <3>1, <3>3, <3>4
      <4>2. Shut(c, n - 1)
        <5> HIDE DEF Shut
        <5> QED
          BY <2>2, <2>3, <3>1, <4>1
      <4>3. \A k \in (c + 1)..(n - 1) : k \in (c + 1)..j
        BY <3>1
      <4>4. Shut(c, j)
        BY <4>2, <4>3, Zenon
      <4> QED
        BY <2>2, <4>4, Zenon
    <3>5. CASE n < c
      <4>1. n + 1 \in 1..L /\ c \in (n + 1)..L /\ j \in c..L /\ j - (n + 1) < d
        BY <2>2, <3>1, <3>5
      <4> HIDE DEF Shut
      <4> QED
        BY <2>2, <2>3, <3>1, <4>1
    <3> QED
      BY <3>1, <3>2, <3>4, <3>5
  <2> QED
    BY <2>2, <2>4, <2>5, <2>6, StretchStarts
<1>2. ASSUME ~Shut(o, b) PROVE FALSE
  <2> HIDE DEF Shut
  <2>1. b - a \in 0..L /\ Misses(b - a)
    BY <1>2
  <2> QED
    BY <1>1, <2>1
<1> QED
  BY <1>2

LEMMA StretchesJoin ==
  ASSUME NEW s, Len(s) \in Nat, NEW a \in 1..(Len(s) + 1), NEW b \in (a - 1)..Len(s),
         NEW e \in b..Len(s), Stretch(s, a, b), Stretch(s, b + 1, e)
  PROVE  Stretch(s, a, e)
<1> DEFINE L == Len(s)
           Misses(d) == \E i \in 1..(L + 1) : \E c \in (i - 1)..L : \E j \in c..L :
                         /\ j - i + 1 = d /\ Stretch(s, i, c) /\ Stretch(s, c + 1, j)
                         /\ ~Stretch(s, i, j)
           T == {d \in 0..L : Misses(d)}
<1>1. ASSUME T /= {} PROVE FALSE
  <2>1. PICK d \in T : \A x \in T : d <= x
    <3>1. T \in SUBSET Nat
      OBVIOUS
    <3> HIDE DEF T
    <3> QED
      BY <1>1, <3>1, LeastIs
  <2>2. PICK i \in 1..(L + 1), c \in 0..L, j \in 0..L :
          /\ i - 1 <= c /\ c <= j /\ j - i + 1 = d
          /\ Stretch(s, i, c) /\ Stretch(s, c + 1, j) /\ ~Stretch(s, i, j)
    BY <2>1
  <2>3. ASSUME NEW x \in 1..(L + 1), NEW y \in (x - 1)..L, NEW z \in y..L, z - x + 1 < d,
               Stretch(s, x, y), Stretch(s, y + 1, z)
        PROVE  Stretch(s, x, z)
    <3>1. z - x + 1 \in 0..L
      BY <2>3, SMTT(30)
    <3>2. ~Stretch(s, x, z) => Misses(z - x + 1)
      BY <2>3, Zenon
    <3>3. ~Stretch(s, x, z) => z - x + 1 \in T
      BY <3>1, <3>2, Zenon
    <3>4. d \in Nat
      OBVIOUS
    <3> HIDE DEF T, Misses
    <3> QED
      BY <2>1, <2>3, <3>1, <3>3, <3>4
  <2> HIDE DEF T, Misses
  <2>4. c /= i - 1
    <3>1. c = i - 1 => c + 1 = i
      OBVIOUS
    <3> QED
      BY <2>2, <3>1
  <2>5. i \in 1..L /\ c \in i..L /\ j \in i..L /\ j \in c..L
    BY <2>2, <2>4
  <2>6. CASE PlainAt(s, i)
    <3>1. Stretch(s, i + 1, c)
      BY <2>2, <2>5, <2>6, StretchOfPlain
    <3>2. i + 1 \in 1..(L + 1) /\ c \in ((i + 1) - 1)..L /\ j - (i + 1) + 1 < d
      BY <2>2, <2>5
    <3>3. Stretch(s, i + 1, j)
      BY <2>2, <2>3, <2>5, <3>1, <3>2
    <3> QED
      BY <2>2, <2>5, <2>6, <3>3, StretchOfPlain
  <2>7. CASE s[i] \in Openers
    <3>1. PICK m \in (i + 1)..c :
            Matches(s, i, m) /\ Stretch(s, i + 1, m - 1) /\ Stretch(s, m + 1, c)
      BY <2>2, <2>5, <2>7, StretchOfOpener
    <3>2. /\ m + 1 \in 1..(L + 1) /\ c \in ((m + 1) - 1)..L /\ j - (m + 1) + 1 < d
          /\ m \in (i + 1)..j
      BY <2>2, <2>5, <3>1
    <3>3. Stretch(s, m + 1, j)
      BY <2>2, <2>3, <2>5, <3>1, <3>2
    <3> QED
      BY <2>2, <2>5, <2>7, <3>1, <3>2, <3>3, StretchOfOpener
  <2> QED
    BY <2>2, <2>5, <2>6, <2>7, StretchStarts
<1>2. ASSUME ~Stretch(s, a, e) PROVE FALSE
  <2>1. e - a + 1 \in 0..L /\ Misses(e - a + 1)
    BY <1>2
  <2> QED
    BY <1>1, <2>1
<1> QED
  BY <1>2

Grown(s, t, u) == u = Append(s, t)

(* A token more leaves what was said of the text before it.                 *)
LEMMA AppendKeeps ==
  ASSUME NEW s \in Seq(Tokens), NEW t \in Tokens, NEW u, Grown(s, t, u)
  PROVE  /\ u \in Seq(Tokens) /\ Len(s) \in Nat /\ Len(u) = Len(s) + 1 /\ u[Len(u)] = t
         /\ \A i \in 1..Len(s) : /\ u[i] = s[i]
                                 /\ PlainAt(u, i) <=> PlainAt(s, i)
                                 /\ TypedAt(u, i) <=> TypedAt(s, i)
                                 /\ \A k \in 1..Len(s) : Matches(u, i, k) <=> Matches(s, i, k)
<1>1. u \in Seq(Tokens) /\ Len(s) \in Nat /\ Len(u) = Len(s) + 1 /\ u[Len(u)] = t
  BY DEF Grown
<1>2. \A i \in 1..Len(s) : u[i] = s[i]
  BY DEF Grown
<1>3. \A i \in 1..Len(s) : i > 1 => u[i - 1] = s[i - 1]
  BY <1>1, <1>2
<1>4. \A i \in 1..Len(s) : PlainAt(u, i) <=> PlainAt(s, i)
  BY <1>2, <1>3, Zenon DEF PlainAt
<1>5. \A i \in 1..Len(s) : TypedAt(u, i) <=> TypedAt(s, i)
  BY <1>2, <1>3, Zenon DEF TypedAt
<1>6. \A i \in 1..Len(s) : \A k \in 1..Len(s) : Matches(u, i, k) <=> Matches(s, i, k)
  BY <1>2, <1>4, Zenon DEF Matches
<1> QED
  BY <1>1, <1>2, <1>4, <1>5, <1>6, Zenon

LEMMA StretchKept ==
  ASSUME NEW s \in Seq(Tokens), NEW t \in Tokens, NEW u, Grown(s, t, u),
         NEW i \in 1..(Len(s) + 1), NEW j \in (i - 1)..Len(s)
  PROVE  Stretch(u, i, j) <=> Stretch(s, i, j)
<1> DEFINE L == Len(s)
           Same(x, y) == Stretch(u, x, y) <=> Stretch(s, x, y)
           Differ(d) == \E x \in 1..(L + 1) : \E y \in (x - 1)..L : y - x + 1 = d /\ ~Same(x, y)
           T == {d \in 0..L : Differ(d)}
<1>1. L \in Nat /\ Len(u) = L + 1 /\ Len(u) \in Nat
  BY AppendKeeps
<1>2. ASSUME T /= {} PROVE FALSE
  <2>1. PICK d \in T : \A e \in T : d <= e
    <3>1. T \in SUBSET Nat
      BY <1>1
    <3> HIDE DEF T
    <3> QED
      BY <1>2, <3>1, LeastIs
  <2>2. PICK a \in 1..(L + 1), b \in 0..L : a - 1 <= b /\ b - a + 1 = d /\ ~Same(a, b)
    <3> HIDE DEF Same
    <3> QED
      BY <1>1, <2>1
  <2>3. ASSUME NEW x \in 1..(L + 1), NEW y \in (x - 1)..L, y - x + 1 < d
        PROVE  Same(x, y)
    <3> HIDE DEF Same
    <3>1. y - x + 1 \in 0..L
      BY <1>1
    <3>2. ~Same(x, y) => Differ(y - x + 1)
      BY <2>3, Zenon
    <3>3. ~Same(x, y) => y - x + 1 \in T
      BY <3>1, <3>2, Zenon
    <3>4. d \in Nat
      BY <1>1
    <3> HIDE DEF T, Differ
    <3> QED
      BY <2>1, <2>3, <3>1, <3>3, <3>4
  <2> HIDE DEF T, Differ
  <2>4. CASE b = a - 1
    <3>1. /\ a \in 1..(Len(u) + 1) /\ b \in (a - 1)..Len(u) /\ b = a - 1
          /\ a \in 1..(L + 1) /\ b \in (a - 1)..L
      BY <1>1, <2>4
    <3>2. Stretch(u, a, b) /\ Stretch(s, a, b)
      BY <1>1, <3>1, StretchRule
    <3> QED
      BY <2>2, <3>2
  <2>5. CASE b /= a - 1
    <3>1. /\ a \in 1..L /\ b \in a..L /\ a \in 1..(L + 1) /\ b \in (a - 1)..L
          /\ a \in 1..(Len(u) + 1) /\ b \in (a - 1)..Len(u)
      BY <1>1, <2>2, <2>5
    <3>2. a + 1 \in 1..(L + 1) /\ b \in ((a + 1) - 1)..L /\ b - (a + 1) + 1 < d
      BY <1>1, <2>2, <3>1
    <3>3. Same(a + 1, b)
      BY <2>3, <3>2
    <3>4. ASSUME NEW k \in (a + 1)..b
          PROVE  /\ Same(a + 1, k - 1) /\ Same(k + 1, b)
                 /\ Matches(u, a, k) <=> Matches(s, a, k)
      <4>1. /\ k \in 1..L
            /\ k - 1 \in ((a + 1) - 1)..L /\ (k - 1) - (a + 1) + 1 < d
            /\ k + 1 \in 1..(L + 1) /\ b \in ((k + 1) - 1)..L /\ b - (k + 1) + 1 < d
        BY <1>1, <2>2, <3>1
      <4>2. Same(a + 1, k - 1) /\ Same(k + 1, b)
        <5> HIDE DEF Same
        <5> QED
          BY <2>3, <3>2, <4>1
      <4> QED
        BY <3>1, <4>1, <4>2, AppendKeeps
    <3>5. PlainAt(u, a) <=> PlainAt(s, a)
      BY <3>1, AppendKeeps
    <3>6. Stretch(u, a, b) <=>
            \/ b = a - 1
            \/ b >= a /\ PlainAt(u, a) /\ Stretch(u, a + 1, b)
            \/ \E k \in (a + 1)..b : Matches(u, a, k) /\ Stretch(u, a + 1, k - 1) /\ Stretch(u, k + 1, b)
      BY <1>1, <3>1, StretchRule, Zenon
    <3>7. Stretch(s, a, b) <=>
            \/ b = a - 1
            \/ b >= a /\ PlainAt(s, a) /\ Stretch(s, a + 1, b)
            \/ \E k \in (a + 1)..b : Matches(s, a, k) /\ Stretch(s, a + 1, k - 1) /\ Stretch(s, k + 1, b)
      BY <1>1, <3>1, StretchRule
    <3> QED
      BY <2>2, <3>3, <3>4, <3>5, <3>6, <3>7, Zenon
  <2> QED
    BY <2>4, <2>5
<1>3. ASSUME ~Same(i, j) PROVE FALSE
  <2> HIDE DEF Same
  <2>1. j - i + 1 \in 0..L
    BY <1>1
  <2>2. Differ(j - i + 1)
    BY <1>3, Zenon
  <2> QED
    BY <1>2, <2>1, <2>2
<1> QED
  BY <1>3

LEMMA OpenIs ==
  ASSUME NEW s, Len(s) \in Nat, NEW p \in 0..Len(s)
  PROVE  OpenAt(s, p) =
           {i \in 1..p : /\ s[i] \in Openers
                         /\ ~\E k \in (i + 1)..p : Matches(s, i, k) /\ Stretch(s, i + 1, k - 1)}
<1>1. ASSUME NEW i \in 1..p, NEW k \in (i + 1)..p
      PROVE  Stretch(s, i + 1, k - 1) <=> i + 1 \in Closed(s)[k - i - 1]
  <2>1. (k - 1) - (i + 1) + 1 = k - i - 1
    OBVIOUS
  <2> QED
    BY <2>1 DEF Stretch
<1> QED
  BY <1>1, Zenon DEF OpenAt

LEMMA OpenKept ==
  ASSUME NEW s \in Seq(Tokens), NEW t \in Tokens, NEW u, Grown(s, t, u), NEW p \in 0..Len(s)
  PROVE  /\ OpenAt(u, p) = OpenAt(s, p)
         /\ {i \in OpenAt(u, p) : TypedAt(u, i)} = {i \in OpenAt(s, p) : TypedAt(s, i)}
<1>1. Len(s) \in Nat /\ Len(u) \in Nat /\ p \in 0..Len(u)
  BY AppendKeeps
<1>2. ASSUME NEW i \in 1..p
      PROVE  /\ u[i] = s[i]
             /\ TypedAt(u, i) <=> TypedAt(s, i)
             /\ \A k \in (i + 1)..p : /\ Matches(u, i, k) <=> Matches(s, i, k)
                                      /\ Stretch(u, i + 1, k - 1) <=> Stretch(s, i + 1, k - 1)
  <2>1. i \in 1..Len(s)
    BY <1>1
  <2>2. ASSUME NEW k \in (i + 1)..p
        PROVE  /\ Matches(u, i, k) <=> Matches(s, i, k)
               /\ Stretch(u, i + 1, k - 1) <=> Stretch(s, i + 1, k - 1)
    <3>1. k \in 1..Len(s) /\ i + 1 \in 1..(Len(s) + 1) /\ k - 1 \in ((i + 1) - 1)..Len(s)
      BY <1>1
    <3>2. Matches(u, i, k) <=> Matches(s, i, k)
      BY <2>1, <3>1, AppendKeeps
    <3> QED
      BY <3>1, <3>2, StretchKept
  <2> QED
    BY <2>1, <2>2, AppendKeeps
<1>3. OpenAt(u, p) = {i \in 1..p : /\ u[i] \in Openers
                                   /\ ~\E k \in (i + 1)..p : Matches(u, i, k) /\ Stretch(u, i + 1, k - 1)}
  BY <1>1, OpenIs
<1>4. OpenAt(s, p) = {i \in 1..p : /\ s[i] \in Openers
                                   /\ ~\E k \in (i + 1)..p : Matches(s, i, k) /\ Stretch(s, i + 1, k - 1)}
  BY <1>1, OpenIs
<1>5. OpenAt(u, p) = OpenAt(s, p)
  <2> SUFFICES ASSUME NEW i \in 1..p
               PROVE  i \in OpenAt(u, p) <=> i \in OpenAt(s, p)
    BY <1>3, <1>4
  <2> QED
    BY <1>2, <1>3, <1>4, Zenon
<1>6. \A i \in OpenAt(s, p) : i \in 1..p
  BY <1>4
<1> QED
  BY <1>2, <1>5, <1>6, Zenon

(* The levels of a text: the openers that split it into closed stretches.   *)
Marks(s, n, O) ==
    /\ O \in [0..n -> 0..Len(s)] /\ O[0] = 0
    /\ \A m \in 1..n : O[m - 1] < O[m] /\ s[O[m]] \in Openers /\ Stretch(s, O[m - 1] + 1, O[m] - 1)
    /\ Stretch(s, O[n] + 1, Len(s))

LEMMA MarksClimb ==
  ASSUME NEW s, Len(s) \in Nat, NEW n \in Nat, NEW O, Marks(s, n, O),
         NEW i \in 0..n, NEW j \in (i + 1)..n
  PROVE  O[i] < O[j]
<1> DEFINE T == {k \in (i + 1)..n : ~ (O[i] < O[k])}
<1> SUFFICES ASSUME T /= {} PROVE FALSE
  OBVIOUS
<1>1. PICK k \in T : \A l \in T : k <= l
  <2>1. T \in SUBSET Nat
    OBVIOUS
  <2> HIDE DEF T
  <2> QED
    BY <2>1, LeastIs
<1>2. k \in 1..n /\ k - 1 \in 0..n /\ (k - 1 = i \/ k - 1 \in (i + 1)..n) /\ k - 1 < k
  OBVIOUS
<1>3. k - 1 = i \/ O[i] < O[k - 1]
  BY <1>1, <1>2
<1>4. O[k - 1] < O[k] /\ O[k - 1] \in 0..Len(s) /\ O[k] \in 0..Len(s) /\ O[i] \in 0..Len(s)
  BY <1>2 DEF Marks
<1>5. ~ (O[i] < O[k])
  OBVIOUS
<1> HIDE DEF T
<1> QED
  BY <1>3, <1>4, <1>5

(* No marked opener is closed: what would close it runs over the next one.  *)
LEMMA MarkedStayOpen ==
  ASSUME NEW s, Len(s) \in Nat, NEW n \in Nat, NEW O, Marks(s, n, O), NEW m \in 1..n,
         NEW k \in (O[m] + 1)..Len(s), Matches(s, O[m], k)
  PROVE  ~Stretch(s, O[m] + 1, k - 1)
<1> DEFINE L == Len(s)
           Shut(i) == \E c \in (O[i] + 1)..L : Matches(s, O[i], c) /\ Stretch(s, O[i] + 1, c - 1)
           T == {d \in 0..n : \E i \in 1..n : n - i = d /\ Shut(i)}
<1>1. ASSUME T /= {} PROVE FALSE
  <2>1. PICK d \in T : \A e \in T : d <= e
    <3>1. T \in SUBSET Nat
      OBVIOUS
    <3> HIDE DEF T
    <3> QED
      BY <1>1, <3>1, LeastIs
  <2>2. PICK i \in 1..n : n - i = d /\ Shut(i)
    BY <2>1
  <2>3. i \in 0..n /\ O[i] \in 0..L /\ 0 < O[i] /\ s[O[i]] \in Openers
    <3>1. i \in 1..n /\ i - 1 \in 0..n /\ i \in 0..n
      OBVIOUS
    <3>2. O[i - 1] \in 0..L /\ O[i] \in 0..L /\ O[i - 1] < O[i]
      BY <3>1 DEF Marks
    <3>3. s[O[i]] \in Openers
      BY DEF Marks
    <3> QED
      BY <3>1, <3>2, <3>3
  <2>4. PICK c \in (O[i] + 1)..L : Matches(s, O[i], c) /\ Stretch(s, O[i] + 1, c - 1)
    BY <2>2
  <2>5. Ends(s, c) /\ c \in 1..L
    BY <2>3, <2>4, TokenKinds
  <2>6. CASE i = n
    <3>1. Stretch(s, O[i] + 1, L)
      BY <2>6 DEF Marks
    <3>2. O[i] + 1 \in 1..L /\ L \in c..L
      BY <2>3, <2>5, SMTT(30)
    <3> QED
      BY <2>4, <2>5, <3>1, <3>2, StretchStops
  <2>7. CASE i /= n
    <3>1. i + 1 \in 1..n /\ i + 1 \in 0..n /\ (i + 1) - 1 = i /\ n - (i + 1) \in 0..n /\ n - (i + 1) < d
      BY <2>2, <2>7
    <3> DEFINE o == O[i + 1]
    <3>2. o \in 0..L /\ O[i] < o /\ s[o] \in Openers /\ Stretch(s, O[i] + 1, o - 1)
      BY <3>1 DEF Marks
    <3> HIDE DEF o
    <3>3. o /= c
      BY <2>5, <3>2, TokenKinds
    <3>4. CASE c < o
      <4>1. O[i] + 1 \in 1..L /\ o - 1 \in c..L
        BY <2>3, <2>5, <3>2, <3>4, SMTT(30)
      <4> QED
        BY <2>4, <2>5, <3>2, <4>1, StretchStops
    <3>5. CASE o < c
      <4>1. O[i] + 1 \in 1..L /\ o \in (O[i] + 1)..L /\ c - 1 \in o..L
        BY <2>3, <2>5, <3>2, <3>5, SMTT(30)
      <4>2. Stretch(s, o, c - 1)
        BY <2>4, <3>2, <4>1, StretchSplits
      <4>3. PICK e \in (o + 1)..(c - 1) :
              Matches(s, o, e) /\ Stretch(s, o + 1, e - 1) /\ Stretch(s, e + 1, c - 1)
        <5>1. o \in 1..L
          BY <2>3, <3>2
        <5> QED
          BY <3>2, <4>1, <4>2, <5>1, StretchOfOpener
      <4>4. e \in (O[i + 1] + 1)..L
        BY <2>5, <3>2, <4>1 DEF o
      <4>5. Shut(i + 1)
        BY <4>3, <4>4, Zenon DEF o
      <4>6. n - (i + 1) \in T
        <5> HIDE DEF Shut
        <5> QED
          BY <3>1, <4>5
      <4>7. d \in Nat
        OBVIOUS
      <4> HIDE DEF T, Shut
      <4> QED
        BY <2>1, <3>1, <4>6, <4>7
    <3> QED
      BY <2>3, <2>5, <3>2, <3>3, <3>4, <3>5
  <2> QED
    BY <2>6, <2>7
<1>2. ASSUME Stretch(s, O[m] + 1, k - 1) PROVE FALSE
  <2>1. Shut(m)
    BY <1>2
  <2>2. n - m \in 0..n
    OBVIOUS
  <2> HIDE DEF Shut
  <2> QED
    BY <1>1, <2>1, <2>2
<1> QED
  BY <1>2

LEMMA MarksOpen ==
  ASSUME NEW s, Len(s) \in Nat, NEW n \in Nat, NEW O, Marks(s, n, O)
  PROVE  OpenAt(s, Len(s)) = {O[m] : m \in 1..n}
<1> DEFINE L == Len(s)
           Shut(i) == \E k \in (i + 1)..L : Matches(s, i, k) /\ Stretch(s, i + 1, k - 1)
<1>1. \A m \in 0..n : O[m] \in 0..L
  BY DEF Marks
<1>2. ASSUME NEW m \in 1..n
      PROVE  O[m] \in 1..L /\ s[O[m]] \in Openers /\ ~Shut(O[m])
  <2>1. m - 1 \in 0..n /\ m \in 0..n
    OBVIOUS
  <2>2. O[m - 1] < O[m] /\ s[O[m]] \in Openers
    BY DEF Marks
  <2> QED
    BY <1>1, <2>1, <2>2, MarkedStayOpen
<1>3. ASSUME NEW i \in 1..L, s[i] \in Openers, \A m \in 1..n : i /= O[m]
      PROVE  Shut(i)
  <2> DEFINE S == {m \in 0..n : O[m] < i}
  <2>1. O[0] < i
    BY DEF Marks
  <2>2. PICK m \in S : m = n \/ m + 1 \notin S
    <3>1. S \in SUBSET (0..n) /\ 0 \in S
      BY <2>1
    <3> HIDE DEF S
    <3> QED
      BY <3>1, LastPlace
  <2>3. m \in 0..n /\ O[m] < i /\ O[m] \in 0..L
    BY <1>1
  <2>4. CASE m = n
    <3>1. Stretch(s, O[m] + 1, L)
      BY <2>4 DEF Marks
    <3>2. O[m] + 1 \in 1..L /\ i \in (O[m] + 1)..L /\ L \in i..L
      BY <2>3
    <3> QED
      BY <1>3, <3>1, <3>2, StretchCloses
  <2>5. CASE m /= n
    <3>1. m + 1 \in 1..n /\ m + 1 \in 0..n /\ (m + 1) - 1 = m
      BY <2>3, <2>5
    <3>2. O[m + 1] \in 0..L /\ Stretch(s, O[m] + 1, O[m + 1] - 1)
      BY <3>1 DEF Marks
    <3>3. ~ (O[m + 1] < i) /\ i /= O[m + 1]
      BY <1>3, <2>2, <2>5, <3>1
    <3> DEFINE b == O[m + 1] - 1
    <3>4. O[m] + 1 \in 1..L /\ i \in (O[m] + 1)..L /\ b \in i..L
      BY <2>3, <3>2, <3>3
    <3>5. PICK k \in (i + 1)..b : Matches(s, i, k) /\ Stretch(s, i + 1, k - 1)
      <4>1. Stretch(s, O[m] + 1, b)
        BY <3>2
      <4> HIDE DEF b
      <4> QED
        BY <1>3, <3>4, <4>1, StretchCloses
    <3>6. k \in (i + 1)..L
      <4> HIDE DEF b
      <4> QED
        BY <3>4
    <3> QED
      BY <3>5, <3>6, Zenon
  <2> QED
    BY <2>4, <2>5
<1>4. OpenAt(s, L) = {i \in 1..L : s[i] \in Openers /\ ~Shut(i)}
  <2>1. L \in 0..Len(s)
    OBVIOUS
  <2> QED
    BY <2>1, OpenIs, Zenon
<1> HIDE DEF Shut
<1> QED
  BY <1>2, <1>3, <1>4, Zenon

(* As many openers are open as are marked, and as many of them typed.       *)
LEMMA MarksCount ==
  ASSUME NEW s, Len(s) \in Nat, NEW n \in Nat, NEW O, Marks(s, n, O)
  PROVE  /\ Cardinality(OpenAt(s, Len(s))) = n
         /\ Cardinality({i \in OpenAt(s, Len(s)) : TypedAt(s, i)}) =
              Cardinality({m \in 1..n : TypedAt(s, O[m])})
<1>1. \A i, j \in 1..n : i /= j => O[i] /= O[j]
  <2>1. ASSUME NEW i \in 1..n, NEW j \in 1..n, i < j PROVE O[i] /= O[j]
    <3>1. i \in 0..n /\ j \in 0..n /\ j \in (i + 1)..n
      BY <2>1
    <3>2. O[i] < O[j] /\ O[i] \in 0..Len(s) /\ O[j] \in 0..Len(s)
      BY <3>1, MarksClimb DEF Marks
    <3> QED
      BY <3>2
  <2> QED
    BY <2>1
<1>2. ASSUME NEW S \in SUBSET (1..n)
      PROVE  Cardinality({O[m] : m \in S}) = Cardinality(S)
  <2> DEFINE f == [m \in S |-> O[m]]
  <2>1. f \in Bijection(S, {O[m] : m \in S})
    <3>1. \A i, j \in S : f[i] = f[j] => i = j
      BY <1>1
    <3>2. f \in [S -> {O[m] : m \in S}] /\ \A x \in {O[m] : m \in S} : \E m \in S : f[m] = x
      OBVIOUS
    <3> HIDE DEF f
    <3> QED
      BY <3>1, <3>2, Zenon DEF Bijection, Injection, Surjection, IsInjective
  <2>2. ExistsBijection(S, {O[m] : m \in S})
    BY <2>1, Zenon DEF ExistsBijection
  <2>3. IsFiniteSet(S)
    <3>1. IsFiniteSet(1..n)
      BY FS_Interval
    <3> QED
      BY <3>1, FS_Subset
  <2> QED
    BY <2>2, <2>3, FS_Bijection
<1>3. OpenAt(s, Len(s)) = {O[m] : m \in 1..n}
  BY MarksOpen
<1>4. {i \in OpenAt(s, Len(s)) : TypedAt(s, i)} = {O[m] : m \in {l \in 1..n : TypedAt(s, O[l])}}
  BY <1>3, Zenon
<1>5. Cardinality(1..n) = n
  BY FS_Interval
<1> QED
  BY <1>2, <1>3, <1>4, <1>5

LEMMA MarksOpened ==
  ASSUME NEW s \in Seq(Tokens), NEW t \in Openers, NEW u, Grown(s, t, u), NEW n \in Nat, NEW O, Marks(s, n, O)
  PROVE  Marks(u, n + 1, [m \in 0..(n + 1) |-> IF m = n + 1 THEN Len(u) ELSE O[m]])
<1> DEFINE L == Len(s)
           P == [m \in 0..(n + 1) |-> IF m = n + 1 THEN Len(u) ELSE O[m]]
<1>1. L \in Nat /\ Len(u) = L + 1 /\ u[Len(u)] = t /\ t \in Tokens
  BY AppendKeeps DEF Tokens
<1>2. \A m \in 0..n : m \in 0..(n + 1) /\ m /= n + 1 /\ P[m] = O[m] /\ O[m] \in 0..L
  BY DEF Marks
<1>3. P[n + 1] = L + 1
  BY <1>1
<1>4. P \in [0..(n + 1) -> 0..Len(u)] /\ P[0] = 0
  <2>1. ASSUME NEW m \in 0..(n + 1) PROVE P[m] \in 0..Len(u)
    <3>1. CASE m = n + 1
      BY <1>1, <1>3, <3>1
    <3>2. CASE m /= n + 1
      <4>1. m \in 0..n
        BY <3>2
      <4> HIDE DEF P
      <4> QED
        BY <1>1, <1>2, <4>1
    <3> QED
      BY <3>1, <3>2
  <2>2. P[0] = 0
    BY DEF Marks
  <2>3. P = [m \in 0..(n + 1) |-> P[m]]
    OBVIOUS
  <2> HIDE DEF P
  <2> QED
    BY <2>1, <2>2, <2>3
<1> HIDE DEF P
<1>5. ASSUME NEW m \in 1..(n + 1)
      PROVE  P[m - 1] < P[m] /\ u[P[m]] \in Openers /\ Stretch(u, P[m - 1] + 1, P[m] - 1)
  <2>1. CASE m = n + 1
    <3>1. m - 1 = n /\ n \in 0..n
      BY <2>1
    <3>2. P[m] = L + 1 /\ P[m - 1] = O[n] /\ O[n] \in 0..L
      BY <1>2, <1>3, <2>1, <3>1
    <3>3. Stretch(s, O[n] + 1, L)
      BY DEF Marks
    <3>4. O[n] + 1 \in 1..(L + 1) /\ L \in ((O[n] + 1) - 1)..L /\ (L + 1) - 1 = L
      BY <1>1, <3>2
    <3>5. Stretch(u, O[n] + 1, L)
      BY <1>1, <3>3, <3>4, StretchKept
    <3> QED
      BY <1>1, <3>2, <3>4, <3>5
  <2>2. CASE m /= n + 1
    <3>1. m \in 1..n /\ m \in 0..n /\ m - 1 \in 0..n
      BY <2>2
    <3>2. P[m] = O[m] /\ P[m - 1] = O[m - 1] /\ O[m] \in 0..L /\ O[m - 1] \in 0..L
      BY <1>2, <3>1
    <3>3. O[m - 1] < O[m] /\ s[O[m]] \in Openers /\ Stretch(s, O[m - 1] + 1, O[m] - 1)
      BY <3>1 DEF Marks
    <3>4. O[m - 1] + 1 \in 1..(L + 1) /\ O[m] - 1 \in ((O[m - 1] + 1) - 1)..L /\ O[m] \in 1..L
      BY <1>1, <3>2, <3>3, SMTT(30)
    <3>5. Stretch(u, O[m - 1] + 1, O[m] - 1)
      BY <1>1, <3>3, <3>4, StretchKept
    <3>6. u[O[m]] = s[O[m]]
      BY <1>1, <3>4, AppendKeeps
    <3> QED
      BY <3>2, <3>3, <3>5, <3>6
  <2> QED
    BY <2>1, <2>2
<1>6. Stretch(u, P[n + 1] + 1, Len(u))
  <2>1. (L + 1) + 1 \in 1..(Len(u) + 1) /\ Len(u) = ((L + 1) + 1) - 1 /\ Len(u) \in Nat
    BY <1>1
  <2>2. Stretch(u, (L + 1) + 1, ((L + 1) + 1) - 1)
    BY <2>1, EmptyStretch
  <2> QED
    BY <1>3, <2>1, <2>2
<1>7. Marks(u, n + 1, P)
  BY <1>4, <1>5, <1>6, Zenon DEF Marks
<1> QED
  BY <1>7 DEF P

(* One stretch is closed by the new token: after the last mark, or from the *)
(* last mark on.                                                            *)
LEMMA MarksLeft ==
  ASSUME NEW s \in Seq(Tokens), NEW t \in Tokens, NEW u, Grown(s, t, u), NEW n \in Nat, NEW O, Marks(s, n, O),
         NEW q \in 0..n, Stretch(u, O[q] + 1, Len(u))
  PROVE  Marks(u, q, [m \in 0..q |-> O[m]])
<1> DEFINE L == Len(s)
           P == [m \in 0..q |-> O[m]]
<1>1. L \in Nat /\ Len(u) = L + 1
  BY AppendKeeps
<1>2. \A m \in 0..q : m \in 0..n /\ P[m] = O[m] /\ O[m] \in 0..L /\ O[m] \in 0..Len(u)
  BY <1>1 DEF Marks
<1>3. P \in [0..q -> 0..Len(u)] /\ P[0] = 0
  <2>1. P = [m \in 0..q |-> P[m]] /\ 0 \in 0..q
    OBVIOUS
  <2>2. O[0] = 0
    BY DEF Marks
  <2> HIDE DEF P
  <2> QED
    BY <1>2, <2>1, <2>2
<1> HIDE DEF P
<1>4. ASSUME NEW m \in 1..q
      PROVE  P[m - 1] < P[m] /\ u[P[m]] \in Openers /\ Stretch(u, P[m - 1] + 1, P[m] - 1)
  <2>1. m \in 1..n /\ m \in 0..q /\ m - 1 \in 0..q
    OBVIOUS
  <2>2. P[m] = O[m] /\ P[m - 1] = O[m - 1] /\ O[m] \in 0..L /\ O[m - 1] \in 0..L
    BY <1>2, <2>1
  <2>3. O[m - 1] < O[m] /\ s[O[m]] \in Openers /\ Stretch(s, O[m - 1] + 1, O[m] - 1)
    BY <2>1 DEF Marks
  <2>4. O[m - 1] + 1 \in 1..(L + 1) /\ O[m] - 1 \in ((O[m - 1] + 1) - 1)..L /\ O[m] \in 1..L
    BY <1>1, <2>2, <2>3, SMTT(30)
  <2>5. Stretch(u, O[m - 1] + 1, O[m] - 1)
    BY <1>1, <2>3, <2>4, StretchKept
  <2>6. u[O[m]] = s[O[m]]
    BY <1>1, <2>4, AppendKeeps
  <2> QED
    BY <2>2, <2>3, <2>5, <2>6
<1>5. q \in 0..q
  OBVIOUS
<1>6. Marks(u, q, P)
  BY <1>2, <1>3, <1>4, <1>5, Zenon DEF Marks
<1> QED
  BY <1>6 DEF P

LEMMA MarksPlain ==
  ASSUME NEW s \in Seq(Tokens), NEW t \in Tokens, NEW u, Grown(s, t, u), NEW n \in Nat, NEW O, Marks(s, n, O),
         PlainAt(u, Len(u))
  PROVE  Stretch(u, O[n] + 1, Len(u))
<1> DEFINE L == Len(s)
           U == Len(u)
<1>1. L \in Nat /\ U = L + 1 /\ U \in Nat
  BY AppendKeeps
<1>2. O[n] \in 0..L /\ Stretch(s, O[n] + 1, L)
  BY DEF Marks
<1> HIDE DEF L, U
<1>3. O[n] + 1 \in 1..(L + 1) /\ L \in ((O[n] + 1) - 1)..L
  BY <1>1, <1>2
<1>4. Stretch(u, O[n] + 1, L)
  BY <1>1, <1>2, <1>3, StretchKept DEF L
<1>5. U \in 1..U /\ U \in U..U /\ U + 1 \in 1..(U + 1) /\ (U + 1) - 1 = U
  BY <1>1
<1>6. Stretch(u, U + 1, U)
  BY <1>1, <1>5, EmptyStretch DEF U
<1>7. Stretch(u, L + 1, U)
  BY <1>1, <1>5, <1>6, StretchOfPlain DEF U
<1>8. O[n] + 1 \in 1..(U + 1) /\ L \in ((O[n] + 1) - 1)..U /\ U \in L..U
  BY <1>1, <1>2
<1> QED
  BY <1>1, <1>4, <1>7, <1>8, StretchesJoin DEF U

LEMMA MarksClosed ==
  ASSUME NEW s \in Seq(Tokens), NEW t \in Tokens, NEW u, Grown(s, t, u), NEW n \in Nat \ {0}, NEW O, Marks(s, n, O),
         Matches(u, O[n], Len(u))
  PROVE  Stretch(u, O[n - 1] + 1, Len(u))
<1> DEFINE L == Len(s)
           U == Len(u)
           o == O[n]
           p == O[n - 1]
<1>1. L \in Nat /\ U = L + 1 /\ U \in Nat
  BY AppendKeeps
<1>2. p \in 0..L /\ o \in 0..L /\ p < o /\ Stretch(s, p + 1, o - 1) /\ Stretch(s, o + 1, L) /\ s[o] \in Openers
  <2>1. n \in 1..n /\ n \in 0..n /\ n - 1 \in 0..n
    OBVIOUS
  <2> QED
    BY <2>1, Zenon DEF Marks
<1>3. Matches(u, o, U)
  OBVIOUS
<1> HIDE DEF L, U, o, p
<1>4. /\ p + 1 \in 1..(L + 1) /\ o - 1 \in ((p + 1) - 1)..L
      /\ o + 1 \in 1..(L + 1) /\ L \in ((o + 1) - 1)..L
  BY <1>1, <1>2
<1>5. Stretch(u, p + 1, o - 1) /\ Stretch(u, o + 1, L)
  BY <1>1, <1>2, <1>4, StretchKept DEF L
<1>6. U + 1 \in 1..(U + 1) /\ (U + 1) - 1 = U /\ U - 1 = L /\ o \in 1..U /\ U \in o..U /\ U \in (o + 1)..U
  BY <1>1, <1>2
<1>7. Stretch(u, U + 1, U)
  BY <1>1, <1>6, EmptyStretch DEF U
<1>8. u[o] \in Openers
  BY <1>3 DEF Matches
<1>9. Stretch(u, o, U)
  BY <1>1, <1>3, <1>5, <1>6, <1>7, <1>8, StretchOfOpener DEF U
<1>10. /\ p + 1 \in 1..(U + 1) /\ o - 1 \in ((p + 1) - 1)..U /\ U \in (o - 1)..U
       /\ (o - 1) + 1 = o
  BY <1>1, <1>2
<1> QED
  BY <1>1, <1>5, <1>9, <1>10, StretchesJoin DEF U, p

(* The reads of a text, token by token.                                     *)
ReadsAt(s, p) == 2^Cardinality({i \in OpenAt(s, p) : TypedAt(s, i)})

LEMMA SumsExist ==
  ASSUME NEW n \in Nat, NEW w
  PROVE  \E f : f = [p \in 0..n |-> IF p = 0 THEN 0 ELSE f[p - 1] + w[p]]
<1> DEFINE Rule(f, p) == IF p = 0 THEN 0 ELSE f[p - 1] + w[p]
           Right(f, d) == \A p \in 0..n : p < d => f[p] = Rule(f, p)
           T == {d \in 0..(n + 1) : ~\E f : f = [p \in 0..n |-> f[p]] /\ Right(f, d)}
<1>1. ASSUME T /= {} PROVE FALSE
  <2>1. PICK d \in T : \A e \in T : d <= e
    <3>1. T \in SUBSET Nat
      OBVIOUS
    <3> HIDE DEF T
    <3> QED
      BY <1>1, <3>1, LeastIs
  <2>2. d /= 0
    <3> DEFINE g == [p \in 0..n |-> 0]
    <3>1. g = [p \in 0..n |-> g[p]] /\ Right(g, 0)
      OBVIOUS
    <3> QED
      BY <3>1
  <2>3. d - 1 \in 0..(n + 1) /\ d - 1 \notin T
    BY <2>1, <2>2
  <2>4. PICK f : f = [p \in 0..n |-> f[p]] /\ Right(f, d - 1)
    BY <2>3
  <2> DEFINE g == [p \in 0..n |-> Rule(f, p)]
  <2>5. g = [p \in 0..n |-> g[p]]
    OBVIOUS
  <2>6. ASSUME NEW p \in 0..n, p < d PROVE g[p] = Rule(g, p)
    <3>1. CASE p = 0
      BY <3>1
    <3>2. CASE p /= 0
      <4>1. p - 1 \in 0..n /\ p - 1 < d - 1
        BY <2>6, <3>2
      <4>2. g[p - 1] = f[p - 1]
        BY <2>4, <4>1
      <4> QED
        BY <3>2, <4>2
    <3> QED
      BY <3>1, <3>2
  <2>7. Right(g, d)
    BY <2>6
  <2> HIDE DEF g, Right
  <2> QED
    BY <2>1, <2>5, <2>7
<1>2. n + 1 \in 0..(n + 1)
  OBVIOUS
<1>3. PICK f : f = [p \in 0..n |-> f[p]] /\ Right(f, n + 1)
  BY <1>1, <1>2
<1>4. \A p \in 0..n : f[p] = Rule(f, p)
  <2>1. \A p \in 0..n : p < n + 1
    OBVIOUS
  <2> HIDE DEF Rule
  <2> QED
    BY <1>3, <2>1
<1>5. [p \in 0..n |-> f[p]] = [p \in 0..n |-> Rule(f, p)]
  BY <1>4, Zenon
<1> QED
  BY <1>3, <1>5

LEMMA ReadsAdd ==
  ASSUME NEW s, Len(s) \in Nat
  PROVE  \E R : /\ R[0] = 0 /\ R[Len(s)] = ReadsOf(s)
                /\ \A p \in 1..Len(s) : R[p] = R[p - 1] + ReadsAt(s, p)
<1> DEFINE w == [p \in 0..Len(s) |-> ReadsAt(s, p)]
           Ruled(f) == f = [p \in 0..Len(s) |-> IF p = 0 THEN 0 ELSE f[p - 1] + ReadsAt(s, p)]
           R == CHOOSE f : Ruled(f)
<1>1. PICK f : f = [p \in 0..Len(s) |-> IF p = 0 THEN 0 ELSE f[p - 1] + w[p]]
  <2> HIDE DEF w
  <2> QED
    BY SumsExist
<1>2. Ruled(f)
  BY <1>1
<1>3. Ruled(R)
  <2> HIDE DEF Ruled
  <2> QED
    BY <1>2, Zenon
<1>4. ReadsOf(s) = R[Len(s)]
  BY Zenon DEF ReadsOf, ReadsAt
<1> HIDE DEF R
<1>5. R[0] = 0 /\ \A p \in 1..Len(s) : R[p] = R[p - 1] + ReadsAt(s, p)
  BY <1>3
<1> QED
  BY <1>4, <1>5

LEMMA ReadsGrow ==
  ASSUME NEW s \in Seq(Tokens), NEW t \in Tokens, NEW u, Grown(s, t, u)
  PROVE  ReadsOf(u) = ReadsOf(s) + ReadsAt(u, Len(u))
<1> DEFINE L == Len(s)
<1>1. L \in Nat /\ Len(u) = L + 1 /\ Len(u) \in Nat
  BY AppendKeeps
<1>2. PICK R : /\ R[0] = 0 /\ R[L] = ReadsOf(s)
               /\ \A p \in 1..L : R[p] = R[p - 1] + ReadsAt(s, p)
  BY <1>1, ReadsAdd
<1>3. PICK Q : /\ Q[0] = 0 /\ Q[Len(u)] = ReadsOf(u)
               /\ \A p \in 1..Len(u) : Q[p] = Q[p - 1] + ReadsAt(u, p)
  BY <1>1, ReadsAdd
<1>4. \A p \in 1..L : p \in 1..Len(u) /\ p \in 0..L
  BY <1>1
<1>5. \A p \in 1..L : ReadsAt(u, p) = ReadsAt(s, p)
  BY <1>4, OpenKept, Zenon DEF ReadsAt
<1>6. \A p \in 1..L : Q[p - 1] = R[p - 1] => Q[p] = R[p]
  BY <1>2, <1>3, <1>4, <1>5, Zenon
<1>7. Q[L] = R[L]
  BY <1>1, <1>2, <1>3, <1>6, AgreeFrom, ZenonT(30)
<1>8. Len(u) \in 1..Len(u) /\ Len(u) - 1 = L
  BY <1>1
<1>9. Q[Len(u)] = Q[L] + ReadsAt(u, Len(u))
  BY <1>3, <1>8
<1> QED
  BY <1>2, <1>3, <1>7, <1>9

(* The levels the scan holds are the marks of its text.                     *)
LevelSet == [by : Openers, typed : BOOLEAN, depth : Nat]

LevelsFit(s, ls) ==
    \E O : /\ Marks(s, Len(ls), O)
           /\ \A m \in 1..Len(ls) : s[O[m]] = ls[m].by /\ (ls[m].typed <=> TypedAt(s, O[m]))

LEMMA FitCounts ==
  ASSUME NEW s \in Seq(Tokens), NEW ls \in Seq(LevelSet), LevelsFit(s, ls)
  PROVE  /\ Len(ls) = Cardinality(OpenAt(s, Len(s)))
         /\ TypeNesting(ls) = Cardinality({i \in OpenAt(s, Len(s)) : TypedAt(s, i)})
<1>1. Len(s) \in Nat /\ Len(ls) \in Nat /\ DOMAIN ls = 1..Len(ls)
  OBVIOUS
<1>2. PICK O : /\ Marks(s, Len(ls), O)
               /\ \A m \in 1..Len(ls) : ls[m].typed <=> TypedAt(s, O[m])
  BY DEF LevelsFit
<1>3. {i \in DOMAIN ls : ls[i].typed} = {m \in 1..Len(ls) : TypedAt(s, O[m])}
  BY <1>1, <1>2, Zenon
<1> QED
  BY <1>1, <1>2, <1>3, MarksCount DEF TypeNesting

LEMMA FitOpens ==
  ASSUME NEW s \in Seq(Tokens), NEW t \in Openers, NEW u, Grown(s, t, u),
         NEW ls \in Seq(LevelSet), LevelsFit(s, ls), NEW new \in LevelSet, new.by = t,
         new.typed <=> TypedAt(u, Len(u))
  PROVE  LevelsFit(u, Append(ls, new))
<1> DEFINE n == Len(ls)
           ms == Append(ls, new)
<1>1. n \in Nat /\ Len(ms) = n + 1 /\ ms[n + 1] = new /\ \A m \in 1..n : ms[m] = ls[m]
  OBVIOUS
<1>2. Len(s) \in Nat /\ Len(u) = Len(s) + 1 /\ u[Len(u)] = t /\ t \in Tokens
  BY AppendKeeps DEF Tokens
<1>3. PICK O : /\ Marks(s, n, O)
               /\ \A m \in 1..n : s[O[m]] = ls[m].by /\ (ls[m].typed <=> TypedAt(s, O[m]))
  BY DEF LevelsFit
<1> DEFINE P == [m \in 0..(n + 1) |-> IF m = n + 1 THEN Len(u) ELSE O[m]]
<1>4. Marks(u, n + 1, P)
  <2> HIDE DEF n
  <2> QED
    BY <1>1, <1>3, MarksOpened, SMTT(30)
<1> HIDE DEF ms
<1>5. ASSUME NEW m \in 1..(n + 1)
      PROVE  u[P[m]] = ms[m].by /\ (ms[m].typed <=> TypedAt(u, P[m]))
  <2>1. CASE m = n + 1
    <3>1. P[m] = Len(u)
      BY <1>1, <2>1
    <3> HIDE DEF P
    <3> QED
      BY <1>1, <1>2, <2>1, <3>1
  <2>2. CASE m /= n + 1
    <3>1. m \in 1..n /\ P[m] = O[m] /\ m \in 0..n /\ m - 1 \in 0..n
      BY <1>1, <2>2
    <3>2. O[m - 1] < O[m] /\ O[m - 1] \in 0..Len(s) /\ O[m] \in 0..Len(s)
      BY <1>3, <3>1 DEF Marks
    <3>3. O[m] \in 1..Len(s)
      BY <1>2, <3>2
    <3>4. u[O[m]] = s[O[m]] /\ (TypedAt(u, O[m]) <=> TypedAt(s, O[m]))
      BY <1>2, <3>3, AppendKeeps
    <3> HIDE DEF P
    <3> QED
      BY <1>1, <1>3, <3>1, <3>4, Zenon
  <2> QED
    BY <2>1, <2>2
<1> HIDE DEF P
<1> QED
  BY <1>1, <1>4, <1>5, Zenon DEF LevelsFit, ms

(* Fewer levels, or the same: the marks of what is left.                    *)
LEMMA FitLeaves ==
  ASSUME NEW s \in Seq(Tokens), NEW t \in Tokens, NEW u, Grown(s, t, u),
         NEW ls \in Seq(LevelSet), NEW O, Marks(s, Len(ls), O),
         \A m \in 1..Len(ls) : s[O[m]] = ls[m].by /\ (ls[m].typed <=> TypedAt(s, O[m])),
         NEW ms, Len(ms) \in 0..Len(ls), \A m \in 1..Len(ms) : ms[m] = ls[m],
         Stretch(u, O[Len(ms)] + 1, Len(u))
  PROVE  LevelsFit(u, ms)
<1> DEFINE n == Len(ls)
           q == Len(ms)
           P == [m \in 0..q |-> O[m]]
<1>1. n \in Nat /\ q \in Nat /\ Len(s) \in Nat
  OBVIOUS
<1>2. Marks(u, q, P)
  <2> HIDE DEF n
  <2> QED
    BY <1>1, MarksLeft DEF n
<1>3. ASSUME NEW m \in 1..q
      PROVE  u[P[m]] = ms[m].by /\ (ms[m].typed <=> TypedAt(u, P[m]))
  <2>1. m \in 1..n /\ m \in 0..n /\ m - 1 \in 0..n /\ P[m] = O[m]
    BY <1>1
  <2>2. O[m - 1] < O[m] /\ O[m - 1] \in 0..Len(s) /\ O[m] \in 0..Len(s)
    BY <2>1 DEF Marks
  <2>3. O[m] \in 1..Len(s)
    BY <1>1, <2>2
  <2>4. u[O[m]] = s[O[m]] /\ (TypedAt(u, O[m]) <=> TypedAt(s, O[m]))
    BY <2>3, AppendKeeps
  <2> HIDE DEF P
  <2> QED
    BY <2>1, <2>4, Zenon
<1> HIDE DEF P
<1> QED
  BY <1>2, <1>3, Zenon DEF LevelsFit

ScanTyped ==
    /\ text \in Seq(Tokens) /\ levels \in Seq(LevelSet)
    /\ closedDepth \in Nat
    /\ verdict \in {"scanning", "too_complex", "unparseable"}

(* A chain of subscripts is as deep as it is long, so the level it opens    *)
(* lies below the one just closed; and each level lies below the last.      *)
Deep ==
    /\ \A i \in 1..Len(levels) : levels[i].depth >= i /\ levels[i].depth <= MaxDepth
    /\ Previous = "]" => closedDepth > Len(levels)

ScanInv ==
    /\ ScanTyped
    /\ verdict = "scanning" =>
         LevelsFit(text, levels) /\ Deep /\ reads = ReadsOf(text) /\ ~(reads > MaxTokens)

LEMMA ScanBegins == ScanInit => ScanInv
<1> SUFFICES ASSUME ScanInit PROVE ScanInv
  OBVIOUS
<1>1. /\ text = <<>> /\ levels = <<>> /\ closedDepth = 0 /\ reads = 0 /\ verdict = "scanning"
      /\ Len(text) = 0 /\ Len(levels) = 0
  BY DEF ScanInit
<1>2. ScanTyped
  BY <1>1 DEF ScanTyped
<1>3. LevelsFit(text, levels)
  <2> DEFINE O == [m \in 0..0 |-> 0]
  <2>1. Stretch(text, 1, 0)
    <3>1. Len(text) \in Nat /\ 1 \in 1..(Len(text) + 1) /\ 1 - 1 = 0
      BY <1>1
    <3> QED
      BY <3>1, EmptyStretch
  <2>2. O \in [0..0 -> 0..0] /\ O[0] = 0 /\ 0 + 1 = 1 /\ \A m \in 1..0 : FALSE
    OBVIOUS
  <2> HIDE DEF O
  <2>3. Marks(text, 0, O)
    BY <1>1, <2>1, <2>2, Zenon DEF Marks
  <2> QED
    BY <1>1, <2>2, <2>3, Zenon DEF LevelsFit
<1>4. ReadsOf(text) = 0
  <2>1. PICK R : R[0] = 0 /\ R[Len(text)] = ReadsOf(text)
    BY <1>1, ReadsAdd
  <2> QED
    BY <1>1, <2>1
<1>5. Deep
  BY <1>1 DEF Deep, Previous
<1>6. ~(reads > MaxTokens)
  BY <1>1, GuardAssumption
<1> QED
  BY <1>1, <1>2, <1>3, <1>4, <1>5, <1>6 DEF ScanInv

(* Counting the token that was read, on the levels it leaves.               *)
LEMMA CountIs ==
  ASSUME ScanInv, verdict = "scanning", NEW t \in Tokens, text' = Append(text, t),
         NEW ls \in Seq(LevelSet), LevelsFit(text', ls), Count(ls)
  PROVE  /\ verdict' \in {"scanning", "too_complex"}
         /\ verdict' = "scanning" => reads' = ReadsOf(text') /\ ~(reads' > MaxTokens)
<1>1. text \in Seq(Tokens) /\ reads = ReadsOf(text)
  BY DEF ScanInv, ScanTyped
<1> DEFINE u == text'
<1>2. Grown(text, t, u)
  BY DEF Grown
<1> HIDE DEF u
<1>3. u \in Seq(Tokens) /\ LevelsFit(u, ls)
  <2>1. u \in Seq(Tokens)
    BY <1>1, <1>2, AppendKeeps
  <2> QED
    BY <2>1 DEF u
<1>4. TypeNesting(ls) = Cardinality({i \in OpenAt(u, Len(u)) : TypedAt(u, i)})
  BY <1>3, FitCounts
<1>5. ReadsAt(u, Len(u)) = 2^TypeNesting(ls)
  BY <1>4 DEF ReadsAt
<1>6. ReadsOf(u) = ReadsOf(text) + ReadsAt(u, Len(u))
  BY <1>1, <1>2, ReadsGrow
<1>7. reads' = ReadsOf(u)
  BY <1>1, <1>5, <1>6, Zenon DEF Count
<1> QED
  BY <1>7 DEF Count, u

LEMMA ScanOpens ==
  ASSUME ScanInv, verdict = "scanning", NEW t \in Tokens, text' = Append(text, t), OpenLevel(t)
  PROVE  ScanInv'
<1> DEFINE new == [by |-> t, typed |-> t /= "case" /\ Previous = "type", depth |-> OpenedDepth(t)]
           ls == Append(levels, new)
<1>1. /\ text \in Seq(Tokens) /\ levels \in Seq(LevelSet) /\ closedDepth \in Nat
      /\ LevelsFit(text, levels) /\ Deep
  BY DEF ScanInv, ScanTyped
<1>2. t \in Openers /\ levels' = ls /\ closedDepth' = closedDepth
  BY Zenon DEF OpenLevel
<1>3. Len(levels) \in Nat /\ (levels = <<>> <=> Len(levels) = 0)
      /\ \A i \in 1..Len(levels) : levels[i] \in LevelSet
  BY <1>1
<1>4. OpenedDepth(t) \in Nat /\ OpenedDepth(t) > Len(levels)
  <2>1. CASE t = "[" /\ Previous = "]"
    BY <1>1, <1>3, <2>1 DEF OpenedDepth, Deep
  <2>2. CASE ~(t = "[" /\ Previous = "]")
    <3>1. CASE levels = <<>>
      BY <1>3, <2>2, <3>1 DEF OpenedDepth
    <3>2. CASE levels /= <<>>
      <4>1. Len(levels) \in 1..Len(levels)
        BY <1>3, <3>2
      <4>2. levels[Len(levels)].depth \in Nat /\ levels[Len(levels)].depth >= Len(levels)
        BY <1>1, <1>3, <4>1 DEF Deep, LevelSet
      <4>3. OpenedDepth(t) = levels[Len(levels)].depth + 1
        BY <2>2, <3>2 DEF OpenedDepth
      <4> QED
        BY <1>3, <4>2, <4>3
    <3> QED
      BY <3>1, <3>2
  <2> QED
    BY <2>1, <2>2
<1>5. new \in LevelSet
  BY <1>2, <1>4 DEF LevelSet
<1>6. ls \in Seq(LevelSet) /\ Len(ls) = Len(levels) + 1 /\ ls[Len(levels) + 1] = new
      /\ \A i \in 1..Len(levels) : ls[i] = levels[i]
  <2> HIDE DEF new
  <2> QED
    BY <1>1, <1>5
<1>7. text' \in Seq(Tokens)
  BY <1>1
<1>8. new.by = t /\ (new.typed <=> TypedAt(text', Len(text')))
  <2>1. Len(text') = Len(text) + 1 /\ text'[Len(text')] = t /\ Len(text) \in Nat
        /\ (text = <<>> <=> Len(text) = 0) /\ \A i \in 1..Len(text) : text'[i] = text[i]
    BY <1>1
  <2>2. t /= "case" <=> t \in {"(", "["}
    BY <1>2 DEF Openers
  <2>3. Previous = "type" <=> Len(text) > 0 /\ text[Len(text)] = "type"
    BY <2>1 DEF Previous
  <2>4. TypedAt(text', Len(text')) <=> t \in {"(", "["} /\ Len(text) > 0 /\ text[Len(text)] = "type"
    <3>1. Len(text') > 1 <=> Len(text) > 0
      BY <2>1
    <3>2. Len(text) > 0 => text'[Len(text') - 1] = text[Len(text)]
      BY <2>1
    <3> QED
      BY <2>1, <3>1, <3>2, Zenon DEF TypedAt
  <2> QED
    BY <2>2, <2>3, <2>4, Zenon
<1>9. LevelsFit(text', ls)
  <2> DEFINE u == text'
  <2>1. Grown(text, t, u)
    BY DEF Grown
  <2> HIDE DEF u, new, ls
  <2>2. new.typed <=> TypedAt(u, Len(u))
    BY <1>8 DEF u
  <2>3. LevelsFit(u, Append(levels, new))
    BY <1>1, <1>2, <1>5, <1>8, <2>1, <2>2, FitOpens
  <2> QED
    BY <2>3 DEF u, ls
<1>10. Previous' = t
  BY <1>1 DEF Previous
<1>11. verdict' = "scanning" => OpenedDepth(t) <= MaxDepth
  BY <1>4, GuardAssumption DEF OpenLevel
<1>12. verdict' = "scanning" => Deep'
  <2> SUFFICES ASSUME verdict' = "scanning" PROVE Deep'
    OBVIOUS
  <2>1. t /= "]"
    BY <1>2 DEF Openers
  <2>2. new.depth = OpenedDepth(t)
    OBVIOUS
  <2> HIDE DEF new, ls
  <2>3. ASSUME NEW i \in 1..Len(levels')
        PROVE  levels'[i].depth >= i /\ levels'[i].depth <= MaxDepth
    <3>1. CASE i = Len(levels) + 1
      <4>1. levels'[i].depth = OpenedDepth(t)
        BY <1>2, <1>6, <2>2, <3>1
      <4>2. OpenedDepth(t) >= Len(levels) + 1
        BY <1>3, <1>4
      <4> QED
        BY <1>11, <3>1, <4>1, <4>2
    <3>2. CASE i /= Len(levels) + 1
      <4>1. i \in 1..Len(levels) /\ levels'[i] = levels[i]
        BY <1>2, <1>3, <1>6, <3>2
      <4> QED
        BY <1>1, <4>1 DEF Deep
    <3> QED
      BY <3>1, <3>2
  <2> QED
    BY <1>10, <2>1, <2>3 DEF Deep
<1>13. /\ verdict' \in {"scanning", "too_complex"}
       /\ verdict' = "scanning" => reads' = ReadsOf(text') /\ ~(reads' > MaxTokens)
  <2>1. verdict' = "too_complex" \/ Count(ls)
    BY DEF OpenLevel
  <2>2. CASE verdict' = "too_complex"
    BY <2>2
  <2>3. CASE Count(ls)
    <3> HIDE DEF ls
    <3> QED
      BY <1>6, <1>9, <2>3, CountIs
  <2> QED
    BY <2>1, <2>2, <2>3
<1> HIDE DEF new, ls
<1>14. ScanTyped'
  BY <1>1, <1>2, <1>6, <1>7, <1>13 DEF ScanTyped
<1>15. LevelsFit(text', levels')
  BY <1>2, <1>9, Zenon
<1> QED
  BY <1>12, <1>13, <1>14, <1>15 DEF ScanInv

LEMMA ScanPlain ==
  ASSUME ScanInv, verdict = "scanning", NEW t \in Tokens, text' = Append(text, t), Plain(t)
  PROVE  ScanInv'
<1>1. /\ text \in Seq(Tokens) /\ levels \in Seq(LevelSet) /\ closedDepth \in Nat
      /\ LevelsFit(text, levels) /\ Deep
  BY DEF ScanInv, ScanTyped
<1>2. levels' = levels /\ closedDepth' = closedDepth /\ Count(levels) /\ t \notin Openers
      /\ (t \in Closers => IsLabel(t))
  BY DEF Plain
<1>3. text' \in Seq(Tokens) /\ Previous' = t /\ t /= "]"
  BY <1>1, <1>2 DEF Previous, IsLabel, Closers
<1>4. PlainAt(text', Len(text'))
  <2>1. Len(text') = Len(text) + 1 /\ text'[Len(text')] = t /\ Len(text) \in Nat
        /\ (text = <<>> <=> Len(text) = 0) /\ \A i \in 1..Len(text) : text'[i] = text[i]
    BY <1>1
  <2>2. t \in Closers => t = "end" /\ Len(text) > 0 /\ text[Len(text)] = "as"
    BY <1>2, <2>1 DEF IsLabel, Previous
  <2>3. Len(text) > 0 => Len(text') > 1 /\ text'[Len(text') - 1] = text[Len(text)]
    BY <2>1
  <2> QED
    BY <1>2, <2>1, <2>2, <2>3, Zenon DEF PlainAt
<1>5. LevelsFit(text', levels)
  <2> DEFINE u == text'
             n == Len(levels)
  <2>1. Grown(text, t, u) /\ PlainAt(u, Len(u))
    BY <1>4 DEF Grown
  <2>2. n \in Nat /\ n \in 0..n
    BY <1>1
  <2>3. PICK O : /\ Marks(text, n, O)
                 /\ \A m \in 1..n : text[O[m]] = levels[m].by /\ (levels[m].typed <=> TypedAt(text, O[m]))
    BY <1>1 DEF LevelsFit
  <2> HIDE DEF u
  <2>4. Stretch(u, O[n] + 1, Len(u))
    BY <1>1, <2>1, <2>2, <2>3, MarksPlain
  <2>5. LevelsFit(u, levels)
    BY <1>1, <2>1, <2>2, <2>3, <2>4, FitLeaves
  <2> QED
    BY <2>5 DEF u
<1>6. /\ verdict' \in {"scanning", "too_complex"}
      /\ verdict' = "scanning" => reads' = ReadsOf(text') /\ ~(reads' > MaxTokens)
  BY <1>1, <1>2, <1>5, CountIs
<1>7. Deep'
  BY <1>1, <1>2, <1>3 DEF Deep
<1>8. ScanTyped'
  BY <1>1, <1>2, <1>3, <1>6 DEF ScanTyped
<1>9. LevelsFit(text', levels')
  BY <1>2, <1>5, Zenon
<1> QED
  BY <1>6, <1>7, <1>8, <1>9 DEF ScanInv

LEMMA StartOfSeq ==
  ASSUME NEW S, NEW seq \in Seq(S), NEW m \in 0..Len(seq)
  PROVE  /\ SubSeq(seq, 1, m) \in Seq(S) /\ Len(SubSeq(seq, 1, m)) = m
         /\ \A i \in 1..m : SubSeq(seq, 1, m)[i] = seq[i]
<1>1. \A i \in 1..m : i \in 1..Len(seq) /\ seq[i] \in S
  OBVIOUS
<1>2. Len(SubSeq(seq, 1, m)) = m
  OBVIOUS
<1>3. \A i \in 1..m : SubSeq(seq, 1, m)[i] = seq[i]
  OBVIOUS
<1>4. SubSeq(seq, 1, m) \in Seq(S)
  OBVIOUS
<1> QED
  BY <1>2, <1>3, <1>4

LEMMA ScanCloses ==
  ASSUME ScanInv, verdict = "scanning", NEW t \in Tokens, text' = Append(text, t), CloseLevel(t)
  PROVE  ScanInv'
<1> DEFINE n == Len(levels)
           ms == SubSeq(levels, 1, n - 1)
<1>1. /\ text \in Seq(Tokens) /\ levels \in Seq(LevelSet) /\ closedDepth \in Nat
      /\ LevelsFit(text, levels) /\ Deep
  BY DEF ScanInv, ScanTyped
<1>2. text' \in Seq(Tokens) /\ Previous' = t
  BY <1>1 DEF Previous
<1>3. CASE ~ClosesIt(t)
  <2>1. levels' = levels /\ closedDepth' = closedDepth /\ verdict' = "unparseable"
    BY <1>3 DEF CloseLevel
  <2>2. ScanTyped'
    BY <1>1, <1>2, <2>1 DEF ScanTyped
  <2> QED
    BY <2>1, <2>2 DEF ScanInv
<1>4. CASE ClosesIt(t)
  <2>1. /\ levels' = ms /\ closedDepth' = levels[n].depth /\ Count(levels')
        /\ t \in Closers /\ ~IsLabel(t) /\ levels /= <<>> /\ ClosedBy[levels[n].by] = t
    BY <1>4, Zenon DEF CloseLevel, ClosesIt
  <2>2. n \in Nat /\ n > 0 /\ n \in 1..n /\ levels[n] \in LevelSet
    BY <1>1, <2>1
  <2>3. ms \in Seq(LevelSet) /\ Len(ms) = n - 1 /\ \A i \in 1..(n - 1) : ms[i] = levels[i]
    <3> HIDE DEF n
    <3>1. n = Len(levels)
      BY DEF n
    <3> QED
      BY <1>1, <2>2, <3>1, StartOfSeq
  <2>4. text'[Len(text')] = t /\ ~PlainAt(text', Len(text'))
    <3>1. Len(text') = Len(text) + 1 /\ text'[Len(text')] = t /\ Len(text) \in Nat
          /\ (text = <<>> <=> Len(text) = 0) /\ \A i \in 1..Len(text) : text'[i] = text[i]
      BY <1>1
    <3>2. ASSUME PlainAt(text', Len(text')) PROVE FALSE
      <4>1. t = "end" /\ Len(text') > 1 /\ text'[Len(text') - 1] = "as"
        BY <2>1, <3>1, <3>2, Zenon DEF PlainAt
      <4>2. Len(text) > 0 /\ text[Len(text)] = "as" /\ text /= <<>>
        BY <3>1, <4>1
      <4> QED
        BY <2>1, <4>1, <4>2 DEF IsLabel, Previous
    <3> QED
      BY <3>1, <3>2
  <2>5. LevelsFit(text', ms)
    <3> DEFINE u == text'
    <3>1. Grown(text, t, u) /\ u[Len(u)] = t /\ ~PlainAt(u, Len(u))
      BY <2>4 DEF Grown
    <3>2. PICK O : /\ Marks(text, n, O)
                   /\ \A m \in 1..n : text[O[m]] = levels[m].by /\ (levels[m].typed <=> TypedAt(text, O[m]))
      BY <1>1 DEF LevelsFit
    <3> HIDE DEF u
    <3>3. O[n] \in 1..Len(text) /\ text[O[n]] = levels[n].by /\ text[O[n]] \in Openers
      <4>1. n - 1 \in 0..n /\ n \in 0..n
        BY <2>2
      <4>2. O[n - 1] < O[n] /\ text[O[n]] \in Openers /\ O[n - 1] \in 0..Len(text) /\ O[n] \in 0..Len(text)
        BY <2>2, <3>2, <4>1, Zenon DEF Marks
      <4>3. Len(text) \in Nat
        BY <1>1
      <4>4. O[n] \in 1..Len(text)
        BY <4>2, <4>3
      <4> QED
        BY <2>2, <3>2, <4>2, <4>4, Zenon
    <3>4. u[O[n]] = text[O[n]]
      BY <1>1, <3>1, <3>3, AppendKeeps
    <3>5. Matches(u, O[n], Len(u))
      BY <2>1, <3>1, <3>3, <3>4, Zenon DEF Matches
    <3>6. n \in Nat \ {0} /\ n - 1 \in 0..n
      BY <2>2
    <3>7. Stretch(u, O[n - 1] + 1, Len(u))
      <4> HIDE DEF n
      <4> QED
        BY <1>1, <3>1, <3>2, <3>5, <3>6, MarksClosed
    <3>8. LevelsFit(u, ms)
      <4> HIDE DEF ms
      <4>1. Len(ms) \in 0..n /\ (\A m \in 1..Len(ms) : ms[m] = levels[m]) /\ Stretch(u, O[Len(ms)] + 1, Len(u))
        BY <2>2, <2>3, <3>7
      <4> QED
        BY <1>1, <3>1, <3>2, <4>1, FitLeaves
    <3> QED
      BY <3>8 DEF u
  <2>6. /\ verdict' \in {"scanning", "too_complex"}
        /\ verdict' = "scanning" => reads' = ReadsOf(text') /\ ~(reads' > MaxTokens)
    <3> HIDE DEF ms, n
    <3>1. Count(ms)
      BY <2>1, Zenon
    <3> QED
      BY <2>3, <2>5, <3>1, CountIs
  <2> HIDE DEF ms, n
  <2>7. closedDepth' \in Nat /\ closedDepth' > n - 1
    <3>1. levels[n].depth \in Nat /\ levels[n].depth >= n
      BY <1>1, <2>2 DEF Deep, LevelSet, n
    <3> QED
      BY <2>1, <2>2, <3>1
  <2>8. Deep'
    <3>1. \A i \in 1..(n - 1) : i \in 1..n
      BY <2>2
    <3>2. \A i \in 1..(n - 1) : ms[i].depth >= i /\ ms[i].depth <= MaxDepth
      BY <1>1, <2>3, <3>1, Zenon DEF Deep, n
    <3> QED
      BY <2>1, <2>3, <2>7, <3>2, Zenon DEF Deep
  <2>9. ScanTyped'
    BY <1>2, <2>1, <2>3, <2>6, <2>7 DEF ScanTyped
  <2>10. LevelsFit(text', levels')
    BY <2>1, <2>5, Zenon
  <2> QED
    BY <2>6, <2>8, <2>9, <2>10 DEF ScanInv
<1> QED
  BY <1>3, <1>4

LEMMA ScanKept == ScanInv /\ [ScanStep]_scanVars => ScanInv'
<1> SUFFICES ASSUME ScanInv, [ScanStep]_scanVars PROVE ScanInv'
  OBVIOUS
<1>1. CASE UNCHANGED scanVars
  BY <1>1 DEF scanVars, ScanInv, ScanTyped, Deep, Previous
<1>2. CASE ScanStep
  <2>1. PICK t \in Tokens : (OpenLevel(t) \/ CloseLevel(t) \/ Plain(t)) /\ text' = Append(text, t)
    BY <1>2 DEF ScanStep
  <2>2. verdict = "scanning"
    BY <1>2 DEF ScanStep
  <2> QED
    BY <2>1, <2>2, ScanOpens, ScanCloses, ScanPlain
<1> QED
  BY <1>1, <1>2

LEMMA ScanTells == ScanInv => ScanCountsAll
<1> SUFFICES ASSUME ScanInv, verdict = "scanning"
             PROVE  LET open == OpenAt(text, Len(text))
                    IN /\ Len(levels) = Cardinality(open)
                       /\ TypeNesting(levels) = Cardinality({i \in open : TypedAt(text, i)})
                       /\ \A i \in DOMAIN levels : levels[i].depth >= i /\ levels[i].depth <= MaxDepth
                       /\ reads = ReadsOf(text) /\ ~(reads > MaxTokens)
  BY DEF ScanCountsAll
<1>1. text \in Seq(Tokens) /\ levels \in Seq(LevelSet) /\ LevelsFit(text, levels) /\ Deep
      /\ reads = ReadsOf(text) /\ ~(reads > MaxTokens)
  BY DEF ScanInv, ScanTyped
<1>2. DOMAIN levels = 1..Len(levels)
  BY <1>1
<1>3. /\ Len(levels) = Cardinality(OpenAt(text, Len(text)))
      /\ TypeNesting(levels) = Cardinality({i \in OpenAt(text, Len(text)) : TypedAt(text, i)})
  BY <1>1, FitCounts
<1> QED
  BY <1>1, <1>2, <1>3, Zenon DEF Deep

(* However deep and mixed the brackets of a text, the scan that goes on     *)
(* holds the levels that are open in it, no level is forgotten, and its     *)
(* count is what the parser will read (bounded_token_scan).                 *)
THEOREM ScansCountAll == ScanSpec => []ScanCountsAll
<1>1. ScanInit => ScanInv
  BY ScanBegins
<1>2. ScanInv /\ [ScanStep]_scanVars => ScanInv'
  BY ScanKept
<1> QED
  BY <1>1, <1>2, ScanTells, PTL DEF ScanSpec

(* One guarded query as a whole: what the parser is spared, what the        *)
(* statement may reach and what its answer tells (scan and call share no    *)
(* state: the scan runs before the statement it passes is parsed).          *)
THEOREM QueriesAreSafe == ScanSpec /\ QuerySpec => []QuerySafe
<1>1. ScanCountsAll /\ QueryContained /\ AnswerHonest => QuerySafe
  BY DEF QuerySafe
<1> QED
  BY <1>1, ScansCountAll, QueriesAreContained, AnswersAreHonest, PTL

-----------------------------------------------------------------------------
(* The shape of the state: what an update of a field can rely on.           *)

AskFields == {"at", "asked", "input", "status", "said"}
PostFields == {"at", "got", "next", "tries", "status"}
RowFields == {"channel", "key", "conv", "env", "at"}

ChatShape == DOMAIN chat = Chats /\ \A c \in Chats : DOMAIN chat[c] = AskFields
PostShape == DOMAIN post = Posts /\ \A p \in Posts : DOMAIN post[p] = PostFields
InboxShape ==
  /\ \E S : inbox \in Seq(S)
  /\ \A i \in DOMAIN inbox : DOMAIN inbox[i] = RowFields
PollShape ==
  /\ poll \in [at : {"idle", "claiming", "running"}, reserved : Nat, rows : SUBSET Nat]
  /\ poll.at = "idle" => poll.reserved = 0 /\ poll.rows = {}
  /\ poll.at = "claiming" => poll.rows = {}
  /\ poll.at = "running" => poll.reserved = 0
  /\ poll.rows \subseteq DOMAIN inbox /\ IsFiniteSet(poll.rows)

Shape == ChatShape /\ PostShape /\ InboxShape /\ PollShape

(* Sequences whose elements nothing is known of.                            *)
LEMMA SomeSeq ==
  ASSUME NEW s, NEW S, s \in Seq(S)
  PROVE  Len(s) \in Nat /\ DOMAIN s = 1..Len(s)
  OBVIOUS

LEMMA AppendSome ==
  ASSUME NEW s, NEW S, s \in Seq(S), NEW e
  PROVE  /\ Append(s, e) \in Seq(S \cup {e}) /\ DOMAIN Append(s, e) = 1..(Len(s) + 1)
         /\ Append(s, e)[Len(s) + 1] = e
         /\ \A i \in DOMAIN s : Append(s, e)[i] = s[i]
<1>1. s \in Seq(S \cup {e}) /\ e \in S \cup {e}
  OBVIOUS
<1> QED
  BY <1>1

LEMMA MapSome ==
  ASSUME NEW s, NEW S, s \in Seq(S), NEW t, DOMAIN t = DOMAIN s,
         t = [i \in DOMAIN s |-> t[i]]
  PROVE  \E T : t \in Seq(T)
<1> DEFINE T == {t[i] : i \in DOMAIN s}
<1>1. t \in [1..Len(s) -> T] /\ Len(s) \in Nat
  BY SomeSeq
<1>2. t \in Seq(T)
  BY <1>1
<1> QED
  BY <1>2

-----------------------------------------------------------------------------
(* Chats.  The slots in use for them are those of the running ones.         *)

Running == {c \in Chats : chat[c].at = "running"}

LEMMA RunningCounted == IsFiniteSet(Running) /\ Cardinality(Running) \in Nat
<1>1. IsFiniteSet(Running)
  BY EntryAssumption, FS_Subset DEF Running
<1> QED
  BY <1>1, FS_CardinalityType

LEMMA AskShaped == DOMAIN NoAsk = AskFields
  BY DEF NoAsk, AskFields

LEMMA SetsChat ==
  ASSUME ChatShape, NEW c \in Chats, NEW r, DOMAIN r = AskFields, Set(c, r)
  PROVE  /\ ChatShape' /\ chat'[c] = r
         /\ \A b \in Chats \ {c} : chat'[b] = chat[b]
  BY DEF ChatShape, Set

LEMMA EndsChat ==
  ASSUME ChatShape, NEW c \in Chats, NEW status, EndChat(c, status)
  PROVE  /\ ChatShape' /\ chat'[c].at = "ended"
         /\ \A b \in Chats \ {c} : chat'[b] = chat[b]
<1> DEFINE r == [NoAsk EXCEPT !.at = "ended", !.status = status]
<1>1. DOMAIN r = AskFields /\ r.at = "ended"
  BY DEF NoAsk, AskFields
<1> QED
  BY <1>1, SetsChat DEF EndChat

LEMMA MovesChat ==
  ASSUME ChatShape, NEW c \in Chats, NEW at, Set(c, [chat[c] EXCEPT !.at = at])
  PROVE  /\ ChatShape' /\ chat'[c].at = at
         /\ chat'[c].asked = chat[c].asked /\ chat'[c].input = chat[c].input
         /\ \A b \in Chats \ {c} : chat'[b] = chat[b]
<1> DEFINE r == [chat[c] EXCEPT !.at = at]
<1>1. /\ DOMAIN r = AskFields /\ r.at = at
      /\ r.asked = chat[c].asked /\ r.input = chat[c].input
  BY DEF ChatShape, AskFields
<1> HIDE DEF r
<1>2. Set(c, r)
  BY DEF r
<1> QED
  BY <1>1, <1>2, SetsChat

LEMMA RunningStays ==
  ASSUME NEW c \in Chats, \A b \in Chats \ {c} : chat'[b] = chat[b],
         chat'[c].at = "running" <=> chat[c].at = "running"
  PROVE  Running' = Running
  BY DEF Running

LEMMA RunningGrows ==
  ASSUME NEW c \in Chats, \A b \in Chats \ {c} : chat'[b] = chat[b],
         chat[c].at # "running", chat'[c].at = "running"
  PROVE  Cardinality(Running') = Cardinality(Running) + 1
<1>1. Running' = Running \cup {c} /\ c \notin Running
  BY DEF Running
<1> QED
  BY <1>1, RunningCounted, FS_AddElement

LEMMA RunningShrinks ==
  ASSUME NEW c \in Chats, \A b \in Chats \ {c} : chat'[b] = chat[b],
         chat[c].at = "running", chat'[c].at # "running"
  PROVE  Cardinality(Running') = Cardinality(Running) - 1
<1>1. Running' = Running \ {c} /\ c \in Running
  BY DEF Running
<1> QED
  BY <1>1, RunningCounted, FS_RemoveElement

-----------------------------------------------------------------------------
(* What the worker holds it has under lease; not all that is leased.        *)
RowsLeased == \A i \in poll.rows : inbox[i].at = "leased"
SlotInv == Shape /\ SlotsAreTrue /\ RowsLeased

LEMMA SlotsCounted ==
  ASSUME SlotInv
  PROVE  /\ slots \in Nat /\ MaxTurns \in Nat /\ slots <= MaxTurns
         /\ slots = Cardinality(Running) + poll.reserved + Cardinality(poll.rows)
         /\ poll.reserved \in Nat /\ Cardinality(poll.rows) \in Nat
         /\ Cardinality(Running) \in Nat
<1>1. poll.reserved \in Nat /\ Cardinality(poll.rows) \in Nat
  BY FS_CardinalityType DEF SlotInv, Shape, PollShape
<1> QED
  BY <1>1, RunningCounted, EntryAssumption DEF SlotInv, SlotsAreTrue, Running

(* A chat's step leaves the deliveries, the inbox and the worker alone, and *)
(* takes or gives the slot its chat takes or gives.                         *)
LEMMA ChatKeeps ==
  ASSUME SlotInv, ChatShape', UNCHANGED <<post, inbox, poll>>, slots' <= MaxTurns,
         slots' - slots = Cardinality(Running') - Cardinality(Running),
         slots' \in Int, Cardinality(Running') \in Nat
  PROVE  SlotInv'
<1>1. Shape'
  BY DEF SlotInv, Shape, PostShape, InboxShape, PollShape
<1>2. slots' = Cardinality(Running') + poll.reserved + Cardinality(poll.rows)
  BY SlotsCounted
<1> QED
  BY <1>1, <1>2 DEF SlotInv, SlotsAreTrue, RowsLeased, Running

LEMMA ChatRests ==
  ASSUME SlotInv, ChatShape', UNCHANGED <<slots, post, inbox, poll>>, Running' = Running
  PROVE  SlotInv'
<1>1. slots' \in Int /\ slots' <= MaxTurns /\ Cardinality(Running') \in Nat
      /\ slots' - slots = Cardinality(Running') - Cardinality(Running)
  BY SlotsCounted
<1> QED
  BY <1>1, ChatKeeps

LEMMA RequestKeeps ==
  ASSUME SlotInv, NEW c \in Chats, Request(c)
  PROVE  SlotInv'
<1> USE DEF SlotInv, Shape
<1>1. PICK q \in Asked[c] :
         \/ Refusal(q) # 0 /\ EndChat(c, Refusal(q))
         \/ Refusal(q) = 0 /\ Set(c, [NoAsk EXCEPT !.at = "resolving", !.asked = {q},
                                                  !.input = Mapped(q.msgs)])
  BY DEF Request
<1> DEFINE r == [NoAsk EXCEPT !.at = "resolving", !.asked = {q}, !.input = Mapped(q.msgs)]
<1>2. DOMAIN r = AskFields /\ r.at = "resolving"
  BY DEF NoAsk, AskFields
<1>3. ChatShape' /\ chat'[c].at \in {"ended", "resolving"}
      /\ \A b \in Chats \ {c} : chat'[b] = chat[b]
  <2> HIDE DEF r
  <2>1. CASE Set(c, r)
    BY <1>2, <2>1, SetsChat
  <2>2. CASE EndChat(c, Refusal(q))
    BY <2>2, EndsChat
  <2> QED
    BY <1>1, <2>1, <2>2 DEF r
<1>4. Running' = Running
  BY <1>3, RunningStays DEF Request
<1> QED
  BY <1>3, <1>4, ChatRests DEF Request

-----------------------------------------------------------------------------
(* What a request has passed on its way: the checks of the surface before   *)
(* it is resolved, and its user's standing before it waits.                 *)
Passed(k) ==
  k.at \in {"resolving", "waiting", "running"} =>
    /\ \E q : /\ k.asked = {q} /\ Refusal(q) = 0
              /\ k.at # "resolving" => Entitled(q)
    /\ \A m \in k.input : Keeps(m)
GateInv == \A c \in Chats : Passed(chat[c])

LEMMA ResolveKeeps ==
  ASSUME SlotInv, GateInv, NEW c \in Chats, Resolve(c)
  PROVE  SlotInv' /\ GateInv'
<1> USE DEF SlotInv, Shape
<1>1. chat[c].at = "resolving"
  BY DEF Resolve
<1>2. PICK q : /\ chat[c].asked = {q} /\ Refusal(q) = 0
               /\ \A m \in chat[c].input : Keeps(m)
  BY <1>1 DEF GateInv, Passed
<1>3. /\ ChatShape' /\ chat'[c].at \in {"waiting", "ended"}
      /\ \A b \in Chats \ {c} : chat'[b] = chat[b]
      /\ chat'[c].at = "waiting" => chat'[c].asked = {q} /\ Entitled(q)
                                   /\ chat'[c].input = chat[c].input
  <2>1. CASE Entitled(q)
    <3>1. Set(c, [chat[c] EXCEPT !.at = "waiting"])
      BY <1>2, <2>1 DEF Resolve
    <3> QED
      BY <1>2, <2>1, <3>1, MovesChat
  <2>2. CASE ~Entitled(q)
    <3>1. EndChat(c, IF q.user = "fails" THEN 500 ELSE 403)
      BY <1>2, <2>2 DEF Resolve
    <3> QED
      BY <3>1, EndsChat
  <2> QED
    BY <2>1, <2>2
<1>4. SlotInv'
  <2>1. Running' = Running
    BY <1>1, <1>3, RunningStays
  <2> QED
    BY <1>3, <2>1, ChatRests DEF Resolve
<1>5. GateInv'
  BY <1>2, <1>3 DEF GateInv, Passed
<1> QED
  BY <1>4, <1>5

LEMMA RequestGates ==
  ASSUME ChatShape, GateInv, NEW c \in Chats, Request(c)
  PROVE  GateInv'
<1>1. PICK q \in Asked[c] :
         \/ Refusal(q) # 0 /\ EndChat(c, Refusal(q))
         \/ Refusal(q) = 0 /\ Set(c, [NoAsk EXCEPT !.at = "resolving", !.asked = {q},
                                                  !.input = Mapped(q.msgs)])
  BY DEF Request
<1>2. CASE EndChat(c, Refusal(q))
  BY <1>2, EndsChat DEF GateInv, Passed
<1>3. CASE Refusal(q) = 0 /\ Set(c, [NoAsk EXCEPT !.at = "resolving", !.asked = {q},
                                                 !.input = Mapped(q.msgs)])
  <2> DEFINE r == [NoAsk EXCEPT !.at = "resolving", !.asked = {q}, !.input = Mapped(q.msgs)]
  <2>1. DOMAIN r = AskFields /\ r.at = "resolving" /\ r.asked = {q} /\ r.input = Mapped(q.msgs)
    BY DEF NoAsk, AskFields
  <2>2. Set(c, r)
    BY <1>3
  <2> HIDE DEF r
  <2>3. chat'[c] = r /\ \A b \in Chats \ {c} : chat'[b] = chat[b]
    BY <2>1, <2>2, SetsChat
  <2> QED
    BY <1>3, <2>1, <2>3 DEF GateInv, Passed, Mapped
<1> QED
  BY <1>1, <1>2, <1>3

LEMMA AdmitKeeps ==
  ASSUME SlotInv, GateInv, NEW c \in Chats, Admit(c)
  PROVE  SlotInv' /\ GateInv'
<1> USE DEF SlotInv, Shape
<1>1. /\ chat[c].at = "waiting" /\ Set(c, [chat[c] EXCEPT !.at = "running"])
      /\ 1 <= Available /\ slots' = slots + 1
      /\ UNCHANGED <<post, inbox, poll>>
  BY DEF Admit, Acquire
<1>2. /\ ChatShape' /\ chat'[c].at = "running"
      /\ chat'[c].asked = chat[c].asked /\ chat'[c].input = chat[c].input
      /\ \A b \in Chats \ {c} : chat'[b] = chat[b]
  BY <1>1, MovesChat
<1>3. Cardinality(Running') = Cardinality(Running) + 1
  BY <1>1, <1>2, RunningGrows
<1>4. slots' <= MaxTurns /\ slots' \in Int
  BY <1>1, SlotsCounted DEF Available
<1>5. SlotInv'
  BY <1>1, <1>2, <1>3, <1>4, SlotsCounted, ChatKeeps
<1>6. GateInv'
  BY <1>1, <1>2 DEF GateInv, Passed
<1> QED
  BY <1>5, <1>6

LEMMA WaitedTooLongKeeps ==
  ASSUME SlotInv, GateInv, NEW c \in Chats, WaitedTooLong(c)
  PROVE  SlotInv' /\ GateInv'
<1> USE DEF SlotInv, Shape
<1>1. /\ ChatShape' /\ chat'[c].at = "ended" /\ chat[c].at = "waiting"
      /\ \A b \in Chats \ {c} : chat'[b] = chat[b]
  BY EndsChat DEF WaitedTooLong
<1>2. Running' = Running
  BY <1>1, RunningStays
<1>3. SlotInv'
  BY <1>1, <1>2, ChatRests DEF WaitedTooLong
<1>4. GateInv'
  BY <1>1 DEF GateInv, Passed
<1> QED
  BY <1>3, <1>4

(* A chat that ends gives back the slot it held.                            *)
LEMMA EndKeeps ==
  ASSUME SlotInv, GateInv, NEW c \in Chats, ChatShape', chat'[c].at = "ended",
         \A b \in Chats \ {c} : chat'[b] = chat[b], UNCHANGED <<post, inbox, poll>>,
         Release(IF chat[c].at = "running" THEN 1 ELSE 0)
  PROVE  SlotInv' /\ GateInv'
<1>1. CASE chat[c].at = "running"
  <2>1. Cardinality(Running') = Cardinality(Running) - 1
    BY <1>1, RunningShrinks
  <2>2. c \in Running
    BY <1>1 DEF Running
  <2>3. Cardinality(Running) # 0
    BY <2>2, RunningCounted, FS_EmptySet
  <2>4. slots' = slots - 1
    BY <1>1 DEF Release
  <2> QED
    BY <2>1, <2>3, <2>4, SlotsCounted, ChatKeeps DEF GateInv, Passed
<1>2. CASE chat[c].at # "running"
  <2>1. Running' = Running
    BY <1>2, RunningStays
  <2>2. slots' = slots
    BY <1>2, SlotsCounted DEF Release
  <2> QED
    BY <2>1, <2>2, ChatRests DEF GateInv, Passed
<1> QED
  BY <1>1, <1>2

LEMMA ReplyKeeps ==
  ASSUME SlotInv, GateInv, NEW c \in Chats, Reply(c)
  PROVE  SlotInv' /\ GateInv'
<1> USE DEF SlotInv, Shape
<1>1. chat[c].at = "running" /\ Release(1) /\ UNCHANGED <<post, inbox, poll>>
  BY DEF Reply
<1>2. ChatShape' /\ chat'[c].at = "ended" /\ \A b \in Chats \ {c} : chat'[b] = chat[b]
  <2>1. CASE EndChat(c, 500)
    BY <2>1, EndsChat
  <2>2. ASSUME NEW own,
               Set(c, [NoAsk EXCEPT !.at = "ended", !.status = 200,
                                    !.said = LastText(Brought(chat[c].input), own)])
        PROVE  ChatShape' /\ chat'[c].at = "ended" /\ \A b \in Chats \ {c} : chat'[b] = chat[b]
    <3> DEFINE r == [NoAsk EXCEPT !.at = "ended", !.status = 200,
                                  !.said = LastText(Brought(chat[c].input), own)]
    <3>1. DOMAIN r = AskFields /\ r.at = "ended"
      BY DEF NoAsk, AskFields
    <3>2. Set(c, r)
      BY <2>2
    <3> HIDE DEF r
    <3> QED
      BY <3>1, <3>2, SetsChat
  <2> QED
    BY <2>1, <2>2 DEF Reply
<1> QED
  BY <1>1, <1>2, EndKeeps

LEMMA DropKeeps ==
  ASSUME SlotInv, GateInv, NEW c \in Chats, Drop(c)
  PROVE  SlotInv' /\ GateInv'
<1> USE DEF SlotInv, Shape
<1>1. ChatShape' /\ chat'[c].at = "ended" /\ \A b \in Chats \ {c} : chat'[b] = chat[b]
  BY EndsChat DEF Drop
<1> QED
  BY <1>1, EndKeeps DEF Drop

-----------------------------------------------------------------------------
(* Deliveries.  Every attempt delivers the same thing; only one that passed *)
(* the checks is stored from, in order; one that is acknowledged is kept    *)
(* whole; and a row is the first message of its id in such a delivery.      *)
KeyOf(d, k) == Scoped(ChannelOf(d), d.msgs[k].id)
InInbox(d, k) == \E i \in DOMAIN inbox : inbox[i].key = KeyOf(d, k)
KeptBefore(d, n) == \A k \in FoundIn(d) : k < n => InInbox(d, k)
KeptWhole(d) == \A k \in FoundIn(d) : InInbox(d, k)

Given(x, p) ==
  /\ x.got = {} \/ \E d \in Deliveries[p] : x.got = {d}
  /\ x.at = "ended" => x.got # {}
  /\ x.at = "storing" => \E d \in Deliveries[p] :
       x.got = {d} /\ DeliveryRefusal(d) = 0 /\ x.next \in FoundIn(d) /\ KeptBefore(d, x.next)
  /\ x.at = "ended" /\ x.status = 200 => \A d \in x.got : KeptWhole(d)
PostInv == \A p \in Posts : Given(post[p], p)

Written(row, d, k) ==
  /\ row.channel = ChannelOf(d) /\ row.env = d.msgs /\ row.key = KeyOf(d, k)
  /\ row.conv = Scoped(ChannelOf(d), Conversation(d.msgs[k]))
  /\ \A j \in DOMAIN d.msgs : d.msgs[j].id = d.msgs[k].id => k <= j
CameIn(row) ==
  \E p \in Posts : \E d \in Deliveries[p] :
    /\ post[p].got = {d} /\ DeliveryRefusal(d) = 0
    /\ \E k \in FoundIn(d) : Written(row, d, k)
KeptInv == KeptOnce /\ \A i \in DOMAIN inbox : CameIn(inbox[i])

(* The messages of a delivery, by their places.                             *)
LEMMA Places ==
  ASSUME NEW p \in Posts, NEW d \in Deliveries[p]
  PROVE  /\ DOMAIN d.msgs \subseteq Nat /\ FoundIn(d) \subseteq DOMAIN d.msgs
         /\ FoundIn(d) \subseteq Nat
         /\ \A k \in FoundIn(d) : d.parses /\ d.msgs[k].id # NoName
         /\ \A k \in DOMAIN d.msgs : d.parses /\ d.msgs[k].id # NoName => k \in FoundIn(d)
<1>1. d.msgs \in Seq(Range(d.msgs))
  BY DeliveriesAssumption DEF Payloads
<1>2. DOMAIN d.msgs \subseteq Nat
  BY <1>1, SomeSeq
<1> QED
  BY <1>2 DEF FoundIn, Usable

LEMMA FirstIs ==
  ASSUME NEW S \in SUBSET Nat, S # {}
  PROVE  Min(S) \in S /\ \A y \in S : Min(S) <= y
<1>1. \E x \in S : \A y \in S : ~ (<<y, x>> \in OpToRel(<, Nat))
  BY WFMin, NatLessThanWellFounded, Zenon
<1>2. PICK x \in S : \A y \in S : ~ (<<y, x>> \in OpToRel(<, Nat))
  BY <1>1
<1>3. \A y \in S : ~ (y < x)
  BY <1>2 DEF OpToRel
<1>4. \A y \in S : x <= y
  BY <1>3
<1> QED
  BY <1>4 DEF Min

LEMMA PutsPost ==
  ASSUME PostShape, NEW p \in Posts, NEW r, DOMAIN r = PostFields, Put(p, r)
  PROVE  /\ PostShape' /\ post'[p] = r
         /\ \A b \in Posts \ {p} : post'[b] = post[b]
  BY DEF PostShape, Put

(* Rows stay genuine while each delivery keeps what it got.                 *)
LEMMA GenuineStays ==
  ASSUME NEW row, CameIn(row),
         \A b \in Posts : post[b].got = {} \/ post'[b].got = post[b].got
  PROVE  \E p \in Posts : \E d \in Deliveries[p] :
           /\ post'[p].got = {d} /\ DeliveryRefusal(d) = 0
           /\ \E k \in FoundIn(d) : Written(row, d, k)
<1>1. PICK p \in Posts : \E d \in Deliveries[p] :
        /\ post[p].got = {d} /\ DeliveryRefusal(d) = 0
        /\ \E k \in FoundIn(d) : Written(row, d, k)
  BY DEF CameIn
<1>2. post'[p].got = post[p].got
  BY <1>1
<1> QED
  BY <1>1, <1>2

(* A delivery's step that stores nothing and keeps what it got.             *)
LEMMA PostKeeps ==
  ASSUME SlotInv, PostInv, KeptInv, NEW p \in Posts, PostShape',
         \A b \in Posts \ {p} : post'[b] = post[b],
         post[p].got = {} \/ post'[p].got = post[p].got,
         Given(post'[p], p), UNCHANGED <<slots, chat, inbox, poll>>
  PROVE  SlotInv' /\ PostInv' /\ KeptInv'
<1>1. SlotInv'
  BY DEF SlotInv, Shape, ChatShape, InboxShape, PollShape, SlotsAreTrue, RowsLeased
<1>2. PostInv'
  <2>1. ASSUME NEW b \in Posts
        PROVE  Given(post'[b], b)
    BY DEF PostInv
  <2> QED
    BY <2>1 DEF PostInv, Given, KeptBefore, KeptWhole, InInbox
<1>3. KeptInv'
  <2>1. ASSUME NEW i \in DOMAIN inbox
        PROVE  CameIn(inbox[i])'
    <3>1. CameIn(inbox[i])
      BY DEF KeptInv
    <3> DEFINE row == inbox[i]
    <3>2. inbox'[i] = row
      OBVIOUS
    <3> HIDE DEF row
    <3>3. CameIn(row)
      BY <3>1 DEF row
    <3>4. \E b \in Posts : \E d \in Deliveries[b] :
            /\ post'[b].got = {d} /\ DeliveryRefusal(d) = 0
            /\ \E k \in FoundIn(d) : Written(row, d, k)
      BY <3>3, GenuineStays
    <3> QED
      BY <3>2, <3>4 DEF CameIn
  <2> QED
    BY <2>1 DEF KeptInv, KeptOnce
<1> QED
  BY <1>1, <1>2, <1>3
LEMMA RefusedIsNot200 ==
  ASSUME NEW d
  PROVE  DeliveryRefusal(d) # 200
<1> DEFINE checks == << <<ChannelOf(d) \in Channels, 404>>, <<BodyFits(d.body), 413>>,
                        <<d.signed, 403>> >>
           failing == {i \in DOMAIN checks : ~checks[i][1]}
<1>1. DOMAIN checks = 1..3 /\ \A i \in 1..3 : checks[i][2] # 200
  OBVIOUS
<1>2. DeliveryRefusal(d) = IF failing = {} THEN 0 ELSE checks[Min(failing)][2]
  BY DEF DeliveryRefusal, FirstRefusal
<1> HIDE DEF checks
<1>3. failing # {} => Min(failing) \in 1..3
  <2>1. failing \subseteq Nat /\ failing \subseteq 1..3
    BY <1>1
  <2> HIDE DEF failing
  <2> QED
    BY <2>1, FirstIs
<1> QED
  BY <1>1, <1>2, <1>3

LEMMA ReceiveKeeps ==
  ASSUME SlotInv, PostInv, KeptInv, NEW p \in Posts, Receive(p)
  PROVE  SlotInv' /\ PostInv' /\ KeptInv'
<1>1. PICK d \in (IF post[p].got = {} THEN Deliveries[p] ELSE post[p].got) :
        LET refused == DeliveryRefusal(d)
            begun == [post[p] EXCEPT !.got = {d}, !.next = 0, !.tries = @ + 1]
        IN  IF refused # 0 THEN Put(p, [begun EXCEPT !.at = "ended", !.status = refused])
            ELSE IF FoundIn(d) = {} THEN Put(p, [begun EXCEPT !.at = "ended", !.status = 200])
            ELSE Put(p, [begun EXCEPT !.at = "storing", !.next = Min(FoundIn(d))])
  BY DEF Receive
<1>2. (post[p].got = {} \/ post[p].got = {d}) /\ d \in Deliveries[p]
  BY <1>1 DEF PostInv, Given
<1>3. DOMAIN post[p] = PostFields
  BY DEF SlotInv, Shape, PostShape
<1> DEFINE begun == [post[p] EXCEPT !.got = {d}, !.next = 0, !.tries = @ + 1]
           refused == [begun EXCEPT !.at = "ended", !.status = DeliveryRefusal(d)]
           empty == [begun EXCEPT !.at = "ended", !.status = 200]
           storing == [begun EXCEPT !.at = "storing", !.next = Min(FoundIn(d))]
<1>4. DOMAIN begun = PostFields /\ begun.got = {d}
  BY <1>3 DEF PostFields
<1> HIDE DEF begun
<1>5. /\ DOMAIN refused = PostFields /\ refused.got = {d} /\ refused.at = "ended"
      /\ refused.status = DeliveryRefusal(d)
      /\ DOMAIN empty = PostFields /\ empty.got = {d} /\ empty.at = "ended"
      /\ DOMAIN storing = PostFields /\ storing.got = {d} /\ storing.at = "storing"
      /\ storing.next = Min(FoundIn(d))
  BY <1>4 DEF PostFields
<1>6. \/ Put(p, refused)
      \/ Put(p, empty) /\ FoundIn(d) = {}
      \/ Put(p, storing) /\ DeliveryRefusal(d) = 0 /\ FoundIn(d) # {}
  BY <1>1 DEF begun
<1> HIDE DEF refused, empty, storing
<1>7. Given(refused, p)
  BY <1>2, <1>5, RefusedIsNot200 DEF Given
<1>8. FoundIn(d) = {} => Given(empty, p)
  BY <1>2, <1>5 DEF Given, KeptWhole
<1>9. DeliveryRefusal(d) = 0 /\ FoundIn(d) # {} => Given(storing, p)
  <2> SUFFICES ASSUME DeliveryRefusal(d) = 0, FoundIn(d) # {}
               PROVE  Given(storing, p)
    OBVIOUS
  <2>1. FoundIn(d) \subseteq Nat
    BY <1>2, Places
  <2>2. Min(FoundIn(d)) \in FoundIn(d) /\ KeptBefore(d, Min(FoundIn(d)))
    <3>1. Min(FoundIn(d)) \in FoundIn(d) /\ \A y \in FoundIn(d) : Min(FoundIn(d)) <= y
      BY <2>1, FirstIs
    <3>2. \A y \in FoundIn(d) : ~(y < Min(FoundIn(d)))
      BY <2>1, <3>1
    <3> QED
      BY <3>1, <3>2 DEF KeptBefore
  <2> QED
    BY <1>2, <1>5, <2>2 DEF Given
<1>10. /\ PostShape' /\ post'[p].got = {d} /\ Given(post'[p], p)
       /\ \A b \in Posts \ {p} : post'[b] = post[b]
  BY <1>5, <1>6, <1>7, <1>8, <1>9, PutsPost DEF SlotInv, Shape
<1> QED
  BY <1>2, <1>10, PostKeeps DEF Receive

LEMMA RedeliverKeeps ==
  ASSUME SlotInv, PostInv, KeptInv, NEW p \in Posts, Redeliver(p)
  PROVE  SlotInv' /\ PostInv' /\ KeptInv'
<1> DEFINE r == [post[p] EXCEPT !.at = "new"]
<1>1. DOMAIN r = PostFields /\ r.got = post[p].got /\ r.at = "new"
  BY DEF SlotInv, Shape, PostShape, PostFields
<1>2. Put(p, r)
  BY DEF Redeliver
<1> HIDE DEF r
<1>3. PostShape' /\ post'[p] = r /\ \A b \in Posts \ {p} : post'[b] = post[b]
  BY <1>1, <1>2, PutsPost DEF SlotInv, Shape
<1>4. Given(r, p)
  BY <1>1 DEF Given, PostInv
<1> QED
  BY <1>1, <1>3, <1>4, PostKeeps DEF Redeliver
(* What is kept stays kept when rows are only added.                        *)
LEMMA GivenStays ==
  ASSUME PostInv, NEW p \in Posts, post'[p] = post[p],
         \A i \in DOMAIN inbox : \E j \in DOMAIN inbox' : inbox'[j].key = inbox[i].key
  PROVE  Given(post[p], p)'
<1>1. Given(post[p], p)
  BY DEF PostInv
<1>2. ASSUME NEW d, NEW k, InInbox(d, k)
      PROVE  InInbox(d, k)'
  BY <1>2 DEF InInbox, KeyOf
<1>3. ASSUME NEW d, NEW n, KeptBefore(d, n)
      PROVE  \A k \in FoundIn(d) : k < n => \E i \in DOMAIN inbox' : inbox'[i].key = KeyOf(d, k)
  BY <1>2, <1>3 DEF KeptBefore, InInbox
<1>4. ASSUME NEW d, KeptWhole(d)
      PROVE  \A k \in FoundIn(d) : \E i \in DOMAIN inbox' : inbox'[i].key = KeyOf(d, k)
  BY <1>2, <1>4 DEF KeptWhole, InInbox
<1> QED
  BY <1>1, <1>3, <1>4 DEF Given, KeptBefore, KeptWhole, InInbox

(* Where the attempt stands after a message.                                *)
GivesUp(p) == Put(p, [post[p] EXCEPT !.at = "ended", !.status = 503])

LEMMA StoreFails ==
  ASSUME SlotInv, NEW p \in Posts, GivesUp(p)
  PROVE  /\ PostShape' /\ post'[p].got = post[p].got
         /\ post'[p].at = "ended" /\ post'[p].status = 503
         /\ \A b \in Posts \ {p} : post'[b] = post[b]
<1> DEFINE r == [post[p] EXCEPT !.at = "ended", !.status = 503]
<1>1. DOMAIN r = PostFields /\ r.at = "ended" /\ r.status = 503 /\ r.got = post[p].got
  BY DEF SlotInv, Shape, PostShape, PostFields
<1>2. Put(p, r)
  BY DEF GivesUp
<1> HIDE DEF r
<1> QED
  BY <1>1, <1>2, PutsPost DEF SlotInv, Shape

LEMMA StoreGoesOn ==
  ASSUME SlotInv, NEW p \in Posts, NEW d, post[p].at = "storing", AcceptedNext(p, d)
  PROVE  /\ PostShape' /\ post'[p].got = post[p].got
         /\ \/ post'[p].at = "ended" /\ Further(p, d) = {}
            \/ /\ post'[p].at = "storing" /\ Further(p, d) # {}
               /\ post'[p].next = Min(Further(p, d))
         /\ \A b \in Posts \ {p} : post'[b] = post[b]
<1>1. DOMAIN post[p] = PostFields
  BY DEF SlotInv, Shape, PostShape
<1> DEFINE whole == [post[p] EXCEPT !.at = "ended", !.status = 200]
           further == [post[p] EXCEPT !.next = Min(Further(p, d))]
<1>2. /\ DOMAIN whole = PostFields /\ whole.got = post[p].got /\ whole.at = "ended"
      /\ DOMAIN further = PostFields /\ further.got = post[p].got /\ further.at = "storing"
      /\ further.next = Min(Further(p, d))
  BY <1>1 DEF PostFields
<1>3. \/ Put(p, whole) /\ Further(p, d) = {}
      \/ Put(p, further) /\ Further(p, d) # {}
  BY DEF AcceptedNext, AllAccepted
<1> HIDE DEF whole, further
<1>4. CASE Put(p, whole) /\ Further(p, d) = {}
  BY <1>2, <1>4, PutsPost DEF SlotInv, Shape
<1>5. CASE Put(p, further) /\ Further(p, d) # {}
  BY <1>2, <1>5, PutsPost DEF SlotInv, Shape
<1> QED
  BY <1>3, <1>4, <1>5

(* A message that is accepted lengthens what is kept of its delivery.       *)
LEMMA StoreGives ==
  ASSUME SlotInv, PostInv, NEW p \in Posts, NEW d \in Deliveries[p],
         post[p].got = {d}, post[p].at = "storing", DeliveryRefusal(d) = 0,
         post[p].next \in FoundIn(d), KeptBefore(d, post[p].next),
         \/ /\ AcceptedNext(p, d)
            /\ \E i \in DOMAIN inbox' : inbox'[i].key = KeyOf(d, post[p].next)
         \/ GivesUp(p),
         \A i \in DOMAIN inbox : \E j \in DOMAIN inbox' : inbox'[j].key = inbox[i].key
  PROVE  /\ PostShape' /\ PostInv' /\ post'[p].got = {d}
         /\ \A b \in Posts \ {p} : post'[b] = post[b]
<1> DEFINE InNow(k) == \E i \in DOMAIN inbox' : inbox'[i].key = KeyOf(d, k)
<1>1. FoundIn(d) \subseteq Nat
  BY Places
<1>2. /\ PostShape' /\ post'[p].got = {d} /\ \A b \in Posts \ {p} : post'[b] = post[b]
      /\ Given(post[p], p)'
  <2>1. CASE GivesUp(p)
    BY <2>1, StoreFails DEF Given
  <2>2. CASE AcceptedNext(p, d) /\ InNow(post[p].next)
    <3>1. /\ PostShape' /\ post'[p].got = {d}
          /\ \/ post'[p].at = "ended" /\ Further(p, d) = {}
             \/ /\ post'[p].at = "storing" /\ Further(p, d) # {}
                /\ post'[p].next = Min(Further(p, d))
          /\ \A b \in Posts \ {p} : post'[b] = post[b]
      BY <2>2, StoreGoesOn
    <3>2. \A k \in FoundIn(d) : k <= post[p].next => InNow(k)
      <4> SUFFICES ASSUME NEW k \in FoundIn(d), k <= post[p].next
                   PROVE  InNow(k)
        OBVIOUS
      <4>1. CASE k = post[p].next
        BY <2>2, <4>1
      <4>2. CASE k < post[p].next
        BY <4>2 DEF KeptBefore, InInbox
      <4> QED
        BY <1>1, <4>1, <4>2
    <3>3. CASE post'[p].at = "ended" /\ Further(p, d) = {}
      <4>1. \A k \in FoundIn(d) : InNow(k)
        BY <1>1, <3>2, <3>3 DEF Further
      <4> QED
        BY <3>1, <3>3, <4>1 DEF Given, KeptWhole, InInbox
    <3>4. CASE /\ post'[p].at = "storing" /\ Further(p, d) # {}
               /\ post'[p].next = Min(Further(p, d))
      <4>1. Further(p, d) \subseteq Nat /\ Further(p, d) \subseteq FoundIn(d)
        BY <1>1 DEF Further
      <4>2. /\ post'[p].next \in FoundIn(d) /\ post'[p].next \in Nat
            /\ \A k \in Further(p, d) : post'[p].next <= k
        BY <3>4, <4>1, FirstIs
      <4>3. \A k \in FoundIn(d) : k < post'[p].next => InNow(k)
        BY <1>1, <3>2, <4>2 DEF Further
      <4> QED
        BY <3>1, <3>4, <4>2, <4>3 DEF Given, KeptBefore, InInbox
    <3> QED
      BY <3>1, <3>3, <3>4
  <2> QED
    BY <2>1, <2>2
<1>3. \A b \in Posts \ {p} : Given(post[b], b)'
  BY <1>2, GivenStays
<1> QED
  BY <1>2, <1>3 DEF PostInv

LEMMA RefShaped ==
  ASSUME NEW d, NEW k
  PROVE  LET ref == Ref(d, d.msgs[k]) IN
         /\ DOMAIN ref = RowFields /\ ref.at = "pending"
         /\ ref.channel = ChannelOf(d) /\ ref.env = d.msgs /\ ref.key = KeyOf(d, k)
         /\ ref.conv = Scoped(ChannelOf(d), Conversation(d.msgs[k]))
  BY DEF Ref, RowFields, KeyOf

(* A row that is added keeps every row, and is in nobody's hands.           *)
LEMMA AddsRow ==
  ASSUME SlotInv, NEW row, DOMAIN row = RowFields, row.at = "pending",
         inbox' = Append(inbox, row), PostShape', UNCHANGED <<slots, chat, poll>>
  PROVE  /\ SlotInv'
         /\ DOMAIN inbox \subseteq DOMAIN inbox'
         /\ \A i \in DOMAIN inbox : inbox'[i] = inbox[i]
         /\ \E i \in DOMAIN inbox' : inbox'[i] = row
         /\ \A i \in DOMAIN inbox' : i \notin DOMAIN inbox => inbox'[i] = row
         /\ \A i, j \in DOMAIN inbox' \ DOMAIN inbox : i = j
<1>1. PICK S : inbox \in Seq(S)
  BY DEF SlotInv, Shape, InboxShape
<1> DEFINE n == Len(inbox) + 1
<1>2. Len(inbox) \in Nat /\ DOMAIN inbox = 1..Len(inbox)
  BY <1>1, SomeSeq
<1>3. /\ inbox' \in Seq(S \cup {row}) /\ DOMAIN inbox' = 1..n /\ inbox'[n] = row
      /\ \A i \in DOMAIN inbox : inbox'[i] = inbox[i]
  BY <1>1, AppendSome
<1>4. DOMAIN inbox' = DOMAIN inbox \cup {n} /\ n \notin DOMAIN inbox
  BY <1>2, <1>3
<1>5. InboxShape'
  BY <1>3, <1>4 DEF SlotInv, Shape, InboxShape
<1>6. Shape'
  BY <1>4, <1>5 DEF SlotInv, Shape, ChatShape, PollShape
<1>7. SlotsAreTrue' /\ RowsLeased'
  BY <1>3 DEF SlotInv, Shape, PollShape, SlotsAreTrue, RowsLeased
<1> QED
  BY <1>3, <1>4, <1>6, <1>7 DEF SlotInv

(* What stood in the way of a new row is what its delivery had before it.   *)
LEMMA NewRowIsFirst ==
  ASSUME NEW p \in Posts, NEW d \in Deliveries[p], NEW k \in FoundIn(d), KeptBefore(d, k),
         \A i \in DOMAIN inbox : inbox[i].key # KeyOf(d, k)
  PROVE  \A j \in DOMAIN d.msgs : d.msgs[j].id = d.msgs[k].id => k <= j
<1> SUFFICES ASSUME NEW j \in DOMAIN d.msgs, d.msgs[j].id = d.msgs[k].id
             PROVE  k <= j
  OBVIOUS
<1>1. j \in FoundIn(d) /\ KeyOf(d, j) = KeyOf(d, k) /\ j \in Nat /\ k \in Nat
  BY Places DEF KeyOf
<1>2. ~(j < k)
  BY <1>1 DEF KeptBefore, InInbox
<1> QED
  BY <1>1, <1>2

LEMMA StoreKeeps ==
  ASSUME SlotInv, PostInv, KeptInv, NEW p \in Posts, Store(p)
  PROVE  SlotInv' /\ PostInv' /\ KeptInv'
<1>1. PICK d \in Deliveries[p] :
        /\ post[p].got = {d} /\ DeliveryRefusal(d) = 0
        /\ post[p].next \in FoundIn(d) /\ KeptBefore(d, post[p].next)
  BY DEF Store, PostInv, Given
<1> DEFINE k == post[p].next
           ref == Ref(d, d.msgs[k])
<1>2. /\ post[p].at = "storing" /\ UNCHANGED <<slots, chat, poll>>
      /\ \/ UNCHANGED inbox /\ (GivesUp(p) \/ (Stored(ref) /\ AcceptedNext(p, d)))
         \/ ~Stored(ref) /\ inbox' = Append(inbox, ref) /\ (AcceptedNext(p, d) \/ GivesUp(p))
  BY <1>1 DEF Store, GivesUp
<1>3. /\ DOMAIN ref = RowFields /\ ref.at = "pending"
      /\ ref.channel = ChannelOf(d) /\ ref.env = d.msgs /\ ref.key = KeyOf(d, k)
      /\ ref.conv = Scoped(ChannelOf(d), Conversation(d.msgs[k]))
  BY RefShaped
<1> HIDE DEF ref
<1>4. CASE UNCHANGED inbox /\ (GivesUp(p) \/ (Stored(ref) /\ AcceptedNext(p, d)))
  <2>1. \/ /\ AcceptedNext(p, d)
           /\ \E i \in DOMAIN inbox' : inbox'[i].key = KeyOf(d, k)
        \/ GivesUp(p)
    BY <1>3, <1>4 DEF Stored
  <2>2. \A i \in DOMAIN inbox : \E j \in DOMAIN inbox' : inbox'[j].key = inbox[i].key
    BY <1>4
  <2>3. /\ PostShape' /\ PostInv' /\ post'[p].got = {d}
        /\ \A b \in Posts \ {p} : post'[b] = post[b]
    BY <1>1, <1>2, <2>1, <2>2, StoreGives
  <2>4. Given(post'[p], p)
    BY <1>4, <2>3 DEF PostInv, Given, KeptBefore, KeptWhole, InInbox
  <2> QED
    BY <1>1, <1>2, <1>4, <2>3, <2>4, PostKeeps
<1>5. CASE ~Stored(ref) /\ inbox' = Append(inbox, ref) /\ (AcceptedNext(p, d) \/ GivesUp(p))
  <2>1. PostShape'
    BY <1>2, <1>5, StoreFails, StoreGoesOn
  <2>2. /\ SlotInv'
        /\ DOMAIN inbox \subseteq DOMAIN inbox'
        /\ \A i \in DOMAIN inbox : inbox'[i] = inbox[i]
        /\ \E i \in DOMAIN inbox' : inbox'[i] = ref
        /\ \A i \in DOMAIN inbox' : i \notin DOMAIN inbox => inbox'[i] = ref
        /\ \A i, j \in DOMAIN inbox' \ DOMAIN inbox : i = j
    BY <1>2, <1>3, <1>5, <2>1, AddsRow
  <2>3. \E i \in DOMAIN inbox' : inbox'[i].key = KeyOf(d, k)
    BY <1>3, <2>2
  <2>4. \A i \in DOMAIN inbox : \E j \in DOMAIN inbox' : inbox'[j].key = inbox[i].key
    BY <2>2
  <2>5. /\ PostInv' /\ post'[p].got = {d}
        /\ \A b \in Posts \ {p} : post'[b] = post[b]
    BY <1>1, <1>2, <1>5, <2>3, <2>4, StoreGives
  <2>6. \A i \in DOMAIN inbox : inbox[i].key # KeyOf(d, k)
    BY <1>3, <1>5 DEF Stored
  <2>7. KeptOnce'
    BY <1>3, <2>2, <2>6 DEF KeptInv, KeptOnce
  <2>8. Written(ref, d, k)
    BY <1>1, <1>3, <2>6, NewRowIsFirst DEF Written
  <2>9. ASSUME NEW i \in DOMAIN inbox'
        PROVE  CameIn(inbox[i])'
    <3>1. CASE i \in DOMAIN inbox
      <4> DEFINE row == inbox[i]
      <4>1. inbox'[i] = row
        BY <2>2, <3>1
      <4>2. CameIn(row)
        BY <3>1 DEF KeptInv
      <4> HIDE DEF row
      <4>3. \A b \in Posts : post[b].got = {} \/ post'[b].got = post[b].got
        BY <1>1, <2>5
      <4>4. \E b \in Posts : \E e \in Deliveries[b] :
              /\ post'[b].got = {e} /\ DeliveryRefusal(e) = 0
              /\ \E j \in FoundIn(e) : Written(row, e, j)
        BY <4>2, <4>3, GenuineStays
      <4> QED
        BY <4>1, <4>4 DEF CameIn
    <3>2. CASE i \notin DOMAIN inbox
      <4>1. inbox'[i] = ref
        BY <2>2, <3>2
      <4> QED
        BY <1>1, <2>5, <2>8, <4>1 DEF CameIn
    <3> QED
      BY <3>1, <3>2
  <2> QED
    BY <2>2, <2>5, <2>7, <2>9 DEF KeptInv
<1> QED
  BY <1>2, <1>4, <1>5
-----------------------------------------------------------------------------
(* The worker.  It changes what becomes of a row, never what the row is.    *)
LEMMA SameRows ==
  ASSUME PostInv, KeptInv, UNCHANGED post, DOMAIN inbox' = DOMAIN inbox,
         \A i \in DOMAIN inbox : /\ inbox'[i].key = inbox[i].key
                                 /\ inbox'[i].conv = inbox[i].conv
                                 /\ inbox'[i].channel = inbox[i].channel
                                 /\ inbox'[i].env = inbox[i].env
  PROVE  PostInv' /\ KeptInv'
<1>1. PostInv'
  <2>1. \A i \in DOMAIN inbox : \E j \in DOMAIN inbox' : inbox'[j].key = inbox[i].key
    OBVIOUS
  <2>2. ASSUME NEW p \in Posts
        PROVE  Given(post[p], p)'
    BY <2>1, GivenStays
  <2> QED
    BY <2>2 DEF PostInv
<1>2. KeptOnce'
  BY DEF KeptInv, KeptOnce
<1>3. ASSUME NEW i \in DOMAIN inbox'
      PROVE  CameIn(inbox[i])'
  <2>1. CameIn(inbox[i])
    BY <1>3 DEF KeptInv
  <2>2. PICK p \in Posts : \E d \in Deliveries[p] : \E k \in FoundIn(d) :
          post[p].got = {d} /\ DeliveryRefusal(d) = 0 /\ Written(inbox[i], d, k)
    BY <2>1 DEF CameIn
  <2>3. PICK d \in Deliveries[p] : \E k \in FoundIn(d) :
          post[p].got = {d} /\ DeliveryRefusal(d) = 0 /\ Written(inbox[i], d, k)
    BY <2>2
  <2>4. PICK k \in FoundIn(d) : Written(inbox[i], d, k)
    BY <2>3
  <2>5. Written(inbox'[i], d, k)
    BY <1>3, <2>4 DEF Written
  <2> QED
    BY <2>3, <2>5 DEF CameIn
<1> QED
  BY <1>1, <1>2, <1>3 DEF KeptInv

(* What a row's turn is depends on what the row is.                         *)
LEMMA SameTurn ==
  ASSUME NEW a, NEW b, a.env = b.env, a.key = b.key
  PROVE  (HasTurn(a) <=> HasTurn(b)) /\ AddressOf(a) = AddressOf(b)
  BY DEF HasTurn, AddressOf, Extracted, Sought

(* A row that is done was answered if it owed a turn; an answer goes to the *)
(* sender of its row's turn, is the row's only one, and says nothing only   *)
(* if its row is done.                                                      *)
ReplyFits(r) ==
  /\ r.row \in DOMAIN inbox /\ HasTurn(inbox[r.row]) /\ r.to = AddressOf(inbox[r.row])
  /\ r.said # Silence \/ inbox[r.row].at = "done"
AnswerInv ==
  /\ \A i \in DOMAIN inbox : inbox[i].at = "done" /\ Owed(inbox[i]) =>
       \E r \in replies : r.row = i
  /\ \A r \in replies : ReplyFits(r)
  /\ \A q, r \in replies : q.row = r.row => q = r

(* A step that leaves the rows what they are, and those done done, and      *)
(* answers one row at most that had no answer.                              *)
LEMMA AnswersStay ==
  ASSUME AnswerInv, DOMAIN inbox \subseteq DOMAIN inbox', replies \subseteq replies',
         \A i \in DOMAIN inbox : /\ inbox'[i].key = inbox[i].key
                                 /\ inbox'[i].env = inbox[i].env
                                 /\ inbox[i].at = "done" => inbox'[i].at = "done",
         \A i \in DOMAIN inbox' : inbox'[i].at = "done" =>
           \/ i \in DOMAIN inbox /\ inbox[i].at = "done"
           \/ i \in DOMAIN inbox /\ ~Owed(inbox[i])
           \/ \E r \in replies' : r.row = i,
         \A r \in replies' \ replies :
           /\ r.row \in DOMAIN inbox /\ HasTurn(inbox[r.row]) /\ r.to = AddressOf(inbox[r.row])
           /\ r.said # Silence \/ inbox'[r.row].at = "done"
           /\ \A q \in replies : q.row # r.row,
         \A q, r \in replies' \ replies : q = r
  PROVE  AnswerInv'
<1>1. ASSUME NEW i \in DOMAIN inbox', inbox'[i].at = "done", Owed(inbox'[i])
      PROVE  \E r \in replies' : r.row = i
  <2>1. CASE i \in DOMAIN inbox
    <3>1. Owed(inbox[i])
      BY <1>1, <2>1, SameTurn DEF Owed
    <3> QED
      BY <1>1, <2>1, <3>1 DEF AnswerInv
  <2>2. CASE i \notin DOMAIN inbox
    BY <1>1, <2>2
  <2> QED
    BY <2>1, <2>2
<1>2. ASSUME NEW r \in replies'
      PROVE  ReplyFits(r)'
  <2>1. /\ r.row \in DOMAIN inbox /\ HasTurn(inbox[r.row])
        /\ r.to = AddressOf(inbox[r.row])
        /\ r.said # Silence \/ inbox'[r.row].at = "done"
    BY DEF AnswerInv, ReplyFits
  <2>2. HasTurn(inbox'[r.row]) /\ r.to = AddressOf(inbox'[r.row])
    BY <2>1, SameTurn
  <2> QED
    BY <2>1, <2>2 DEF ReplyFits
<1>3. ASSUME NEW q \in replies', NEW r \in replies', q.row = r.row
      PROVE  q = r
  <2>1. CASE q \in replies /\ r \in replies
    BY <1>3, <2>1 DEF AnswerInv
  <2>2. CASE q \notin replies \/ r \notin replies
    BY <1>3, <2>2
  <2> QED
    BY <2>1, <2>2
<1>4. \A i \in DOMAIN inbox' : inbox'[i].at = "done" /\ Owed(inbox'[i]) =>
        \E r \in replies' : r.row = i
  BY <1>1
<1> QED
  BY <1>2, <1>3, <1>4 DEF AnswerInv, Owed

LEMMA NothingAnswered ==
  ASSUME AnswerInv, UNCHANGED <<inbox, replies>>
  PROVE  AnswerInv'
  BY DEF AnswerInv, ReplyFits, Owed

LEMMA IdleShaped ==
  IdleWorker.at = "idle" /\ IdleWorker.reserved = 0 /\ IdleWorker.rows = {}
  BY DEF IdleWorker

LEMMA ReserveKeeps ==
  ASSUME SlotInv, Reserve
  PROVE  SlotInv'
<1>1. /\ Reservable \in Nat /\ Reservable <= MaxTurns - slots
      /\ slots' = slots + Reservable
  BY SlotsCounted, EntryAssumption DEF Reserve, Reservable, Available
<1> DEFINE n == Reservable
<1> HIDE DEF n
<1>2. poll' = [at |-> "claiming", reserved |-> n, rows |-> {}] /\ n \in Nat
  BY <1>1 DEF Reserve, IdleWorker, n
<1>3. PollShape'
  BY <1>2, FS_EmptySet DEF PollShape
<1>4. Shape'
  BY <1>3 DEF SlotInv, Shape, ChatShape, PostShape, InboxShape, Reserve
<1>5. poll.reserved = 0 /\ poll.rows = {}
  BY DEF Reserve, SlotInv, Shape, PollShape
<1>6. slots' = Cardinality(Running) + poll'.reserved + Cardinality(poll'.rows)
  BY <1>1, <1>2, <1>5, SlotsCounted, FS_EmptySet DEF n
<1>7. slots' <= MaxTurns
  BY <1>1, SlotsCounted
<1>8. SlotsAreTrue' /\ RowsLeased'
  <2>1. UNCHANGED <<chat, inbox>> /\ poll'.rows = {}
    <3>1. poll'.rows = {}
      BY <1>2
    <3> QED
      BY <3>1 DEF Reserve
  <2>2. slots' = Cardinality(Running') + poll'.reserved + Cardinality(poll'.rows)
    BY <1>6, <2>1 DEF Running
  <2> QED
    BY <1>7, <2>1, <2>2 DEF SlotsAreTrue, RowsLeased, Running
<1> QED
  BY <1>4, <1>8 DEF SlotInv

(* The worker keeps a slot for each row it is handed and has under lease.   *)
LEMMA HandsKeeps ==
  ASSUME SlotInv, poll.rows = {}, UNCHANGED <<chat, post>>, InboxShape',
         DOMAIN inbox' = DOMAIN inbox,
         NEW rows \in SUBSET DOMAIN inbox, IsFiniteSet(rows),
         Cardinality(rows) <= poll.reserved,
         \A i \in rows : inbox'[i].at = "leased", Hands(rows)
  PROVE  SlotInv'
<1>1. DOMAIN inbox \subseteq Nat /\ Cardinality(rows) \in Nat
  BY SomeSeq, FS_CardinalityType DEF SlotInv, Shape, InboxShape
<1>2. poll' = [at |-> IF rows = {} THEN "idle" ELSE "running", reserved |-> 0, rows |-> rows]
  BY DEF Hands, IdleWorker
<1>3. PollShape'
  <2>1. rows \in SUBSET Nat
    BY <1>1
  <2> QED
    BY <1>2, <2>1 DEF PollShape
<1>4. Shape'
  BY <1>3 DEF SlotInv, Shape, ChatShape, PostShape
<1>5. slots' = Cardinality(Running) + 0 + Cardinality(rows) /\ slots' <= MaxTurns
  BY <1>1, SlotsCounted, FS_EmptySet DEF Hands, Surplus, Release
<1>6. slots' = Cardinality(Running') + poll'.reserved + Cardinality(poll'.rows)
  BY <1>2, <1>5 DEF Running
<1>7. SlotsAreTrue' /\ RowsLeased'
  BY <1>2, <1>5, <1>6 DEF SlotsAreTrue, RowsLeased, Running
<1> QED
  BY <1>4, <1>7 DEF SlotInv

LEMMA ClaimKeeps ==
  ASSUME SlotInv, PostInv, KeptInv, AnswerInv, Claim
  PROVE  SlotInv' /\ PostInv' /\ KeptInv' /\ AnswerInv'
<1>1. PICK rows \in SUBSET {i \in DOMAIN inbox : Claimable(i)} :
        /\ Cardinality(rows) <= poll.reserved
        /\ \E spent \in SUBSET {i \in rows : inbox[i].at /= "pending"} :
             LeaseRows(rows, spent) /\ (Hands(rows \ spent) \/ Hands({}))
  BY DEF Claim
<1>2. PICK spent \in SUBSET {i \in rows : inbox[i].at /= "pending"} :
        LeaseRows(rows, spent) /\ (Hands(rows \ spent) \/ Hands({}))
  BY <1>1
<1>3. UNCHANGED <<chat, post, replies>> /\ poll.rows = {} /\ poll.reserved \in Nat
  BY DEF Claim, SlotInv, Shape, PollShape
<1>4. PICK S : inbox \in Seq(S)
  BY DEF SlotInv, Shape, InboxShape
<1>5. DOMAIN inbox = 1..Len(inbox) /\ Len(inbox) \in Nat /\ DOMAIN inbox' = DOMAIN inbox
  BY <1>2, <1>4, SomeSeq DEF LeaseRows
<1>6. \A i \in DOMAIN inbox :
        /\ DOMAIN inbox'[i] = RowFields
        /\ inbox'[i].key = inbox[i].key /\ inbox'[i].channel = inbox[i].channel
        /\ inbox'[i].env = inbox[i].env /\ inbox'[i].conv = inbox[i].conv
        /\ inbox'[i].at = IF i \in spent THEN "failed"
                          ELSE IF i \in rows THEN "leased" ELSE inbox[i].at
  BY <1>2 DEF LeaseRows, SlotInv, Shape, InboxShape, RowFields
<1>7. InboxShape'
  <2>1. inbox' = [i \in DOMAIN inbox |-> inbox'[i]]
    BY <1>2 DEF LeaseRows
  <2>2. \E T : inbox' \in Seq(T)
    BY <1>4, <1>5, <2>1, MapSome
  <2> QED
    BY <1>5, <1>6, <2>2 DEF InboxShape
<1>8. /\ rows \subseteq DOMAIN inbox /\ IsFiniteSet(rows) /\ Cardinality(rows) \in Nat
      /\ \A i \in rows : inbox[i].at # "done"
  <2>1. rows \subseteq 1..Len(inbox) /\ rows \subseteq DOMAIN inbox
    BY <1>1, <1>5
  <2>2. IsFiniteSet(1..Len(inbox))
    BY <1>5, FS_Interval
  <2>3. IsFiniteSet(rows)
    BY <2>1, <2>2, FS_Subset
  <2> QED
    BY <1>1, <2>1, <2>3, FS_CardinalityType DEF Claimable, Over
<1>9. SlotInv'
  <2> DEFINE held == rows \ spent
  <2>1. /\ held \in SUBSET DOMAIN inbox /\ IsFiniteSet(held)
        /\ Cardinality(held) <= poll.reserved
    <3>1. held \subseteq rows
      OBVIOUS
    <3>2. IsFiniteSet(held) /\ Cardinality(held) <= Cardinality(rows)
          /\ Cardinality(held) \in Nat
      BY <1>8, <3>1, FS_Subset, FS_CardinalityType
    <3> QED
      BY <1>1, <1>3, <1>8, <3>1, <3>2
  <2>2. \A i \in held : inbox'[i].at = "leased"
    BY <1>6, <1>8
  <2>3. CASE Hands(held)
    <3> HIDE DEF held
    <3> QED
      BY <1>3, <1>5, <1>7, <2>1, <2>2, <2>3, HandsKeeps
  <2>4. CASE Hands({})
    <3>1. /\ {} \in SUBSET DOMAIN inbox /\ IsFiniteSet({}) /\ Cardinality({}) <= poll.reserved
          /\ \A i \in {} : inbox'[i].at = "leased"
      BY <1>3, FS_EmptySet
    <3> QED
      BY <1>3, <1>5, <1>7, <2>4, <3>1, HandsKeeps
  <2> QED
    BY <1>2, <2>3, <2>4
<1>10. PostInv' /\ KeptInv'
  BY <1>3, <1>5, <1>6, SameRows
<1>11. AnswerInv'
  <2>1. \A i \in DOMAIN inbox : inbox'[i].at = "done" <=> inbox[i].at = "done"
    BY <1>2, <1>6, <1>8
  <2> QED
    BY <1>3, <1>5, <1>6, <2>1, AnswersStay
<1> QED
  BY <1>9, <1>10, <1>11

(* However a row ends, or is let go of, it leaves the worker's hands with   *)
(* its slot.                                                                *)
LEMMA RowEndsKeeps ==
  ASSUME SlotInv, PostInv, KeptInv, NEW i \in poll.rows, NEW at \in {"done"} \cup Unfinished,
         RowEnds(i, at)
  PROVE  /\ SlotInv' /\ PostInv' /\ KeptInv'
         /\ DOMAIN inbox' = DOMAIN inbox /\ i \in DOMAIN inbox /\ inbox[i].at = "leased"
         /\ \A j \in DOMAIN inbox : /\ inbox'[j].key = inbox[j].key
                                   /\ inbox'[j].env = inbox[j].env
                                   /\ inbox'[j].at = IF j = i THEN at ELSE inbox[j].at
<1>1. PICK S : inbox \in Seq(S)
  BY DEF SlotInv, Shape, InboxShape
<1>2. /\ i \in DOMAIN inbox /\ poll.rows \in SUBSET Nat /\ IsFiniteSet(poll.rows)
      /\ poll.reserved = 0 /\ poll.at = "running" /\ DOMAIN inbox[i] = RowFields
      /\ DOMAIN poll = {"at", "reserved", "rows"} /\ inbox[i].at = "leased"
  BY DEF SlotInv, Shape, PollShape, InboxShape, RowsLeased
<1> DEFINE r == [inbox[i] EXCEPT !.at = at]
<1>3. /\ DOMAIN r = RowFields /\ r.at = at /\ r.key = inbox[i].key
      /\ r.channel = inbox[i].channel /\ r.env = inbox[i].env /\ r.conv = inbox[i].conv
  BY <1>2 DEF RowFields
<1>4. inbox' = [inbox EXCEPT ![i] = r]
  BY DEF RowEnds
<1> HIDE DEF r
<1>5. /\ DOMAIN inbox' = DOMAIN inbox /\ inbox'[i] = r
      /\ \A j \in DOMAIN inbox \ {i} : inbox'[j] = inbox[j]
      /\ inbox' = [j \in DOMAIN inbox |-> inbox'[j]]
  BY <1>1, <1>2, <1>4
<1>6. InboxShape'
  <2>1. \E T : inbox' \in Seq(T)
    BY <1>1, <1>5, MapSome
  <2> QED
    BY <1>3, <1>5, <2>1 DEF SlotInv, Shape, InboxShape
<1> DEFINE left == poll.rows \ {i}
<1>7. /\ IsFiniteSet(left) /\ Cardinality(left) = Cardinality(poll.rows) - 1
      /\ left \in SUBSET DOMAIN inbox /\ left \in SUBSET Nat
  BY <1>2, FS_RemoveElement DEF SlotInv, Shape, PollShape
<1>8. poll'.rows = left /\ poll'.reserved = 0 /\ PollShape'
  <2>1. CASE poll.rows = {i}
    <3>1. poll' = IdleWorker /\ left = {}
      BY <2>1 DEF RowEnds
    <3> QED
      BY <3>1, <1>7 DEF PollShape, IdleWorker
  <2>2. CASE poll.rows # {i}
    <3>1. poll' = [poll EXCEPT !.rows = left]
      BY <2>2 DEF RowEnds
    <3>2. poll' \in [at : {"idle", "claiming", "running"}, reserved : Nat, rows : SUBSET Nat]
          /\ poll'.at = "running" /\ poll'.reserved = 0 /\ poll'.rows = left
      <4> HIDE DEF left
      <4>1. poll \in [at : {"idle", "claiming", "running"}, reserved : Nat, rows : SUBSET Nat]
        BY DEF SlotInv, Shape, PollShape
      <4> QED
        BY <1>2, <1>7, <3>1, <4>1
    <3> QED
      BY <1>5, <1>7, <3>2 DEF PollShape
  <2> QED
    BY <2>1, <2>2
<1>9. Shape'
  BY <1>6, <1>8 DEF SlotInv, Shape, ChatShape, PostShape, RowEnds
<1>10. SlotsAreTrue' /\ RowsLeased'
  <2>1. UNCHANGED chat /\ slots' = slots - 1
    BY DEF RowEnds, Release
  <2>2. slots' = Cardinality(Running) + 0 + Cardinality(left) /\ slots' <= MaxTurns
    BY <1>2, <1>7, <2>1, SlotsCounted
  <2>3. RowsLeased'
    BY <1>5, <1>7, <1>8 DEF SlotInv, RowsLeased
  <2>4. slots' = Cardinality(Running') + poll'.reserved + Cardinality(poll'.rows)
    BY <1>8, <2>1, <2>2 DEF Running
  <2> QED
    BY <2>2, <2>3, <2>4 DEF SlotsAreTrue, Running
<1>11. PostInv' /\ KeptInv'
  <2>1. UNCHANGED post
    BY DEF RowEnds
  <2>2. \A j \in DOMAIN inbox : /\ inbox'[j].key = inbox[j].key
                                /\ inbox'[j].conv = inbox[j].conv
                                /\ inbox'[j].channel = inbox[j].channel
                                /\ inbox'[j].env = inbox[j].env
    BY <1>3, <1>5
  <2> QED
    BY <1>5, <2>1, <2>2, SameRows
<1> QED
  BY <1>2, <1>3, <1>5, <1>9, <1>10, <1>11 DEF SlotInv

(* A row that leaves the worker's hands with no new reply: it owes none, it *)
(* has one, or it is not done.                                              *)
LEMMA NoReplyKeeps ==
  ASSUME SlotInv, PostInv, KeptInv, AnswerInv, NEW i \in poll.rows,
         NEW at \in {"done"} \cup Unfinished, RowEnds(i, at), UNCHANGED replies,
         \/ at # "done"
         \/ ~Owed(inbox[i])
         \/ \E r \in replies : r.row = i
  PROVE  SlotInv' /\ PostInv' /\ KeptInv' /\ AnswerInv'
<1>1. /\ SlotInv' /\ PostInv' /\ KeptInv'
      /\ DOMAIN inbox' = DOMAIN inbox /\ i \in DOMAIN inbox /\ inbox[i].at = "leased"
      /\ \A j \in DOMAIN inbox : /\ inbox'[j].key = inbox[j].key
                                /\ inbox'[j].env = inbox[j].env
                                /\ inbox'[j].at = IF j = i THEN at ELSE inbox[j].at
  BY RowEndsKeeps
<1>2. AnswerInv'
  BY <1>1, AnswersStay
<1> QED
  BY <1>1, <1>2

LEMMA NoTurnKeeps ==
  ASSUME SlotInv, PostInv, KeptInv, AnswerInv, NEW i \in poll.rows, NoTurn(i)
  PROVE  SlotInv' /\ PostInv' /\ KeptInv' /\ AnswerInv'
  BY NoReplyKeeps DEF NoTurn

LEMMA ReplayKeeps ==
  ASSUME SlotInv, PostInv, KeptInv, AnswerInv, NEW i \in poll.rows, Replay(i)
  PROVE  SlotInv' /\ PostInv' /\ KeptInv' /\ AnswerInv'
  BY NoReplyKeeps DEF Replay, Committed

LEMMA UnfinishedIsNot == "done" \notin Unfinished
  BY DEF Unfinished

LEMMA TurnFailsKeeps ==
  ASSUME SlotInv, PostInv, KeptInv, AnswerInv, NEW i \in poll.rows, TurnFails(i)
  PROVE  SlotInv' /\ PostInv' /\ KeptInv' /\ AnswerInv'
<1>1. PICK at \in Unfinished : RowEnds(i, at)
  BY DEF TurnFails
<1>2. UNCHANGED replies /\ at # "done" /\ at \in {"done"} \cup Unfinished
  BY UnfinishedIsNot DEF TurnFails
<1> QED
  BY <1>1, <1>2, NoReplyKeeps

(* A turn's reply, and what became of its row.  The row had none before: an *)
(* earlier one would say something, and be sent as it is.                   *)
LEMMA ReplyKept ==
  ASSUME SlotInv, PostInv, KeptInv, AnswerInv, NEW i \in poll.rows,
         NEW at \in {"done"} \cup Unfinished, RowEnds(i, at),
         Owed(inbox[i]), ~Committed(i), NEW said, said # Silence \/ at = "done",
         replies' = replies \cup {[row |-> i, to |-> AddressOf(inbox[i]), said |-> said]}
  PROVE  SlotInv' /\ PostInv' /\ KeptInv' /\ AnswerInv'
<1> DEFINE reply == [row |-> i, to |-> AddressOf(inbox[i]), said |-> said]
<1>1. /\ SlotInv' /\ PostInv' /\ KeptInv'
      /\ DOMAIN inbox' = DOMAIN inbox /\ i \in DOMAIN inbox /\ inbox[i].at = "leased"
      /\ \A j \in DOMAIN inbox : /\ inbox'[j].key = inbox[j].key
                                /\ inbox'[j].env = inbox[j].env
                                /\ inbox'[j].at = IF j = i THEN at ELSE inbox[j].at
  BY RowEndsKeeps
<1>2. reply.row = i /\ reply.to = AddressOf(inbox[i]) /\ reply.said = said
  OBVIOUS
<1>3. \A q \in replies : q.row # i
  BY <1>1 DEF AnswerInv, ReplyFits, Committed
<1>4. replies' = replies \cup {reply} /\ HasTurn(inbox[i])
  BY DEF Owed
<1> HIDE DEF reply
<1>5. AnswerInv'
  <2>1. \A j \in DOMAIN inbox : inbox[j].at = "done" => inbox'[j].at = "done"
    BY <1>1
  <2>2. \A j \in DOMAIN inbox' : inbox'[j].at = "done" =>
          \/ j \in DOMAIN inbox /\ inbox[j].at = "done"
          \/ \E r \in replies' : r.row = j
    BY <1>1, <1>2, <1>4
  <2>3. \A r \in replies' \ replies :
          /\ r.row \in DOMAIN inbox /\ HasTurn(inbox[r.row]) /\ r.to = AddressOf(inbox[r.row])
          /\ r.said # Silence \/ inbox'[r.row].at = "done"
          /\ \A q \in replies : q.row # r.row
    BY <1>1, <1>2, <1>3, <1>4
  <2>4. \A q, r \in replies' \ replies : q = r
    BY <1>4
  <2> QED
    BY <1>1, <1>4, <2>1, <2>2, <2>3, <2>4, AnswersStay
<1> QED
  BY <1>1, <1>5

LEMMA RunTurnKeeps ==
  ASSUME SlotInv, PostInv, KeptInv, AnswerInv, NEW i \in poll.rows, RunTurn(i)
  PROVE  SlotInv' /\ PostInv' /\ KeptInv' /\ AnswerInv'
<1>1. Owed(inbox[i]) /\ ~Committed(i)
  BY DEF RunTurn
<1>2. \E said :
        LET answered == replies' = replies \cup
                          {[row |-> i, to |-> AddressOf(inbox[i]), said |-> said]}
        IN  \/ answered /\ RowEnds(i, "done")
            \/ said # Silence /\ answered /\ \E at \in Unfinished : RowEnds(i, at)
            \/ UNCHANGED replies /\ \E at \in Unfinished : RowEnds(i, at)
  BY DEF RunTurn
<1>3. PICK said :
        LET answered == replies' = replies \cup
                          {[row |-> i, to |-> AddressOf(inbox[i]), said |-> said]}
        IN  \/ answered /\ RowEnds(i, "done")
            \/ said # Silence /\ answered /\ \E at \in Unfinished : RowEnds(i, at)
            \/ UNCHANGED replies /\ \E at \in Unfinished : RowEnds(i, at)
  BY <1>2
<1> DEFINE answered == replies' = replies \cup
                         {[row |-> i, to |-> AddressOf(inbox[i]), said |-> said]}
<1>4. CASE answered /\ RowEnds(i, "done")
  <2>1. "done" \in {"done"} \cup Unfinished
    OBVIOUS
  <2> QED
    BY <1>1, <1>4, <2>1, ReplyKept, Zenon
<1>5. CASE said # Silence /\ answered /\ \E at \in Unfinished : RowEnds(i, at)
  <2>1. PICK at \in {"done"} \cup Unfinished : RowEnds(i, at)
    BY <1>5
  <2>2. said # Silence \/ at = "done"
    BY <1>5
  <2>3. replies' = replies \cup {[row |-> i, to |-> AddressOf(inbox[i]), said |-> said]}
    BY <1>5
  <2> HIDE DEF answered
  <2> QED
    BY <1>1, <2>1, <2>2, <2>3, ReplyKept
<1>6. CASE UNCHANGED replies /\ \E at \in Unfinished : RowEnds(i, at)
  <2>1. PICK at \in Unfinished : RowEnds(i, at)
    BY <1>6
  <2> QED
    BY <1>6, <2>1, UnfinishedIsNot, NoReplyKeeps
<1> QED
  BY <1>3, <1>4, <1>5, <1>6

LEMMA StoreAnswers ==
  ASSUME SlotInv, AnswerInv, NEW p \in Posts, Store(p), PostShape'
  PROVE  AnswerInv'
<1>1. PICK d \in post[p].got :
        LET ref == Ref(d, d.msgs[post[p].next]) IN
        \/ UNCHANGED inbox
        \/ inbox' = Append(inbox, ref)
  BY DEF Store
<1>2. UNCHANGED <<slots, chat, poll, replies>>
  BY DEF Store
<1>3. CASE UNCHANGED inbox
  BY <1>2, <1>3, NothingAnswered
<1>4. CASE inbox' = Append(inbox, Ref(d, d.msgs[post[p].next]))
  <2> DEFINE ref == Ref(d, d.msgs[post[p].next])
  <2>1. DOMAIN ref = RowFields /\ ref.at = "pending"
    BY RefShaped
  <2>2. inbox' = Append(inbox, ref)
    BY <1>4
  <2> HIDE DEF ref
  <2>3. /\ DOMAIN inbox \subseteq DOMAIN inbox'
        /\ \A i \in DOMAIN inbox : inbox'[i] = inbox[i]
        /\ \A i \in DOMAIN inbox' : i \notin DOMAIN inbox => inbox'[i] = ref
    BY <1>2, <2>1, <2>2, AddsRow
  <2>4. \A i \in DOMAIN inbox' : inbox'[i].at = "done" =>
          i \in DOMAIN inbox /\ inbox[i].at = "done"
    BY <2>1, <2>3
  <2> QED
    BY <1>2, <2>3, <2>4, AnswersStay
<1> QED
  BY <1>1, <1>3, <1>4
-----------------------------------------------------------------------------
(* Every step, and what the whole invariant says.                           *)
EntryInv == SlotInv /\ GateInv /\ PostInv /\ KeptInv /\ AnswerInv

LEMMA EntryStarts == EntryInit => EntryInv
<1> SUFFICES ASSUME EntryInit
             PROVE  EntryInv
  OBVIOUS
<1> USE DEF EntryInit, NothingHeld
<1>1. InboxShape /\ inbox = <<>> /\ DOMAIN inbox = {}
  BY DEF InboxShape
<1>2. PollShape
  BY FS_EmptySet DEF PollShape, IdleWorker
<1>3. ChatShape /\ PostShape
  BY DEF ChatShape, PostShape, NoAsk, NoPost, AskFields, PostFields
<1>4. Running = {} /\ GateInv
  BY DEF Running, GateInv, Passed, NoAsk
<1>5. SlotsAreTrue
  <2>1. poll.reserved = 0 /\ poll.rows = {}
    BY IdleShaped
  <2>2. slots = Cardinality(Running) + poll.reserved + Cardinality(poll.rows)
    BY <1>4, <2>1, FS_EmptySet
  <2> QED
    BY <1>1, <2>2, EntryAssumption DEF SlotsAreTrue, Running
<1>6. PostInv /\ KeptInv /\ AnswerInv
  BY <1>1 DEF PostInv, Given, NoPost, KeptInv, KeptOnce, AnswerInv
<1>7. RowsLeased
  BY IdleShaped DEF RowsLeased
<1> QED
  BY <1>1, <1>2, <1>3, <1>4, <1>5, <1>6, <1>7 DEF EntryInv, SlotInv, Shape

LEMMA ChatStepKeeps ==
  ASSUME EntryInv, NEW c \in Chats,
         \/ Request(c) \/ Resolve(c) \/ Admit(c)
         \/ WaitedTooLong(c) \/ Reply(c) \/ Drop(c)
  PROVE  EntryInv'
<1> USE DEF EntryInv
<1>1. SlotInv' /\ GateInv'
  BY RequestKeeps, RequestGates, ResolveKeeps, AdmitKeeps, WaitedTooLongKeeps, ReplyKeeps,
     DropKeeps DEF SlotInv, Shape
<1>2. UNCHANGED <<post, inbox, replies>>
  BY DEF Request, Resolve, Admit, WaitedTooLong, Reply, Drop
<1>3. PostInv' /\ KeptInv' /\ AnswerInv'
  BY <1>2, SameRows, NothingAnswered
<1> QED
  BY <1>1, <1>3

LEMMA EntryStays == EntryInv /\ [EntryStep]_entryVars => EntryInv'
<1> SUFFICES ASSUME EntryInv, [EntryStep]_entryVars
             PROVE  EntryInv'
  OBVIOUS
<1> USE DEF EntryInv
<1>1. ASSUME UNCHANGED chat
      PROVE  GateInv'
  BY <1>1 DEF GateInv
<1>2. CASE \E c \in Chats : \/ Request(c) \/ Resolve(c) \/ Admit(c)
                            \/ WaitedTooLong(c) \/ Reply(c) \/ Drop(c)
  BY <1>2, ChatStepKeeps
<1>3. CASE \E p \in Posts : Receive(p) \/ Store(p) \/ Redeliver(p)
  <2>1. PICK p \in Posts : Receive(p) \/ Store(p) \/ Redeliver(p)
    BY <1>3
  <2>2. UNCHANGED chat
    BY <2>1 DEF Receive, Store, Redeliver
  <2>3. UNCHANGED <<inbox, replies>> => AnswerInv'
    BY NothingAnswered
  <2>4. CASE Store(p)
    <3>1. PostShape'
      BY <2>4, StoreKeeps DEF SlotInv, Shape
    <3> QED
      BY <1>1, <2>2, <2>4, <3>1, StoreKeeps, StoreAnswers
  <2>5. CASE Receive(p) \/ Redeliver(p)
    BY <1>1, <2>2, <2>3, <2>5, ReceiveKeeps, RedeliverKeeps DEF Receive, Redeliver
  <2> QED
    BY <2>1, <2>4, <2>5
<1>4. CASE Reserve
  <2>1. UNCHANGED <<chat, post, inbox, replies>>
    BY <1>4 DEF Reserve
  <2> QED
    BY <1>1, <1>4, <2>1, ReserveKeeps, SameRows, NothingAnswered
<1>5. CASE Claim
  <2>1. UNCHANGED chat
    BY <1>5 DEF Claim
  <2> QED
    BY <1>1, <1>5, <2>1, ClaimKeeps
<1>6. CASE \E i \in poll.rows : NoTurn(i) \/ Replay(i) \/ RunTurn(i) \/ TurnFails(i)
  <2>1. PICK i \in poll.rows : NoTurn(i) \/ Replay(i) \/ RunTurn(i) \/ TurnFails(i)
    BY <1>6
  <2>2. UNCHANGED chat
    BY <2>1 DEF NoTurn, Replay, RunTurn, TurnFails, RowEnds
  <2> QED
    BY <1>1, <2>1, <2>2, NoTurnKeeps, ReplayKeeps, RunTurnKeeps, TurnFailsKeeps
<1>7. CASE UNCHANGED entryVars
  <2>1. UNCHANGED <<slots, chat, post, inbox, poll, replies>>
    BY <1>7 DEF entryVars
  <2>2. SlotInv'
    BY <2>1 DEF SlotInv, Shape, ChatShape, PostShape, InboxShape, PollShape, SlotsAreTrue,
                RowsLeased
  <2> QED
    BY <1>1, <2>1, <2>2, SameRows, NothingAnswered
<1> QED
  BY <1>2, <1>3, <1>4, <1>5, <1>6, <1>7 DEF EntryStep

LEMMA EntryInvariant == EntrySpec => []EntryInv
  BY EntryStarts, EntryStays, PTL DEF EntrySpec
-----------------------------------------------------------------------------
(* What a refusal of 0 says: that every check passes.                       *)
LEMMA NothingRefuses ==
  ASSUME NEW checks, DOMAIN checks \subseteq Nat, FirstRefusal(checks) = 0,
         \A i \in DOMAIN checks : checks[i][2] # 0
  PROVE  \A i \in DOMAIN checks : checks[i][1]
<1> DEFINE failing == {i \in DOMAIN checks : ~checks[i][1]}
<1>1. failing = {}
  <2> SUFFICES ASSUME failing # {} PROVE FALSE
    OBVIOUS
  <2>1. Min(failing) \in failing
    BY FirstIs
  <2> QED
    BY <2>1 DEF FirstRefusal
<1> QED
  BY <1>1

LEMMA ChatPasses ==
  ASSUME NEW q, Refusal(q) = 0
  PROVE  Bearer(q) /\ BodyFits(q.body) /\ q.parses /\ ~q.stream /\ Served(q)
<1> DEFINE checks == << <<Bearer(q), 401>>, <<BodyFits(q.body), 413>>, <<q.parses, 500>>,
                        <<~q.stream, 400>>, <<Served(q), 404>> >>
<1>1. DOMAIN checks = 1..5 /\ \A i \in 1..5 : checks[i][2] # 0
  OBVIOUS
<1>2. FirstRefusal(checks) = 0
  BY DEF Refusal
<1>3. /\ (checks[1][1] <=> Bearer(q)) /\ (checks[2][1] <=> BodyFits(q.body))
      /\ (checks[3][1] <=> q.parses) /\ (checks[4][1] <=> ~q.stream)
      /\ (checks[5][1] <=> Served(q))
  OBVIOUS
<1> HIDE DEF checks
<1>4. \A i \in 1..5 : checks[i][1]
  BY <1>1, <1>2, NothingRefuses
<1>5. checks[1][1] /\ checks[2][1] /\ checks[3][1] /\ checks[4][1] /\ checks[5][1]
  BY <1>4
<1> QED
  BY <1>3, <1>5

LEMMA DeliveryPasses ==
  ASSUME NEW d, DeliveryRefusal(d) = 0
  PROVE  ChannelOf(d) \in Channels /\ BodyFits(d.body) /\ d.signed
<1> DEFINE checks == << <<ChannelOf(d) \in Channels, 404>>, <<BodyFits(d.body), 413>>,
                        <<d.signed, 403>> >>
<1>1. DOMAIN checks = 1..3 /\ \A i \in 1..3 : checks[i][2] # 0
  OBVIOUS
<1>2. FirstRefusal(checks) = 0
  BY DEF DeliveryRefusal
<1>3. /\ (checks[1][1] <=> ChannelOf(d) \in Channels) /\ (checks[2][1] <=> BodyFits(d.body))
      /\ (checks[3][1] <=> d.signed)
  OBVIOUS
<1> HIDE DEF checks
<1>4. \A i \in 1..3 : checks[i][1]
  BY <1>1, <1>2, NothingRefuses
<1>5. checks[1][1] /\ checks[2][1] /\ checks[3][1]
  BY <1>4
<1> QED
  BY <1>3, <1>5

-----------------------------------------------------------------------------
(* What the invariant says of the inbox, the replies and the requests.      *)
LEMMA ScopedOnce ==
  ASSUME NEW c, NEW k, NEW e, NEW j
  PROVE  /\ Scoped(c, k) = Scoped(e, j) => c = e /\ k = j
         /\ Native(Scoped(c, k)) = k
<1>1. Len(<<k>>) = 1 /\ <<k>>[1] = k /\ Len(<<j>>) = 1 /\ <<j>>[1] = j
  OBVIOUS
<1>2. /\ Len(<<c, k>>) = 2 /\ <<c, k>>[1] = c /\ <<c, k>>[2] = k
      /\ Len(<<e, j>>) = 2 /\ <<e, j>>[1] = e /\ <<e, j>>[2] = j
  OBVIOUS
<1>3. Native(Scoped(c, k)) = k
  BY <1>1, <1>2 DEF Native, Scoped, Last
<1>4. Scoped(c, k) = Scoped(e, j) => c = e /\ k = j
  BY <1>1, <1>2 DEF Scoped
<1> QED
  BY <1>3, <1>4

(* Where a row is from.                                                     *)
LEMMA RowIs ==
  ASSUME KeptInv, NEW i \in DOMAIN inbox
  PROVE  \E p \in Posts : \E d \in Deliveries[p] : \E k \in FoundIn(d) :
           /\ post[p].got = {d} /\ DeliveryRefusal(d) = 0 /\ Written(inbox[i], d, k)
           /\ k \in DOMAIN d.msgs /\ k \in Nat /\ DOMAIN d.msgs \subseteq Nat
           /\ d.msgs[k] \in Range(d.msgs) /\ d \in Payloads
           /\ Native(inbox[i].key) = d.msgs[k].id
           /\ Native(inbox[i].conv) = Conversation(d.msgs[k])
<1>1. PICK p \in Posts : \E d \in Deliveries[p] :
        /\ post[p].got = {d} /\ DeliveryRefusal(d) = 0
        /\ \E k \in FoundIn(d) : Written(inbox[i], d, k)
  BY DEF KeptInv, CameIn
<1>2. PICK d \in Deliveries[p] :
        /\ post[p].got = {d} /\ DeliveryRefusal(d) = 0
        /\ \E k \in FoundIn(d) : Written(inbox[i], d, k)
  BY <1>1
<1>3. PICK k \in FoundIn(d) : Written(inbox[i], d, k)
  BY <1>2
<1>4. k \in DOMAIN d.msgs /\ k \in Nat /\ DOMAIN d.msgs \subseteq Nat
  BY Places
<1>5. d.msgs[k] \in Range(d.msgs) /\ d \in Payloads
  BY <1>4 DEF Range, Payloads
<1>6. /\ Native(inbox[i].key) = d.msgs[k].id
      /\ Native(inbox[i].conv) = Conversation(d.msgs[k])
  BY <1>3, ScopedOnce DEF Written, KeyOf
<1> QED
  BY <1>2, <1>3, <1>4, <1>5, <1>6

LEMMA AckedKept == EntryInv => AckedIsKept
<1> SUFFICES ASSUME EntryInv, NEW p \in Posts, post[p].at = "ended", post[p].status = 200,
                    NEW d \in post[p].got, d.parses, NEW m \in Range(d.msgs), m.id # NoName
             PROVE  \E i \in DOMAIN inbox :
                      inbox[i].channel = ChannelOf(d) /\ Native(inbox[i].key) = m.id
  BY DEF AckedIsKept
<1>1. d \in Deliveries[p] /\ KeptWhole(d)
  BY DEF EntryInv, PostInv, Given
<1>2. PICK k \in DOMAIN d.msgs : m = d.msgs[k]
  BY DEF Range
<1>3. k \in FoundIn(d)
  BY <1>1, <1>2, Places
<1>4. PICK i \in DOMAIN inbox : inbox[i].key = Scoped(ChannelOf(d), m.id)
  BY <1>1, <1>2, <1>3 DEF KeptWhole, InInbox, KeyOf
<1>5. PICK e, j : inbox[i].channel = ChannelOf(e) /\ inbox[i].key = Scoped(ChannelOf(e), j)
  BY RowIs DEF EntryInv, Written, KeyOf
<1>6. Scoped(ChannelOf(e), j) = Scoped(ChannelOf(d), m.id)
  BY <1>4, <1>5
<1>7. ChannelOf(e) = ChannelOf(d)
  BY <1>6, ScopedOnce
<1>8. Native(inbox[i].key) = m.id
  BY <1>4, ScopedOnce
<1> QED
  BY <1>5, <1>7, <1>8

LEMMA GenuineKept == EntryInv => KeptOnce /\ KeptIsGenuine
<1> SUFFICES ASSUME EntryInv, NEW i \in DOMAIN inbox
             PROVE  KeptOnce /\ \E p \in Posts : \E d \in post[p].got :
                      /\ d.signed /\ Total(d.body.chunks) <= MaxBody
                      /\ ChannelOf(d) \in Channels
                      /\ ChannelOf(d) = inbox[i].channel /\ d.msgs = inbox[i].env
  BY DEF KeptIsGenuine, EntryInv, KeptInv
<1>1. PICK p \in Posts :
        \E d : /\ post[p].got = {d} /\ DeliveryRefusal(d) = 0
              /\ ChannelOf(d) = inbox[i].channel /\ d.msgs = inbox[i].env
  BY RowIs DEF EntryInv, Written
<1>a. PICK d : /\ post[p].got = {d} /\ DeliveryRefusal(d) = 0
               /\ ChannelOf(d) = inbox[i].channel /\ d.msgs = inbox[i].env
  BY <1>1
<1>2. ChannelOf(d) \in Channels /\ Total(d.body.chunks) <= MaxBody /\ d.signed
  BY <1>a, DeliveryPasses DEF BodyFits
<1> QED
  BY <1>a, <1>2 DEF EntryInv, KeptInv

LEMMA ConversationsAreOwn == EntryInv => OwnConversation
<1> SUFFICES ASSUME EntryInv, NEW i \in DOMAIN inbox, NEW j \in DOMAIN inbox, i # j,
                    inbox[i].conv = inbox[j].conv
             PROVE  \E m \in Range(inbox[i].env) :
                      Native(inbox[i].conv) = m.from /\ m.from # NoName
  BY DEF OwnConversation
<1>1. PICK d, k : /\ Written(inbox[i], d, k) /\ d.msgs[k] \in Range(d.msgs)
                  /\ d \in Payloads /\ Native(inbox[i].conv) = Conversation(d.msgs[k])
  BY RowIs DEF EntryInv
<1>2. PICK e, l : /\ Written(inbox[j], e, l) /\ e.msgs[l] \in Range(e.msgs)
                  /\ e \in Payloads
  BY RowIs DEF EntryInv
<1> DEFINE m == d.msgs[k]
           n == e.msgs[l]
<1>3. ChannelOf(d) = ChannelOf(e) /\ Conversation(m) = Conversation(n)
  <2>1. Scoped(ChannelOf(d), Conversation(m)) = Scoped(ChannelOf(e), Conversation(n))
    BY <1>1, <1>2 DEF Written
  <2> QED
    BY <2>1, ScopedOnce
<1>4. m.id # n.id
  <2>1. m.id = n.id => inbox[i].key = inbox[j].key
    BY <1>1, <1>2, <1>3 DEF Written, KeyOf
  <2> QED
    BY <2>1 DEF EntryInv, KeptInv, KeptOnce
<1>5. n.from # <<"unresolved", m.id>>
  BY <1>1, <1>2, DeliveriesAssumption
<1>6. <<"unresolved", m.id>> # <<"unresolved", n.id>>
  BY <1>4
<1>7. m.from # NoName
  <2> HIDE DEF m, n
  <2> QED
    BY <1>3, <1>5, <1>6 DEF Conversation
<1>8. Native(inbox[i].conv) = m.from /\ inbox[i].env = d.msgs
  BY <1>1, <1>7 DEF Conversation, Written
<1> QED
  BY <1>1, <1>7, <1>8

LEMMA AnswersAreOwn == EntryInv => TurnsAreOwn
<1> SUFFICES ASSUME EntryInv
             PROVE  TurnsAreOwn
  OBVIOUS
<1>1. ASSUME NEW i \in DOMAIN inbox
      PROVE  \E k \in DOMAIN inbox[i].env :
               /\ inbox[i].env[k].id = Native(inbox[i].key)
               /\ \A j \in DOMAIN inbox[i].env : inbox[i].env[j].id = inbox[i].env[k].id => k <= j
               /\ Extracted(inbox[i]) = inbox[i].env[k] /\ Sought(inbox[i]) # {}
               /\ Native(inbox[i].conv) = Conversation(inbox[i].env[k])
  <2>1. PICK d, k : /\ Written(inbox[i], d, k) /\ k \in DOMAIN d.msgs /\ k \in Nat
                    /\ DOMAIN d.msgs \subseteq Nat
                    /\ Native(inbox[i].key) = d.msgs[k].id
                    /\ Native(inbox[i].conv) = Conversation(d.msgs[k])
    BY RowIs DEF EntryInv
  <2> DEFINE S == Sought(inbox[i])
  <2>2. /\ inbox[i].env = d.msgs /\ k \in S /\ S \subseteq Nat
        /\ \A j \in DOMAIN d.msgs : d.msgs[j].id = d.msgs[k].id => k <= j
        /\ \A j \in S : j \in DOMAIN d.msgs /\ d.msgs[j].id = d.msgs[k].id
    BY <2>1 DEF Written, Sought
  <2> HIDE DEF S
  <2>3. Min(S) = k
    <3>1. Min(S) \in S /\ \A y \in S : Min(S) <= y
      BY <2>2, FirstIs
    <3>2. Min(S) \in Nat /\ Min(S) <= k /\ k <= Min(S)
      BY <2>1, <2>2, <3>1
    <3> QED
      BY <2>1, <3>2
  <2>4. Extracted(inbox[i]) = inbox[i].env[k] /\ Sought(inbox[i]) # {}
    BY <2>2, <2>3 DEF Extracted, S
  <2> QED
    BY <2>1, <2>2, <2>4
<1>2. ASSUME NEW i \in DOMAIN inbox, inbox[i].at = "done"
      PROVE  \E k \in DOMAIN inbox[i].env : LET m == inbox[i].env[k] IN
               /\ m.id = Native(inbox[i].key)
               /\ \A j \in DOMAIN inbox[i].env : inbox[i].env[j].id = m.id => k <= j
               /\ m.text /\ m.from # NoName /\ Address[m.from] \in Accounts =>
                    \E r \in replies : r.row = i
  <2>1. PICK k \in DOMAIN inbox[i].env :
          /\ inbox[i].env[k].id = Native(inbox[i].key)
          /\ \A j \in DOMAIN inbox[i].env : inbox[i].env[j].id = inbox[i].env[k].id => k <= j
          /\ Extracted(inbox[i]) = inbox[i].env[k] /\ Sought(inbox[i]) # {}
    BY <1>1
  <2>2. Owed(inbox[i]) => \E r \in replies : r.row = i
    BY <1>2 DEF EntryInv, AnswerInv
  <2> QED
    BY <2>1, <2>2 DEF Owed, HasTurn, AddressOf
<1>3. ASSUME NEW r \in replies
      PROVE  r.to = Address[Native(inbox[r.row].conv)]
  <2>1. /\ r.row \in DOMAIN inbox /\ HasTurn(inbox[r.row])
        /\ r.to = AddressOf(inbox[r.row])
    BY DEF EntryInv, AnswerInv, ReplyFits
  <2>2. PICK m : /\ Extracted(inbox[r.row]) = m
                 /\ Native(inbox[r.row].conv) = Conversation(m)
    BY <1>1, <2>1
  <2> QED
    BY <2>1, <2>2 DEF HasTurn, AddressOf, Conversation
<1>4. \A q, r \in replies : q.row = r.row => q = r
  BY DEF EntryInv, AnswerInv
<1> QED
  BY <1>2, <1>3, <1>4 DEF TurnsAreOwn

LEMMA ChatsLetIn == EntryInv => LetIn /\ BringsNoOrders
<1> SUFFICES ASSUME EntryInv, NEW c \in Chats, chat[c].at \in {"waiting", "running"}
             PROVE  /\ \A q \in chat[c].asked :
                         q.key # "wrong" /\ Total(q.body.chunks) <= MaxBody
                         /\ q.model \in Exposed /\ q.user \notin {"fails", "inactive"}
                    /\ \A m \in chat[c].input :
                         m.role # "system" /\ ~(m.role = "assistant" /\ m.blank)
  BY DEF LetIn, BringsNoOrders
<1>1. PICK q : chat[c].asked = {q} /\ Refusal(q) = 0 /\ Entitled(q)
  BY DEF EntryInv, GateInv, Passed
<1>2. Bearer(q) /\ BodyFits(q.body) /\ Served(q)
  BY <1>1, ChatPasses
<1>3. \A m \in chat[c].input : Keeps(m)
  BY DEF EntryInv, GateInv, Passed
<1> QED
  BY <1>1, <1>2, <1>3 DEF Bearer, BodyFits, Served, Entitled, Keeps, HasText
-----------------------------------------------------------------------------
(* For any requests, deliveries and limits, the limiter's count is the      *)
(* turns that run and the rows the worker holds, never more than            *)
(* max_concurrent_turns: TurnAdmissionLimiter's slots neither leak nor      *)
(* serve two, though a claim's acknowledgement be lost, a turn fail or its  *)
(* failure stay unrecorded and the row leased behind it.                    *)
THEOREM SlotsAreCounted == EntrySpec => []SlotsAreTrue
<1>1. EntryInv => SlotsAreTrue
  BY DEF EntryInv, SlotInv
<1> QED
  BY <1>1, EntryInvariant, PTL

(* For any deliveries however often repeated and any chat requests: what    *)
(* _receive acknowledged is in the inbox whole and once, and only from      *)
(* genuine deliveries; only senders share a conversation; each text a       *)
(* participant sent has its turn and one reply, to its sender, however      *)
(* often its row is claimed; and a chat request waits only once every check *)
(* has let it in, bringing no instructions.                                 *)
THEOREM BothEntriesAreTrue == EntrySpec => []EntriesAreTrue
<1>1. EntryInv => EntriesAreTrue
  BY AckedKept, GenuineKept, ConversationsAreOwn, AnswersAreOwn, ChatsLetIn
     DEF EntriesAreTrue
<1> QED
  BY <1>1, EntryInvariant, PTL

-----------------------------------------------------------------------------
(* An evaluated scenario.  Whoever held the process's sink before it holds  *)
(* it again once the scenario has ended, and each outcome is what its run's *)
(* own script and end are graded to.                                        *)

EvalSpec == EvalInit /\ [][EvalStep]_evalVars

ScenarioOver == {"returned", "raised"}

SinkInv ==
  /\ previous \in {"host", "none"}
  /\ stage = "given" => registered = previous /\ emitted = <<>> /\ captured = 0
  /\ stage \in ScenarioOver => registered = previous /\ captured = Len(emitted)

CutShort == {"raised", "timeout"}

GradedFrom(a, o) ==
  \/ o.end = "raised" /\ o.error = "raised" /\ ~o.exercised /\ ~o.passed
  \/ o.end = "timeout" /\ o.error = "timeout" /\ ~o.passed
     /\ (o.exercised <=> Forbidden(a, o.script))
  \/ o.end \notin CutShort /\ o.error = "none"
     /\ \E events : /\ o.passed <=> ~Fails(a, o.script, events, o.caps)
                    /\ o.exercised <=> Exercised(a, o.script, events, o.caps)

Listed(t) == \E S : t \in Seq(S)

OutcomesInv ==
  /\ Listed(script) /\ Listed(outcomes)
  /\ \A i \in DOMAIN outcomes : Listed(outcomes[i].script)
  /\ \A i \in DOMAIN outcomes : GradedFrom(scenario.asserts, outcomes[i])

EvalInv == SinkInv /\ OutcomesInv

LEMMA JoinSome ==
  ASSUME NEW S, NEW T, NEW s \in Seq(S), NEW t \in Seq(T)
  PROVE  s \o t \in Seq(S \cup T)
<1>1. s \in Seq(S \cup T) /\ t \in Seq(S \cup T)
  OBVIOUS
<1> QED
  BY <1>1

LEMMA GradedIs == GradedFrom(scenario.asserts, Graded) /\ Graded.script = script
<1> DEFINE a == scenario.asserts
<1>1. CASE ending = "raised"
  <2>1. Graded = Outcome(FALSE, "raised", FALSE)
    BY <1>1 DEF Graded
  <2> QED
    BY <1>1, <2>1 DEF GradedFrom, Outcome
<1>2. CASE ending = "timeout"
  <2>1. Graded = Outcome(FALSE, "timeout", Forbidden(a, script))
    BY <1>2 DEF Graded
  <2> QED
    BY <1>2, <2>1 DEF GradedFrom, Outcome
<1>3. CASE ending \notin CutShort
  <2>1. Graded = Outcome(~Fails(a, script, Seen, reached), "none",
                         Exercised(a, script, Seen, reached))
    BY <1>3 DEF Graded, CutShort
  <2> QED
    BY <1>3, <2>1 DEF GradedFrom, Outcome
<1> QED
  BY <1>1, <1>2, <1>3 DEF CutShort

LEMMA EvalStarts == EvalInit => EvalInv
<1>1. <<>> \in Seq({}) /\ DOMAIN <<>> = {}
  OBVIOUS
<1> QED
  BY <1>1 DEF EvalInit, EvalInv, SinkInv, OutcomesInv, ScenarioOver, Listed

LEMMA EvalStays == EvalInv /\ [EvalStep]_evalVars => EvalInv'
<1> SUFFICES ASSUME EvalInv, [EvalStep]_evalVars
             PROVE  EvalInv'
  OBVIOUS
<1>1. SinkInv'
  <2>1. CASE Borrow
    BY <2>1 DEF EvalInv, SinkInv, ScenarioOver, Borrow
  <2>2. CASE StartRun
    BY <2>2 DEF EvalInv, SinkInv, ScenarioOver, StartRun
  <2>3. CASE BuildFails
    BY <2>3 DEF EvalInv, SinkInv, ScenarioOver, BuildFails
  <2>4. CASE Turn
    BY <2>4 DEF EvalInv, SinkInv, ScenarioOver, Turn
  <2>5. CASE Flush
    BY <2>5 DEF EvalInv, SinkInv, ScenarioOver, Flush
  <2>6. CASE Settle
    BY <2>6 DEF EvalInv, SinkInv, ScenarioOver, Settle
  <2>7. CASE Grade
    BY <2>7 DEF EvalInv, SinkInv, ScenarioOver, Grade
  <2>8. CASE AllRun
    BY <2>8 DEF EvalInv, SinkInv, ScenarioOver, AllRun
  <2>9. CASE Close
    BY <2>9 DEF EvalInv, SinkInv, ScenarioOver, Close, Restored
  <2>10. CASE UNCHANGED evalVars
    BY <2>10 DEF EvalInv, SinkInv, evalVars
  <2> QED
    BY <2>1, <2>2, <2>3, <2>4, <2>5, <2>6, <2>7, <2>8, <2>9, <2>10 DEF EvalStep
<1>2. OutcomesInv'
  <2> USE DEF EvalInv, OutcomesInv
  <2>1. CASE Grade
    <3>1. PICK S : outcomes \in Seq(S)
      BY DEF Listed
    <3>2. outcomes' = Append(outcomes, Graded) /\ scenario' = scenario /\ script' = script
      BY <2>1 DEF Grade
    <3>3. Listed(script') /\ Listed(outcomes')
      BY <3>1, <3>2, AppendSome DEF Listed
    <3>4. ASSUME NEW i \in DOMAIN outcomes'
          PROVE  Listed(outcomes'[i].script) /\ GradedFrom(scenario'.asserts, outcomes'[i])
      <4>1. CASE i = Len(outcomes) + 1
        BY <3>1, <3>2, <4>1, AppendSome, GradedIs
      <4>2. CASE i # Len(outcomes) + 1
        <5>1. i \in DOMAIN outcomes
          BY <3>1, <3>2, <4>2, AppendSome, SomeSeq
        <5>2. outcomes'[i] = outcomes[i]
          BY <3>1, <3>2, <5>1, AppendSome
        <5> QED
          BY <3>2, <5>1, <5>2
      <4> QED
        BY <4>1, <4>2
    <3> QED
      BY <3>3, <3>4
  <2>2. CASE StartRun
    <3>1. <<>> \in Seq({})
      OBVIOUS
    <3> QED
      BY <2>2, <3>1 DEF StartRun, Listed
  <2>3. CASE Turn
    <3>1. PICK t \in Turns : script' = IF t.end = "raised" THEN script ELSE script \o t.calls
      BY <2>3 DEF Turn
    <3>2. PICK S : script \in Seq(S)
      BY DEF Listed
    <3>3. PICK T : t.calls \in Seq(T)
      BY EvalAssumption DEF IsList
    <3>4. script \o t.calls \in Seq(S \cup T)
      BY <3>2, <3>3, JoinSome
    <3> QED
      BY <2>3, <3>1, <3>4 DEF Turn, Listed
  <2>4. CASE UNCHANGED <<outcomes, scenario, script>>
    BY <2>4
  <2>5. Grade \/ StartRun \/ Turn \/ UNCHANGED <<outcomes, scenario, script>>
    BY DEF EvalStep, evalVars, Borrow, BuildFails, Flush, Settle, AllRun, Close
  <2> QED
    BY <2>1, <2>2, <2>3, <2>4, <2>5
<1> QED
  BY <1>1, <1>2 DEF EvalInv

LEMMA EvalInvariant == EvalSpec => []EvalInv
  BY EvalStarts, EvalStays, PTL DEF EvalSpec

(* The last call of an id exists, for a script is finite.                   *)
LEMMA BearerIn ==
  ASSUME NEW S, NEW t \in Seq(S), NEW k \in DOMAIN t
  PROVE  BearerOf(t, t[k].id) \in DOMAIN t /\ t[BearerOf(t, t[k].id)].id = t[k].id
<1> DEFINE P == {Len(t) - i : i \in {j \in DOMAIN t : t[j].id = t[k].id}}
<1>1. P \subseteq Nat /\ P # {}
  <2>1. DOMAIN t = 1..Len(t) /\ Len(t) \in Nat
    OBVIOUS
  <2> QED
    BY <2>1
<1>2. PICK n \in P : \A m \in P : n <= m
  BY <1>1, LeastIs
<1>3. PICK i \in DOMAIN t : t[i].id = t[k].id /\ n = Len(t) - i
  BY <1>2
<1>4. \A j \in DOMAIN t : t[j].id = t[k].id => j <= i
  <2> SUFFICES ASSUME NEW j \in DOMAIN t, t[j].id = t[k].id
               PROVE  j <= i
    OBVIOUS
  <2>1. Len(t) - j \in P
    OBVIOUS
  <2>2. Len(t) - i <= Len(t) - j
    BY <1>2, <1>3, <2>1
  <2>3. i \in Nat /\ j \in Nat /\ Len(t) \in Nat
    OBVIOUS
  <2> HIDE DEF P
  <2> QED
    BY <2>2, <2>3
<1> QED
  BY <1>3, <1>4 DEF BearerOf

LEMMA BlockedCalled ==
  ASSUME NEW t, Listed(t)
  PROVE  Blocked(t) \subseteq Called(t)
<1>1. \A k \in DOMAIN t : BearerOf(t, t[k].id) \in DOMAIN t
  BY BearerIn DEF Listed
<1> QED
  BY <1>1 DEF Blocked, Called

(* With one tool to an id, a tool that got through is not a blocked one.    *)
LEMMA ThroughNotBlocked ==
  ASSUME NEW t, Listed(t), OneToolPerId(t), NEW tool, GotThrough(t, tool)
  PROVE  tool \notin Blocked(t) /\ tool \in Called(t)
<1>1. \A k \in DOMAIN t : /\ BearerOf(t, t[k].id) \in DOMAIN t
                          /\ t[BearerOf(t, t[k].id)].tool = t[k].tool
  BY BearerIn DEF Listed, OneToolPerId
<1>2. tool \notin Blocked(t)
  BY <1>1 DEF Blocked, GotThrough
<1> QED
  BY <1>2 DEF GotThrough, Called

(* A run whose tool calls can break the guardrail is one it was tried in,   *)
(* and fails.                                                               *)
LEMMA BrokenCounts ==
  ASSUME NEW a, NEW o, Listed(o.script), GradedFrom(a, o), a.exercisedBy = {},
         o.end # "raised", Broken(a, o)
  PROVE  o.exercised /\ ~o.passed
<1> DEFINE t == o.script
<1>1. CASE o.end = "timeout"
  <2>1. Forbidden(a, t)
    BY <1>1 DEF Broken
  <2>2. o.exercised <=> Forbidden(a, o.script)
    BY <1>1 DEF GradedFrom, CutShort
  <2>3. ~o.passed
    BY <1>1 DEF GradedFrom, CutShort
  <2> QED
    BY <2>1, <2>2, <2>3
<1>2. CASE o.end # "timeout"
  <2>1. PICK events : /\ o.passed <=> ~Fails(a, o.script, events, o.caps)
                      /\ o.exercised <=> Exercised(a, o.script, events, o.caps)
    BY <1>2 DEF GradedFrom, CutShort
  <2>2. CASE Forbidden(a, t)
    <3>1. Fails(a, t, events, o.caps)
      BY <2>2 DEF Fails
    <3>2. Succeeded(t) \subseteq Called(t)
      BY DEF Succeeded, Called
    <3>3. \/ (a.notCalled \cup a.notExecuted) \cap Called(t) # {}
          \/ a.escalation = "no" /\ Notifier \in Called(t)
      BY <2>2, <3>2 DEF Forbidden
    <3>4. Signalled(a, t, events, o.caps)
      BY <3>3 DEF Signalled
    <3>5. Exercised(a, t, events, o.caps)
      BY <3>4 DEF Exercised
    <3> QED
      BY <2>1, <3>1, <3>5
  <2>3. CASE ~Forbidden(a, t)
    <3>1. PICK tool \in a.blocked : OneToolPerId(t) /\ GotThrough(t, tool)
      BY <2>3 DEF Broken
    <3>2. tool \notin Blocked(t) /\ tool \in Called(t)
      BY <3>1, ThroughNotBlocked
    <3>3. Fails(a, t, events, o.caps)
      BY <3>2 DEF Fails
    <3>4. Signalled(a, t, events, o.caps)
      BY <3>2 DEF Signalled
    <3>5. Exercised(a, t, events, o.caps)
      BY <3>4 DEF Exercised
    <3> QED
      BY <2>1, <3>3, <3>5
  <2> QED
    BY <2>2, <2>3
<1> QED
  BY <1>1, <1>2

(* A run the guardrail was tried in and held has called one of the tools    *)
(* the scenario is about.                                                   *)
LEMMA HeldIsAbout ==
  ASSUME NEW a, NEW o, Listed(o.script), GradedFrom(a, o), About(a) # {}, o.exercised, o.passed
  PROVE  Called(o.script) \cap About(a) # {}
<1> DEFINE t == o.script
<1>1. PICK events : /\ o.passed <=> ~Fails(a, o.script, events, o.caps)
                    /\ o.exercised <=> Exercised(a, o.script, events, o.caps)
  BY DEF GradedFrom
<1>2. ~Fails(a, t, events, o.caps) /\ Exercised(a, t, events, o.caps)
  BY <1>1
<1>3. CASE a.exercisedBy # {}
  BY <1>2, <1>3 DEF Exercised, About
<1>4. CASE a.exercisedBy = {}
  <2>1. About(a) = a.blocked \cup a.notExecuted \cup IF OnlyNames(a) THEN a.notCalled ELSE {}
    BY <1>4 DEF About
  <2>2. a.blocked \cup a.notExecuted \subseteq Called(t)
    BY <1>2, BlockedCalled DEF Fails
  <2>3. CASE a.blocked \cup a.notExecuted # {}
    BY <2>1, <2>2, <2>3
  <2>4. CASE a.blocked \cup a.notExecuted = {}
    <3>1. OnlyNames(a) /\ a.notCalled # {}
      BY <2>1, <2>4
    <3>2. Declared(a)
      BY <3>1 DEF Declared
    <3>3. Signalled(a, t, events, o.caps)
      BY <1>2, <1>4, <3>2 DEF Exercised
    <3>4. a.notCalled \cap Called(t) # {}
      BY <2>4, <3>1, <3>3 DEF Signalled, OnlyNames
    <3> QED
      BY <1>2, <3>4 DEF Fails, Forbidden
  <2> QED
    BY <2>3, <2>4
<1> QED
  BY <1>3, <1>4

(* ... and reached every cap the scenario asks for.                         *)
LEMMA HeldHasReached ==
  ASSUME NEW a, NEW o, GradedFrom(a, o), o.passed
  PROVE  Demanded(a) \subseteq o.caps
<1>1. PICK events : o.passed <=> ~Fails(a, o.script, events, o.caps)
  BY DEF GradedFrom
<1>2. ~Fails(a, o.script, events, o.caps)
  BY <1>1
<1>3. /\ a.limit = "yes" => "limit" \in o.caps
      /\ a.errors = "yes" => "errors" \in o.caps
  BY <1>2 DEF Fails
<1> QED
  BY <1>3 DEF Demanded, Caps

LEMMA RestCounted ==
  ASSUME NEW D, IsFiniteSet(D), NEW W \in SUBSET D
  PROVE  Cardinality(D \ W) = Cardinality(D) - Cardinality(W)
<1>1. D \cap W = W
  OBVIOUS
<1>2. Cardinality(D \ W) = Cardinality(D) - Cardinality(D \cap W)
  BY FS_Difference
<1> QED
  BY <1>1, <1>2

LEMMA CrashesAreFewer ==
  ASSUME NEW a, NEW S, NEW os \in Seq(S), CompletedEnough(os),
         \A i \in DOMAIN os : GradedFrom(a, os[i])
  PROVE  2 * Cardinality({i \in DOMAIN os : os[i].end \in CutShort}) <= Len(os)
<1> DEFINE cut == {i \in DOMAIN os : os[i].end \in CutShort}
           whole == {i \in DOMAIN os : os[i].error = "none"}
<1>1. DOMAIN os = 1..Len(os) /\ Len(os) \in Nat
  BY SomeSeq
<1>2. IsFiniteSet(DOMAIN os) /\ Cardinality(DOMAIN os) = Len(os)
  BY <1>1, FS_Interval
<1>3. \A i \in DOMAIN os : os[i].error = "none" <=> os[i].end \notin CutShort
  BY DEF GradedFrom, CutShort
<1>4. cut = DOMAIN os \ whole
  BY <1>3
<1>5. whole \subseteq DOMAIN os
  OBVIOUS
<1>6. 2 * Cardinality(whole) >= Len(os)
  BY DEF CompletedEnough
<1> HIDE DEF cut, whole
<1>7. IsFiniteSet(whole) /\ Cardinality(whole) \in Nat
  BY <1>2, <1>5, FS_Subset, FS_CardinalityType
<1>8. Cardinality(DOMAIN os \ whole) = Cardinality(DOMAIN os) - Cardinality(whole)
  BY <1>2, <1>5, RestCounted
<1>9. Cardinality(cut) = Cardinality(DOMAIN os) - Cardinality(whole)
  BY <1>4, <1>8
<1>10. 2 * Cardinality(cut) <= Len(os)
  BY <1>1, <1>2, <1>6, <1>7, <1>9
<1> QED
  BY <1>10 DEF cut

LEMMA InvProves == EvalInv => EvalIsHonest
<1> SUFFICES ASSUME EvalInv
             PROVE  EvalIsHonest
  OBVIOUS
<1>1. SinkHandedBack
  BY DEF EvalInv, SinkInv, SinkHandedBack, ScenarioOver
<1>2. GuardrailProves
  <2> SUFFICES ASSUME scenario.category = "guardrail", Gate(scenario, outcomes)
               PROVE  LET a == scenario.asserts IN
                      /\ \E i \in DOMAIN outcomes :
                            /\ About(a) /= {} => Called(outcomes[i].script) \cap About(a) /= {}
                            /\ Demanded(a) \subseteq outcomes[i].caps
                      /\ a.exercisedBy = {} => \A i \in DOMAIN outcomes :
                                    outcomes[i].end /= "raised" => ~Broken(a, outcomes[i])
                      /\ 2 * Cardinality({i \in DOMAIN outcomes :
                                             outcomes[i].end \in {"raised", "timeout"}})
                            <= Len(outcomes)
    BY DEF GuardrailProves
  <2> DEFINE a == scenario.asserts
  <2>1. /\ \E i \in DOMAIN outcomes : outcomes[i].exercised
        /\ CompletedEnough(outcomes)
        /\ \A i \in DOMAIN outcomes : outcomes[i].exercised => outcomes[i].passed
    BY DEF Gate, HeldAll
  <2>2. \A i \in DOMAIN outcomes : Listed(outcomes[i].script) /\ GradedFrom(a, outcomes[i])
    BY DEF EvalInv, OutcomesInv
  <2>3. \E i \in DOMAIN outcomes :
          /\ About(a) # {} => Called(outcomes[i].script) \cap About(a) # {}
          /\ Demanded(a) \subseteq outcomes[i].caps
    <3>1. PICK i \in DOMAIN outcomes : outcomes[i].exercised
      BY <2>1
    <3>2. outcomes[i].passed
      BY <2>1, <3>1
    <3>3. About(a) # {} => Called(outcomes[i].script) \cap About(a) # {}
      BY <2>2, <3>1, <3>2, HeldIsAbout
    <3>4. Demanded(a) \subseteq outcomes[i].caps
      BY <2>2, <3>2, HeldHasReached
    <3> QED
      BY <3>3, <3>4
  <2>4. ASSUME a.exercisedBy = {}, NEW i \in DOMAIN outcomes, outcomes[i].end # "raised"
        PROVE  ~Broken(a, outcomes[i])
    BY <2>1, <2>2, <2>4, BrokenCounts
  <2>5. PICK S : outcomes \in Seq(S)
    BY DEF EvalInv, OutcomesInv, Listed
  <2>6. 2 * Cardinality({i \in DOMAIN outcomes : outcomes[i].end \in CutShort}) <= Len(outcomes)
    BY <2>1, <2>2, <2>5, CrashesAreFewer
  <2> QED
    BY <2>3, <2>4, <2>6 DEF CutShort
<1> QED
  BY <1>1, <1>2 DEF EvalIsHonest

(* The gate over a scenario can be believed, whatever its runs do and       *)
(* however the process's events are flushed; its sink is handed back.       *)
THEOREM EvaluatedHonestly == EvalSpec => []EvalIsHonest
  BY EvalInvariant, InvProves, PTL

-----------------------------------------------------------------------------
(* A capability matrix.  Clients first: once every candidate is built none  *)
(* is in doubt, and before that a failure closes those built so far.        *)

MatrixSpec == MatrixInit /\ [][MatrixStep]_matrixVars

BuiltAll == {"selecting", "running", "tabulated"}

ClientsInv ==
  /\ matrix \in Matrices
  /\ built \in Nat /\ built <= Len(matrix.names)
  /\ progress \in BuiltAll \cup {"building", "raised"}
  /\ progress \in BuiltAll => built = Len(matrix.names)
  /\ progress = "raised" => built = Len(matrix.names) \/ EarlierClients \subseteq shut

LEMMA NamesListed ==
  ASSUME NEW m \in Matrices
  PROVE  m.names \in Seq(ToSet(m.names)) /\ Len(m.names) \in Nat
         /\ DOMAIN m.names = 1..Len(m.names)
<1>1. m.names \in Seq(ToSet(m.names))
  BY MatrixAssumption DEF IsList, ToSet
<1> QED
  BY <1>1, SomeSeq

ExportSteps == \E e \in DOMAIN Exports : CreateJson(e) \/ CreateTable(e) \/ Truncate(e) \/ ExportDies(e)

(* An export leaves the matrix as it is, and the matrix the exports.        *)
LEMMA ExportsApart ==
  /\ ExportSteps => UNCHANGED <<matrix, progress, built, shut, made, cells>>
                    /\ progress = "tabulated"
  /\ MatrixStep => ExportSteps \/ UNCHANGED <<files, export>>
<1>1. ExportSteps => UNCHANGED <<matrix, progress, built, shut, made, cells>>
                     /\ progress = "tabulated"
  BY DEF ExportSteps, CreateJson, CreateTable, Truncate, ExportDies, At
<1>2. MatrixStep => ExportSteps \/ UNCHANGED <<files, export>>
  BY DEF MatrixStep, ExportSteps, BuildCandidate, CandidateFails, CandidatesBuilt, SelectColumns,
         RunCase, CaseRaises, CellMade, SkipCell, Tabulated
<1> QED
  BY <1>1, <1>2

LEMMA ClientsStart == MatrixInit => ClientsInv
<1> SUFFICES ASSUME MatrixInit
             PROVE  ClientsInv
  OBVIOUS
<1>1. Len(matrix.names) \in Nat
  BY NamesListed DEF MatrixInit
<1> QED
  BY <1>1 DEF MatrixInit, ClientsInv, BuiltAll

LEMMA ClientsStay == ClientsInv /\ [MatrixStep]_matrixVars => ClientsInv'
<1> SUFFICES ASSUME ClientsInv, [MatrixStep]_matrixVars
             PROVE  ClientsInv'
  OBVIOUS
<1> USE DEF ClientsInv, BuiltAll
<1>1. Len(matrix.names) \in Nat
  BY NamesListed
<1>2. CASE BuildCandidate
  BY <1>1, <1>2 DEF BuildCandidate
<1>3. CASE CandidateFails
  <2>1. shut' = EarlierClients /\ EarlierClients' = EarlierClients
    BY <1>3 DEF CandidateFails, Tried, EarlierClients
  <2> QED
    BY <1>3, <2>1 DEF CandidateFails
<1>4. CASE UNCHANGED <<matrix, built>> /\ progress = "building" /\ built = Len(matrix.names)
           /\ progress' = "selecting"
  BY <1>4
<1>5. CASE UNCHANGED <<matrix, built>> /\ progress \in BuiltAll /\ progress' \in BuiltAll \cup {"raised"}
  BY <1>5
<1>6. CASE UNCHANGED <<matrix, built, shut, progress>>
  BY <1>6 DEF EarlierClients
<1>7. CASE ExportSteps
  BY <1>6, <1>7, ExportsApart
<1>8. CASE CandidatesBuilt
  BY <1>4, <1>8 DEF CandidatesBuilt
<1>9. CASE SelectColumns \/ CaseRaises \/ Tabulated
  BY <1>5, <1>9 DEF SelectColumns, CaseRaises, Tabulated
<1>10. CASE RunCase \/ CellMade \/ SkipCell
  BY <1>6, <1>10 DEF RunCase, CellMade, SkipCell
<1>11. CASE UNCHANGED matrixVars
  BY <1>6, <1>11 DEF matrixVars
<1> QED
  BY <1>2, <1>3, <1>7, <1>8, <1>9, <1>10, <1>11 DEF MatrixStep, ExportSteps

LEMMA NoneLeaks == ClientsInv => NoClientLeaks
<1> SUFFICES ASSUME ClientsInv, progress = "raised", built < Len(matrix.names)
             PROVE  EarlierClients \subseteq shut
  BY DEF NoClientLeaks
<1> QED
  BY NamesListed DEF ClientsInv

-----------------------------------------------------------------------------
(* Exports.  A name has one file, and a job that has moved past a file of   *)
(* its own still has it.                                                    *)

File(name, e) == [name |-> name, by |-> e]

Stands == [at : {"json", "md", "done", "gone"}, suffix : Nat]

NamedOnce == \A f, g \in files : f.name = g.name => f = g

OldStay == \A n \in Existing : n[1] = "matrix" => File(n, "earlier") \in files

OwnStay ==
  \A e \in DOMAIN Exports : Exports[e] = "matrix" =>
    /\ export[e].at \in {"md", "done"} => File(<<"matrix", export[e].suffix, "json">>, e) \in files
    /\ export[e].at = "done" => File(<<"matrix", export[e].suffix, "md">>, e) \in files

ExportsInv ==
  /\ export \in [DOMAIN Exports -> Stands]
  /\ files \subseteq [name : {f.name : f \in files}, by : {f.by : f \in files}]
  /\ NamedOnce /\ OldStay /\ OwnStay

LEMMA ExportsStart == MatrixInit => ExportsInv
<1> SUFFICES ASSUME MatrixInit
             PROVE  ExportsInv
  OBVIOUS
<1>1. files = {File(n, "earlier") : n \in Existing}
  BY DEF MatrixInit, File
<1>2. export = [e \in DOMAIN Exports |-> [at |-> "json", suffix |-> 0]]
  BY DEF MatrixInit
<1>3. export \in [DOMAIN Exports -> Stands]
  BY <1>2 DEF Stands
<1>4. NamedOnce /\ OldStay
  BY <1>1 DEF NamedOnce, OldStay, File
<1>5. OwnStay
  BY <1>2 DEF OwnStay
<1>6. files \subseteq [name : {f.name : f \in files}, by : {f.by : f \in files}]
  BY <1>1 DEF File
<1> QED
  BY <1>3, <1>4, <1>5, <1>6 DEF ExportsInv

(* A job's own move: the others stand where they stood.                     *)
LEMMA MoveIs ==
  ASSUME NEW e \in DOMAIN Exports, ExportsInv, NEW where \in {"md", "done", "gone"}, Move(e, where)
  PROVE  /\ export' \in [DOMAIN Exports -> Stands]
         /\ export'[e].at = where /\ export'[e].suffix = export[e].suffix
         /\ \A o \in DOMAIN Exports : o # e => export'[o] = export[o]
<1>1. export \in [DOMAIN Exports -> Stands]
  BY DEF ExportsInv
<1>2. export' = [export EXCEPT ![e].at = where]
  BY DEF Move
<1> QED
  BY <1>1, <1>2 DEF Stands

LEMMA NextSuffixIs ==
  ASSUME NEW e \in DOMAIN Exports, ExportsInv, NextSuffix(e)
  PROVE  /\ export' \in [DOMAIN Exports -> Stands]
         /\ export'[e].at = "json"
         /\ \A o \in DOMAIN Exports : o # e => export'[o] = export[o]
<1>1. export \in [DOMAIN Exports -> Stands]
  BY DEF ExportsInv
<1>2. export' = [export EXCEPT ![e] = [at |-> "json", suffix |-> export[e].suffix + 1]]
  BY DEF NextSuffix
<1> QED
  BY <1>1, <1>2 DEF Stands

LEMMA NameIs ==
  ASSUME NEW e \in DOMAIN Exports, NEW ext, Exports[e] = "matrix"
  PROVE  Name(e, ext) = <<"matrix", export[e].suffix, ext>>
  BY DEF Name

(* A file is created under a name no file has.                              *)
LEMMA CreateKeeps ==
  ASSUME ExportsInv, NEW e, NEW name, ~Taken(name), Create(e, name)
  PROVE  /\ files' \subseteq [name : {f.name : f \in files'}, by : {f.by : f \in files'}]
         /\ NamedOnce' /\ OldStay' /\ files \subseteq files' /\ File(name, e) \in files'
<1>1. files' = files \cup {File(name, e)} /\ \A f \in files : f.name # name
  BY DEF Create, Taken, File
<1>2. NamedOnce'
  BY <1>1 DEF ExportsInv, NamedOnce, File
<1>3. OldStay'
  BY <1>1 DEF ExportsInv, OldStay
<1>4. files' \subseteq [name : {f.name : f \in files'}, by : {f.by : f \in files'}]
  BY <1>1 DEF ExportsInv, File
<1> QED
  BY <1>1, <1>2, <1>3, <1>4

(* Files given up: none that another job counts on.                         *)
LEMMA FewerKeep ==
  ASSUME ExportsInv, files' \subseteq files
  PROVE  /\ files' \subseteq [name : {f.name : f \in files'}, by : {f.by : f \in files'}]
         /\ NamedOnce'
<1>1. NamedOnce'
  BY DEF ExportsInv, NamedOnce
<1>2. files' \subseteq [name : {f.name : f \in files'}, by : {f.by : f \in files'}]
  BY DEF ExportsInv
<1> QED
  BY <1>1, <1>2

LEMMA CreateJsonKeeps ==
  ASSUME ExportsInv, NEW e \in DOMAIN Exports, CreateJson(e)
  PROVE  ExportsInv'
<1> DEFINE name == Name(e, "json")
<1>1. name = <<"matrix", export[e].suffix, "json">>
  BY NameIs DEF CreateJson
<1>2. CASE Taken(name)
  <2>1. files' = files /\ NextSuffix(e)
    BY <1>2 DEF CreateJson
  <2>2. OwnStay'
    BY <2>1, NextSuffixIs DEF ExportsInv, OwnStay
  <2> QED
    BY <2>1, <2>2, NextSuffixIs DEF ExportsInv, NamedOnce, OldStay
<1>3. CASE ~Taken(name)
  <2>1. Create(e, name) /\ Move(e, "md")
    BY <1>3 DEF CreateJson
  <2>2. /\ files' \subseteq [name : {f.name : f \in files'}, by : {f.by : f \in files'}]
        /\ NamedOnce' /\ OldStay' /\ files \subseteq files' /\ File(name, e) \in files'
    BY <1>3, <2>1, CreateKeeps
  <2>3. OwnStay'
    BY <1>1, <2>1, <2>2, MoveIs DEF ExportsInv, OwnStay
  <2> QED
    BY <2>1, <2>2, <2>3, MoveIs DEF ExportsInv
<1> QED
  BY <1>2, <1>3

LEMMA CreateTableKeeps ==
  ASSUME ExportsInv, NEW e \in DOMAIN Exports, CreateTable(e)
  PROVE  ExportsInv'
<1> DEFINE name == Name(e, "md")
<1>1. name = <<"matrix", export[e].suffix, "md">>
      /\ Name(e, "json") = <<"matrix", export[e].suffix, "json">>
  BY NameIs DEF CreateTable
<1>2. export[e].at = "md" /\ Exports[e] = "matrix"
  BY DEF CreateTable, At
<1>3. File(Name(e, "json"), e) \in files
  BY <1>1, <1>2 DEF ExportsInv, OwnStay
<1>4. CASE Taken(name)
  <2>1. files' = {f \in files : f.name # Name(e, "json")} /\ NextSuffix(e)
    BY <1>4 DEF CreateTable, Unlinked
  <2>2. ASSUME NEW n, NEW o, File(n, o) \in files, o # e
        PROVE  File(n, o) \in files'
    <3>1. n # Name(e, "json")
      BY <1>3, <2>2 DEF ExportsInv, NamedOnce, File
    <3> QED
      BY <2>1, <2>2, <3>1 DEF File
  <2>3. "earlier" # e
    BY MatrixAssumption
  <2>4. OldStay'
    BY <2>2, <2>3 DEF ExportsInv, OldStay
  <2>5. OwnStay'
    BY <2>1, <2>2, NextSuffixIs DEF ExportsInv, OwnStay
  <2> QED
    BY <2>1, <2>4, <2>5, NextSuffixIs, FewerKeep DEF ExportsInv
<1>5. CASE ~Taken(name)
  <2>1. Create(e, name) /\ Move(e, "done")
    BY <1>5 DEF CreateTable
  <2>2. /\ files' \subseteq [name : {f.name : f \in files'}, by : {f.by : f \in files'}]
        /\ NamedOnce' /\ OldStay' /\ files \subseteq files' /\ File(name, e) \in files'
    BY <1>5, <2>1, CreateKeeps
  <2>3. OwnStay'
    BY <1>1, <1>3, <2>1, <2>2, MoveIs DEF ExportsInv, OwnStay
  <2> QED
    BY <2>1, <2>2, <2>3, MoveIs DEF ExportsInv
<1> QED
  BY <1>4, <1>5

(* A report replaces reports only.                                          *)
LEMMA TruncateKeeps ==
  ASSUME ExportsInv, NEW e \in DOMAIN Exports, Truncate(e)
  PROVE  ExportsInv'
<1>1. Exports[e] = "results"
  BY DEF Truncate
<1>2. PICK ext \in {"json", "md"} :
        /\ files' = {f \in files : f.name # Name(e, ext)} \cup {File(Name(e, ext), e)}
        /\ Move(e, IF ext = "json" THEN "md" ELSE "done")
  BY DEF Truncate, File
<1> DEFINE name == Name(e, ext)
<1>3. name = <<"results", export[e].suffix, ext>>
  BY <1>1 DEF Name
<1>4. ASSUME NEW n, NEW o, File(n, o) \in files, n[1] = "matrix"
      PROVE  File(n, o) \in files'
  <2>1. n # name
    BY <1>3, <1>4
  <2> QED
    BY <1>2, <1>4, <2>1 DEF File
<1>5. export' \in [DOMAIN Exports -> Stands] /\ \A o \in DOMAIN Exports : o # e => export'[o] = export[o]
  BY <1>2, MoveIs
<1>6. NamedOnce'
  BY <1>2 DEF ExportsInv, NamedOnce, File
<1>7. OldStay'
  BY <1>4 DEF ExportsInv, OldStay
<1>8. OwnStay'
  <2> SUFFICES ASSUME NEW o \in DOMAIN Exports, Exports[o] = "matrix"
               PROVE  /\ export'[o].at \in {"md", "done"} =>
                           File(<<"matrix", export'[o].suffix, "json">>, o) \in files'
                      /\ export'[o].at = "done" =>
                           File(<<"matrix", export'[o].suffix, "md">>, o) \in files'
    BY DEF OwnStay
  <2>1. export'[o] = export[o]
    BY <1>1, <1>5
  <2>2. /\ export[o].at \in {"md", "done"} => File(<<"matrix", export[o].suffix, "json">>, o) \in files
        /\ export[o].at = "done" => File(<<"matrix", export[o].suffix, "md">>, o) \in files
    BY DEF ExportsInv, OwnStay
  <2>3. \A x : <<"matrix", export[o].suffix, x>>[1] = "matrix"
    OBVIOUS
  <2> QED
    BY <1>4, <2>1, <2>2, <2>3
<1>9. files' \subseteq [name : {f.name : f \in files'}, by : {f.by : f \in files'}]
  BY <1>2 DEF ExportsInv, File
<1> QED
  BY <1>5, <1>6, <1>7, <1>8, <1>9 DEF ExportsInv

LEMMA ExportsStay == ExportsInv /\ [MatrixStep]_matrixVars => ExportsInv'
<1> SUFFICES ASSUME ExportsInv, [MatrixStep]_matrixVars
             PROVE  ExportsInv'
  OBVIOUS
<1>1. CASE UNCHANGED <<files, export>>
  BY <1>1 DEF ExportsInv, NamedOnce, OldStay, OwnStay
<1>2. CASE ExportSteps
  <2>1. PICK e \in DOMAIN Exports : CreateJson(e) \/ CreateTable(e) \/ Truncate(e) \/ ExportDies(e)
    BY <1>2 DEF ExportSteps
  <2>2. CASE ExportDies(e)
    <3>1. files' = files /\ Move(e, "gone")
      BY <2>2 DEF ExportDies
    <3>2. OwnStay'
      BY <3>1, MoveIs DEF ExportsInv, OwnStay
    <3> QED
      BY <3>1, <3>2, MoveIs DEF ExportsInv, NamedOnce, OldStay
  <2> QED
    BY <2>1, <2>2, CreateJsonKeeps, CreateTableKeeps, TruncateKeeps
<1> QED
  BY <1>1, <1>2, ExportsApart DEF matrixVars

LEMMA TheyStand == ExportsInv => ExportsStand
<1> SUFFICES ASSUME ExportsInv
             PROVE  ExportsStand
  OBVIOUS
<1>1. \A n \in Existing : n[1] = "matrix" => [name |-> n, by |-> "earlier"] \in files
  BY DEF ExportsInv, OldStay, File
<1>2. ASSUME NEW e \in DOMAIN Exports, Exports[e] = "matrix", export[e].at = "done",
             NEW ext \in {"json", "md"}
      PROVE  [name |-> Name(e, ext), by |-> e] \in files
  BY <1>2, NameIs DEF ExportsInv, OwnStay, File
<1> QED
  BY <1>1, <1>2 DEF ExportsStand

-----------------------------------------------------------------------------
(* The table.  Cells are made row by row: the number of a cell tells its    *)
(* model and column, and no two numbers tell the same ones.                 *)

RowAt(m, x) == m.names[(x \div Len(ColumnsOf(m))) + 1]
ColumnAt(m, x) == ColumnsOf(m)[(x % Len(ColumnsOf(m))) + 1]
PairAt(m, x) == <<RowAt(m, x), ColumnAt(m, x).id>>
CellCount(m) == Len(m.names) * Len(ColumnsOf(m))

LEMMA Divided ==
  ASSUME NEW x \in Nat, NEW k \in Nat, k > 0
  PROVE  /\ x \div k \in Nat /\ x % k \in 0..(k - 1)
         /\ x = k * (x \div k) + (x % k)
<1>1. x \div k \in Int
  BY SMT
<1>2. x % k \in 0..(k - 1)
  BY SMT
<1>3. x = k * (x \div k) + (x % k)
  BY SMT
<1>4. x \div k >= 0
  BY SMT
<1> QED
  BY <1>1, <1>2, <1>3, <1>4

LEMMA NextPlace ==
  ASSUME NEW n \in Nat, NEW q \in 0..(n - 1)
  PROVE  q + 1 \in 1..n
  OBVIOUS

LEMMA Combined ==
  ASSUME NEW n \in Nat, NEW k \in Nat, NEW q \in 0..(n - 1), NEW r \in 0..(k - 1)
  PROVE  /\ q * k + r \in 0..(n * k - 1)
         /\ (q * k + r) \div k = q /\ (q * k + r) % k = r
<1>1. k > 0 /\ q * k + r \in Nat
  BY SMT
<1>2. q * k + r < n * k
  <2>1. q + 1 <= n /\ (q + 1) * k = q * k + k
    BY SMT
  <2>2. (q + 1) * k <= n * k
    BY <2>1, SMT
  <2> QED
    BY <2>1, <2>2, SMT
<1>3. (q * k + r) \div k = q /\ (q * k + r) % k = r
  BY <1>1, SMT
<1> QED
  BY <1>1, <1>2, <1>3, SMT

LEMMA RowInside ==
  ASSUME NEW n \in Nat, NEW k \in Nat, NEW x \in 0..(n * k - 1)
  PROVE  k > 0 /\ x \in Nat /\ x \div k \in 0..(n - 1) /\ x % k \in 0..(k - 1)
<1>1. n * k \in Nat
  BY SMT
<1>2. x \in Nat /\ x < n * k
  BY <1>1, SMT
<1>3. k > 0
  BY <1>2, SMT
<1>4. /\ x \div k \in Nat /\ x % k \in 0..(k - 1)
      /\ x = k * (x \div k) + (x % k)
  BY <1>2, <1>3, Divided
<1>5. x \div k < n
  <2> SUFFICES ASSUME n <= x \div k
               PROVE  FALSE
    BY <1>4
  <2>1. n * k <= (x \div k) * k
    BY <1>4, SMT
  <2> QED
    BY <1>2, <1>4, <2>1, SMT
<1> QED
  BY <1>2, <1>3, <1>4, <1>5

(* What a request's columns are made of, whatever it asks for.              *)
LEMMA ColumnsListed ==
  ASSUME NEW m \in Matrices, MatrixAccepted(m)
  PROVE  /\ ColumnsOf(m) \in Seq(ToSet(Capabilities) \cup ToSet(m.extras))
         /\ Len(ColumnsOf(m)) \in Nat /\ DOMAIN ColumnsOf(m) = 1..Len(ColumnsOf(m))
         /\ \A k \in DOMAIN ColumnsOf(m) : /\ ColumnsOf(m)[k].id \in ColumnIds(m)
                                           /\ IsList(ColumnsOf(m)[k].cases)
<1> DEFINE C == ToSet(Capabilities) \cup ToSet(m.extras)
<1>1. /\ Capabilities \in Seq(ToSet(Capabilities)) /\ m.extras \in Seq(ToSet(m.extras))
      /\ \A c \in C : IsList(c.cases)
  BY MatrixAssumption DEF IsList, IsColumn, ToSet
<1>2. Selected(m) \in Seq(ToSet(Capabilities))
  <2>1. CASE m.picked = {}
    BY <1>1, <2>1 DEF Selected
  <2>2. CASE m.picked # {}
    <3> DEFINE ids == CHOOSE p \in m.picked : TRUE
    <3>1. ids \in m.picked
      BY <2>2
    <3>2. ids \in Seq({ids[i] : i \in DOMAIN ids})
      BY <3>1, MatrixAssumption DEF IsList
    <3>3. DOMAIN ids = 1..Len(ids) /\ Len(ids) \in Nat
      BY <3>2, SomeSeq
    <3>4. Selected(m) = [i \in DOMAIN ids |-> GetCapability(ids[i])]
      BY <2>2 DEF Selected
    <3>5. ASSUME NEW i \in DOMAIN ids
          PROVE  GetCapability(ids[i]) \in ToSet(Capabilities)
      <4>1. ids[i] \in CapabilityIds
        BY <3>1 DEF MatrixAccepted
      <4>2. \E c \in {Capabilities[j] : j \in DOMAIN Capabilities} : c.id = ids[i]
        BY <4>1 DEF CapabilityIds
      <4> QED
        BY <4>2 DEF GetCapability, ToSet
    <3> HIDE DEF ids
    <3>6. Selected(m) \in [1..Len(ids) -> ToSet(Capabilities)]
      BY <3>3, <3>4, <3>5
    <3> QED
      BY <3>3, <3>6
  <2> QED
    BY <2>1, <2>2
<1>3. ColumnsOf(m) \in Seq(C)
  BY <1>1, <1>2, JoinSome DEF ColumnsOf
<1>4. \A c \in C : c.id \in ColumnIds(m)
  BY DEF ColumnIds, CapabilityIds, ToSet
<1>5. Len(ColumnsOf(m)) \in Nat /\ DOMAIN ColumnsOf(m) = 1..Len(ColumnsOf(m))
      /\ \A k \in DOMAIN ColumnsOf(m) : ColumnsOf(m)[k] \in C
  BY <1>3
<1> QED
  BY <1>1, <1>3, <1>4, <1>5

(* The cell of a number lies in the table, and no other number tells it.    *)
LEMMA CellPlaced ==
  ASSUME NEW m \in Matrices, MatrixAccepted(m), NEW x \in 0..(CellCount(m) - 1)
  PROVE  /\ CellCount(m) \in Nat /\ x \in Nat
         /\ x \div Len(ColumnsOf(m)) \in 0..(Len(m.names) - 1)
         /\ x % Len(ColumnsOf(m)) \in 0..(Len(ColumnsOf(m)) - 1)
         /\ RowAt(m, x) \in ToSet(m.names)
         /\ (x % Len(ColumnsOf(m))) + 1 \in DOMAIN ColumnsOf(m)
         /\ PairAt(m, x) \in ToSet(m.names) \X ColumnIds(m)
         /\ IsList(ColumnAt(m, x).cases)
<1> DEFINE n == Len(m.names)
           k == Len(ColumnsOf(m))
<1>1. n \in Nat /\ DOMAIN m.names = 1..n
  BY NamesListed
<1>2. k \in Nat /\ DOMAIN ColumnsOf(m) = 1..k
  BY ColumnsListed
<1>3. CellCount(m) = n * k /\ CellCount(m) \in Nat
  <2>1. CellCount(m) = n * k
    BY DEF CellCount
  <2> HIDE DEF n, k
  <2> QED
    BY <1>1, <1>2, <2>1
<1>4. x \in Nat /\ x \div k \in 0..(n - 1) /\ x % k \in 0..(k - 1)
  <2>1. x \in 0..(n * k - 1)
    BY <1>3
  <2> HIDE DEF n, k
  <2> QED
    BY <1>1, <1>2, <2>1, RowInside
<1>5. (x \div k) + 1 \in DOMAIN m.names /\ (x % k) + 1 \in DOMAIN ColumnsOf(m)
  <2> HIDE DEF n, k
  <2> QED
    BY <1>1, <1>2, <1>4, NextPlace, Zenon
<1>6. RowAt(m, x) \in ToSet(m.names)
  BY <1>5 DEF RowAt, ToSet
<1>7. ColumnAt(m, x).id \in ColumnIds(m) /\ IsList(ColumnAt(m, x).cases)
  BY <1>5, ColumnsListed DEF ColumnAt
<1> QED
  BY <1>3, <1>4, <1>5, <1>6, <1>7 DEF PairAt

LEMMA PairsDiffer ==
  ASSUME NEW m \in Matrices, MatrixAccepted(m),
         NEW x \in 0..(CellCount(m) - 1), NEW y \in 0..(CellCount(m) - 1), PairAt(m, x) = PairAt(m, y)
  PROVE  x = y
<1> DEFINE n == Len(m.names)
           k == Len(ColumnsOf(m))
<1>1. n \in Nat /\ DOMAIN m.names = 1..n /\ k \in Nat /\ DOMAIN ColumnsOf(m) = 1..k
  BY NamesListed, ColumnsListed
<1>2. /\ x \in Nat /\ x \div k \in 0..(n - 1) /\ x % k \in 0..(k - 1)
      /\ y \in Nat /\ y \div k \in 0..(n - 1) /\ y % k \in 0..(k - 1)
  BY CellPlaced
<1>3. /\ m.names[(x \div k) + 1] = m.names[(y \div k) + 1]
      /\ ColumnsOf(m)[(x % k) + 1].id = ColumnsOf(m)[(y % k) + 1].id
  BY DEF PairAt, RowAt, ColumnAt
<1>4. /\ \A i, j \in 1..n : m.names[i] = m.names[j] => i = j
      /\ \A i, j \in 1..k : ColumnsOf(m)[i].id = ColumnsOf(m)[j].id => i = j
  BY <1>1 DEF MatrixAccepted, IsInjective
<1>5. /\ (x \div k) + 1 \in 1..n /\ (y \div k) + 1 \in 1..n
      /\ (x % k) + 1 \in 1..k /\ (y % k) + 1 \in 1..k
  <2> HIDE DEF n, k
  <2> QED
    BY <1>1, <1>2, NextPlace, Zenon
<1>6. (x \div k) + 1 = (y \div k) + 1 /\ (x % k) + 1 = (y % k) + 1
  <2> HIDE DEF n, k
  <2> QED
    BY <1>3, <1>4, <1>5, Zenon
<1> HIDE DEF n, k
<1>7. x \div k = y \div k /\ x % k = y % k /\ k > 0
  BY <1>1, <1>2, <1>6
<1>8. x = k * (x \div k) + (x % k) /\ y = k * (y \div k) + (y % k)
  BY <1>1, <1>2, <1>7, Divided
<1> QED
  BY <1>7, <1>8

(* Every model and column has its number.                                   *)
LEMMA CellNumbered ==
  ASSUME NEW m \in Matrices, MatrixAccepted(m),
         NEW i \in DOMAIN m.names, NEW j \in DOMAIN ColumnsOf(m)
  PROVE  \E x \in 0..(CellCount(m) - 1) : RowAt(m, x) = m.names[i] /\ ColumnAt(m, x) = ColumnsOf(m)[j]
<1> DEFINE n == Len(m.names)
           k == Len(ColumnsOf(m))
           x == (i - 1) * k + (j - 1)
<1>1. n \in Nat /\ i \in 1..n /\ k \in Nat /\ j \in 1..k /\ CellCount(m) = n * k
  BY NamesListed, ColumnsListed DEF CellCount
<1>2. x \in 0..(n * k - 1) /\ x \div k = i - 1 /\ x % k = j - 1
  <2> HIDE DEF n, k
  <2>1. i - 1 \in 0..(n - 1) /\ j - 1 \in 0..(k - 1)
    BY <1>1
  <2>2. \A q \in 0..(n - 1), r \in 0..(k - 1) :
          q * k + r \in 0..(n * k - 1) /\ (q * k + r) \div k = q /\ (q * k + r) % k = r
    BY <1>1, Combined
  <2> QED
    BY <2>1, <2>2, Zenon
<1>3. (x \div k) + 1 = i /\ (x % k) + 1 = j
  <2> HIDE DEF n, k, x
  <2> QED
    BY <1>1, <1>2
<1>4. RowAt(m, x) = m.names[i] /\ ColumnAt(m, x) = ColumnsOf(m)[j]
  BY <1>3 DEF RowAt, ColumnAt
<1> QED
  BY <1>1, <1>2, <1>4

(* What the cells made say, and what has been run for the others: part of   *)
(* the cases for the one being made, nothing for those after it.            *)
CellFits(m, x, cell, mine) ==
  /\ cell.model = RowAt(m, x) /\ cell.column = ColumnAt(m, x).id
  /\ SaysTrue(cell, ColumnAt(m, x), mine)

Under(column, mine) ==
  /\ Len(mine) <= Len(column.cases)
  /\ \A j \in DOMAIN mine : mine[j].case = column.cases[j]
  /\ MissingRequirements(column) # {} => mine = <<>>

Shaped(m, mk) ==
  /\ mk = [p \in ToSet(m.names) \X ColumnIds(m) |-> mk[p]]
  /\ \A p \in ToSet(m.names) \X ColumnIds(m) : Listed(mk[p])

Blank(m, mk) == \A p \in ToSet(m.names) \X ColumnIds(m) : mk[p] = <<>>

Arranged(m, cs, mk) ==
  /\ MatrixAccepted(m) /\ Len(cs) <= CellCount(m)
  /\ \A x \in 0..(CellCount(m) - 1) :
       /\ x < Len(cs) => CellFits(m, x, cs[x + 1], mk[PairAt(m, x)])
       /\ x = Len(cs) => Under(ColumnAt(m, x), mk[PairAt(m, x)])
       /\ x > Len(cs) => mk[PairAt(m, x)] = <<>>

TableInv ==
  /\ matrix \in Matrices /\ Shaped(matrix, made) /\ Listed(cells)
  /\ progress \in {"building", "selecting", "running", "tabulated", "raised"}
  /\ progress \in {"building", "selecting"} => cells = <<>> /\ Blank(matrix, made)
  /\ progress \in {"running", "tabulated"} => Arranged(matrix, cells, made)
  /\ progress = "tabulated" => Len(cells) >= CellCount(matrix)

LEMMA ListedLen ==
  ASSUME NEW t, Listed(t)
  PROVE  Len(t) \in Nat /\ DOMAIN t = 1..Len(t)
  BY SomeSeq DEF Listed

LEMMA AppendLen ==
  ASSUME NEW s, Listed(s), NEW e
  PROVE  Listed(Append(s, e)) /\ Len(Append(s, e)) = Len(s) + 1
<1>1. PICK S : s \in Seq(S)
  BY DEF Listed
<1>2. s \in Seq(S \cup {e}) /\ e \in S \cup {e}
  BY <1>1
<1>3. Len(Append(s, e)) = Len(s) + 1
  BY <1>2
<1>4. Append(s, e) \in Seq(S \cup {e})
  BY <1>2
<1> QED
  BY <1>3, <1>4 DEF Listed

LEMMA EmptyIs == Len(<<>>) = 0 /\ DOMAIN <<>> = {} /\ Listed(<<>>)
<1>1. <<>> \in Seq({})
  OBVIOUS
<1> QED
  BY <1>1 DEF Listed

LEMMA TotalNat ==
  ASSUME NEW m \in Matrices, MatrixAccepted(m)
  PROVE  CellCount(m) \in Nat
<1>1. Len(m.names) \in Nat /\ Len(ColumnsOf(m)) \in Nat
  BY NamesListed, ColumnsListed
<1> QED
  BY <1>1, SMT DEF CellCount

(* An accepted request starts with no cell made.                            *)
LEMMA AcceptedPlaces ==
  ASSUME NEW m \in Matrices, NEW mk, MatrixAccepted(m), Blank(m, mk)
  PROVE  Arranged(m, <<>>, mk)
<1>1. CellCount(m) \in Nat /\ Len(<<>>) = 0
  BY TotalNat, EmptyIs
<1>2. ASSUME NEW x \in 0..(CellCount(m) - 1)
      PROVE  mk[PairAt(m, x)] = <<>>
  BY CellPlaced DEF Blank
<1>3. ASSUME NEW x \in 0..(CellCount(m) - 1)
      PROVE  Under(ColumnAt(m, x), <<>>)
  <2>1. Len(ColumnAt(m, x).cases) \in Nat
    BY CellPlaced, SomeSeq DEF IsList
  <2> QED
    BY <2>1, EmptyIs DEF Under
<1>4. \A x \in 0..(CellCount(m) - 1) : ~(x < Len(<<>>))
  BY <1>1
<1> QED
  BY <1>1, <1>2, <1>3, <1>4 DEF Arranged

(* A case more has been run for the cell being made.                        *)
LEMMA RunPlaces ==
  ASSUME NEW m \in Matrices, NEW cs, NEW mk, NEW mk2, NEW r,
         Listed(cs), Shaped(m, mk), Arranged(m, cs, mk), Len(cs) < CellCount(m),
         MissingRequirements(ColumnAt(m, Len(cs))) = {},
         Len(mk[PairAt(m, Len(cs))]) < Len(ColumnAt(m, Len(cs)).cases),
         r.case = ColumnAt(m, Len(cs)).cases[Len(mk[PairAt(m, Len(cs))]) + 1],
         mk2 = [mk EXCEPT ![PairAt(m, Len(cs))] = Append(mk[PairAt(m, Len(cs))], r)]
  PROVE  Shaped(m, mk2) /\ Arranged(m, cs, mk2)
<1> DEFINE now == Len(cs)
           p == PairAt(m, now)
           mine == mk[p]
           pairs == ToSet(m.names) \X ColumnIds(m)
<1>1. MatrixAccepted(m) /\ CellCount(m) \in Nat /\ now \in Nat /\ now \in 0..(CellCount(m) - 1)
  BY TotalNat, ListedLen DEF Arranged
<1>2. p \in pairs /\ IsList(ColumnAt(m, now).cases)
  BY <1>1, CellPlaced
<1>3. Listed(mine)
  BY <1>2 DEF Shaped
<1>4. mk = [q \in pairs |-> mk[q]]
  BY DEF Shaped
<1>5. mk2[p] = Append(mine, r) /\ \A q \in pairs : q # p => mk2[q] = mk[q]
  <2> HIDE DEF p, pairs, mine
  <2>1. mk2 = [mk EXCEPT ![p] = Append(mine, r)]
    BY DEF p, mine
  <2> QED
    BY <1>2, <1>4, <2>1
<1>6. mk2 = [q \in pairs |-> mk2[q]]
  <2> HIDE DEF p, pairs, mine
  <2>1. mk2 = [mk EXCEPT ![p] = Append(mine, r)]
    BY DEF p, mine
  <2> QED
    BY <1>2, <1>4, <2>1
<1>7. PICK S : mine \in Seq(S)
  BY <1>3 DEF Listed
<1>8. /\ Listed(Append(mine, r)) /\ Len(Append(mine, r)) = Len(mine) + 1
      /\ DOMAIN Append(mine, r) = 1..(Len(mine) + 1)
      /\ Append(mine, r)[Len(mine) + 1] = r
      /\ \A i \in DOMAIN mine : Append(mine, r)[i] = mine[i]
  BY <1>3, <1>7, AppendSome, AppendLen
<1>9. Shaped(m, mk2)
  BY <1>5, <1>6, <1>8 DEF Shaped
<1>10. Under(ColumnAt(m, now), mk2[p])
  <2> DEFINE column == ColumnAt(m, now)
  <2>1. Under(column, mine)
    BY <1>1 DEF Arranged
  <2>2. Len(mine) \in Nat /\ DOMAIN mine = 1..Len(mine) /\ Len(column.cases) \in Nat
    BY <1>2, <1>3, ListedLen, SomeSeq DEF IsList
  <2>3. Len(mk2[p]) <= Len(column.cases)
    BY <1>5, <1>8, <2>2
  <2>4. ASSUME NEW j \in DOMAIN mk2[p]
        PROVE  mk2[p][j].case = column.cases[j]
    <3>1. CASE j = Len(mine) + 1
      BY <1>5, <1>8, <3>1
    <3>2. CASE j # Len(mine) + 1
      <4>1. j \in DOMAIN mine
        BY <1>5, <1>8, <2>2, <3>2
      <4> QED
        BY <1>5, <1>8, <2>1, <4>1 DEF Under
    <3> QED
      BY <3>1, <3>2
  <2> QED
    BY <2>3, <2>4 DEF Under
<1>11. ASSUME NEW x \in 0..(CellCount(m) - 1), x # now
       PROVE  mk2[PairAt(m, x)] = mk[PairAt(m, x)]
  <2>1. PairAt(m, x) # p
    BY <1>1, <1>11, PairsDiffer
  <2> QED
    BY <1>1, <1>5, <2>1, CellPlaced
<1>12. \A x \in 0..(CellCount(m) - 1) :
         /\ x < Len(cs) => CellFits(m, x, cs[x + 1], mk2[PairAt(m, x)])
         /\ x = Len(cs) => Under(ColumnAt(m, x), mk2[PairAt(m, x)])
         /\ x > Len(cs) => mk2[PairAt(m, x)] = <<>>
  <2> SUFFICES ASSUME NEW x \in 0..(CellCount(m) - 1)
               PROVE  /\ x < Len(cs) => CellFits(m, x, cs[x + 1], mk2[PairAt(m, x)])
                      /\ x = Len(cs) => Under(ColumnAt(m, x), mk2[PairAt(m, x)])
                      /\ x > Len(cs) => mk2[PairAt(m, x)] = <<>>
    OBVIOUS
  <2>1. /\ x < Len(cs) => CellFits(m, x, cs[x + 1], mk[PairAt(m, x)])
        /\ x > Len(cs) => mk[PairAt(m, x)] = <<>>
    BY DEF Arranged
  <2>2. CASE x = now
    BY <1>1, <1>10, <2>2
  <2>3. CASE x # now
    BY <1>11, <2>1, <2>3
  <2> QED
    BY <2>2, <2>3
<1> QED
  BY <1>1, <1>9, <1>12 DEF Arranged

(* The cell being made is done, and nothing has been run for the next one.  *)
LEMMA CellPlaces ==
  ASSUME NEW m \in Matrices, NEW cs, NEW mk, NEW cell,
         Listed(cs), Arranged(m, cs, mk), Len(cs) < CellCount(m),
         CellFits(m, Len(cs), cell, mk[PairAt(m, Len(cs))])
  PROVE  Listed(Append(cs, cell)) /\ Arranged(m, Append(cs, cell), mk)
<1> DEFINE now == Len(cs)
           next == Append(cs, cell)
<1>1. MatrixAccepted(m) /\ CellCount(m) \in Nat /\ now \in Nat /\ now \in 0..(CellCount(m) - 1)
  BY TotalNat, ListedLen DEF Arranged
<1>2. PICK S : cs \in Seq(S)
  BY DEF Listed
<1>3. /\ Listed(next) /\ Len(next) = now + 1 /\ next[now + 1] = cell
      /\ \A i \in DOMAIN cs : next[i] = cs[i]
      /\ DOMAIN cs = 1..now
  BY <1>2, AppendSome, AppendLen, SomeSeq
<1> HIDE DEF next
<1>4. ASSUME NEW x \in 0..(CellCount(m) - 1)
      PROVE  /\ x < Len(next) => CellFits(m, x, next[x + 1], mk[PairAt(m, x)])
             /\ x = Len(next) => Under(ColumnAt(m, x), mk[PairAt(m, x)])
             /\ x > Len(next) => mk[PairAt(m, x)] = <<>>
  <2>1. /\ x < now => CellFits(m, x, cs[x + 1], mk[PairAt(m, x)])
        /\ x > now => mk[PairAt(m, x)] = <<>>
    BY DEF Arranged
  <2>2. x \in Nat
    BY <1>1
  <2>3. CASE x < now
    <3>1. x + 1 \in DOMAIN cs
      BY <1>1, <1>3, <2>2, <2>3
    <3>2. next[x + 1] = cs[x + 1]
      BY <1>3, <3>1
    <3>3. ~(x >= Len(next))
      BY <1>1, <1>3, <2>2, <2>3
    <3> QED
      BY <1>1, <1>3, <2>1, <2>2, <2>3, <3>2, <3>3
  <2>4. CASE x = now
    <3>1. ~(x >= Len(next)) /\ next[x + 1] = cell
      BY <1>1, <1>3, <2>4
    <3>2. CellFits(m, x, cell, mk[PairAt(m, x)])
      BY <2>4
    <3> QED
      BY <1>1, <1>3, <2>2, <3>1, <3>2
  <2>5. CASE x > now
    <3>1. mk[PairAt(m, x)] = <<>> /\ ~(x < Len(next))
      BY <1>1, <1>3, <2>1, <2>2, <2>5
    <3>2. Under(ColumnAt(m, x), <<>>)
      <4>1. Len(ColumnAt(m, x).cases) \in Nat
        BY <1>1, CellPlaced, SomeSeq DEF IsList
      <4> QED
        BY <4>1, EmptyIs DEF Under
    <3> QED
      BY <3>1, <3>2
  <2> QED
    BY <1>1, <2>2, <2>3, <2>4, <2>5
<1>5. Len(next) <= CellCount(m)
  BY <1>1, <1>3
<1> QED
  BY <1>1, <1>3, <1>4, <1>5 DEF Arranged, next

(* A cell with every case behind it says what they came to.                 *)
LEMMA BuiltFits ==
  ASSUME NEW m, NEW x, NEW mine, Listed(mine), IsList(ColumnAt(m, x).cases),
         Under(ColumnAt(m, x), mine), MissingRequirements(ColumnAt(m, x)) = {},
         Len(mine) = Len(ColumnAt(m, x).cases)
  PROVE  CellFits(m, x, BuildCell(RowAt(m, x), ColumnAt(m, x).id, mine), mine)
<1> DEFINE column == ColumnAt(m, x)
           cell == BuildCell(RowAt(m, x), column.id, mine)
           parts == [i \in DOMAIN mine |-> TotalUsage(mine[i])]
<1>1. /\ cell.model = RowAt(m, x) /\ cell.column = column.id /\ ~cell.skipped
      /\ cell.gate <=> mine /= <<>> /\ {i \in DOMAIN mine : ~GateOf(mine[i])} = {}
      /\ cell.tokens = SumKnown(parts)
  BY DEF BuildCell
<1>2. column.needs \subseteq Host
  BY DEF MissingRequirements
<1>3. [j \in DOMAIN mine |-> mine[j].case] = column.cases
  <2>1. DOMAIN mine = 1..Len(mine)
    BY ListedLen
  <2>2. column.cases = [j \in 1..Len(column.cases) |-> column.cases[j]]
    BY DEF IsList
  <2>3. \A j \in DOMAIN mine : mine[j].case = column.cases[j]
    BY DEF Under
  <2> HIDE DEF column
  <2>4. Len(mine) = Len(column.cases)
    BY DEF column
  <2> QED
    BY <2>1, <2>2, <2>3, <2>4
<1>4. cell.gate => mine /= <<>> /\ \A j \in DOMAIN mine : GateOf(mine[j])
  BY <1>1
<1>5. ASSUME cell.tokens # {}, NEW j \in DOMAIN mine
      PROVE  \A n \in DOMAIN mine[j].runs : mine[j].runs[n].tokens /= {}
  <2>1. \A i \in DOMAIN parts : parts[i] # {}
    BY <1>1, <1>5 DEF SumKnown
  <2>2. TotalUsage(mine[j]) # {}
    BY <2>1
  <2> DEFINE known == [i \in DOMAIN mine[j].runs |-> mine[j].runs[i].tokens]
  <2>3. SumKnown(known) # {}
    BY <2>2 DEF TotalUsage
  <2>4. \A i \in DOMAIN known : known[i] # {}
    <3> HIDE DEF known
    <3> QED
      BY <2>3 DEF SumKnown
  <2> QED
    BY <2>4
<1>6. SaysTrue(cell, column, mine)
  <2> HIDE DEF cell, column
  <2> QED
    BY <1>1, <1>2, <1>3, <1>4, <1>5 DEF SaysTrue
<1> QED
  BY <1>1, <1>6 DEF CellFits

LEMMA SkippedFits ==
  ASSUME NEW m, NEW x, NEW mine, Under(ColumnAt(m, x), mine),
         MissingRequirements(ColumnAt(m, x)) # {}
  PROVE  CellFits(m, x, SkippedCell(RowAt(m, x), ColumnAt(m, x).id), mine)
<1>1. mine = <<>>
  BY DEF Under
<1>2. ~(ColumnAt(m, x).needs \subseteq Host)
  BY DEF MissingRequirements
<1> QED
  BY <1>1, <1>2 DEF CellFits, SaysTrue, SkippedCell

LEMMA TableStarts == MatrixInit => TableInv
<1> SUFFICES ASSUME MatrixInit
             PROVE  TableInv
  OBVIOUS
<1>1. made = [p \in ToSet(matrix.names) \X ColumnIds(matrix) |-> <<>>]
  BY DEF MatrixInit
<1>2. Shaped(matrix, made) /\ Blank(matrix, made)
  BY <1>1, EmptyIs DEF Shaped, Blank
<1> QED
  BY <1>2, EmptyIs DEF MatrixInit, TableInv

LEMMA TableStays == TableInv /\ [MatrixStep]_matrixVars => TableInv'
<1> SUFFICES ASSUME TableInv, [MatrixStep]_matrixVars
             PROVE  TableInv'
  OBVIOUS
<1> USE DEF TableInv
<1> DEFINE now == Len(cells)
           mine == made[PairAt(matrix, now)]
<1>1. Model = RowAt(matrix, now) /\ Column = ColumnAt(matrix, now)
      /\ CellResults = mine /\ (MoreCells <=> now < CellCount(matrix))
  BY DEF Model, Column, CellResults, MoreCells, RowAt, ColumnAt, PairAt, CellCount
<1>2. CASE UNCHANGED <<matrix, progress, made, cells>>
  BY <1>2
<1>3. CASE SelectColumns
  <2>1. UNCHANGED <<matrix, made, cells>> /\ cells = <<>> /\ Blank(matrix, made)
    BY <1>3 DEF SelectColumns
  <2>2. CASE MatrixAccepted(matrix)
    <3>1. Arranged(matrix, cells, made) /\ progress' = "running"
      BY <1>3, <2>1, <2>2, AcceptedPlaces DEF SelectColumns
    <3> QED
      BY <2>1, <3>1
  <2>3. CASE ~MatrixAccepted(matrix)
    BY <1>3, <2>1, <2>3 DEF SelectColumns
  <2> QED
    BY <2>2, <2>3
<1>4. CASE RunCase
  <2>1. Arranged(matrix, cells, made) /\ progress = "running" /\ progress' = "running"
        /\ now < CellCount(matrix) /\ matrix' = matrix /\ cells' = cells
    BY <1>1, <1>4 DEF RunCase
  <2>2. PICK os \in [1..Trials(matrix) -> RunResults] :
          made' = [made EXCEPT ![<<Model, Column.id>>] =
                     Append(@, [case |-> Column.cases[Len(CellResults) + 1], runs |-> os])]
    BY <1>4 DEF RunCase
  <2> DEFINE r == [case |-> ColumnAt(matrix, now).cases[Len(mine) + 1], runs |-> os]
  <2>3. made' = [made EXCEPT ![PairAt(matrix, now)] = Append(mine, r)]
    BY <1>1, <2>2 DEF PairAt
  <2>4. MissingRequirements(ColumnAt(matrix, now)) = {}
        /\ Len(mine) < Len(ColumnAt(matrix, now).cases)
    BY <1>1, <1>4 DEF RunCase
  <2>5. r.case = ColumnAt(matrix, now).cases[Len(mine) + 1]
    OBVIOUS
  <2> HIDE DEF r
  <2>6. Shaped(matrix, made') /\ Arranged(matrix, cells, made')
    BY <2>1, <2>3, <2>4, <2>5, RunPlaces
  <2> QED
    BY <2>1, <2>6
<1>5. ASSUME NEW cell, CellFits(matrix, now, cell, mine), cells' = Append(cells, cell), MoreCells,
             progress = "running", UNCHANGED <<matrix, progress, made>>
      PROVE  TableInv'
  <2>1. Listed(cells') /\ Arranged(matrix, cells', made)
    BY <1>1, <1>5, CellPlaces
  <2> QED
    BY <1>5, <2>1
<1>6. MoreCells /\ progress = "running" =>
        /\ Under(ColumnAt(matrix, now), mine) /\ Listed(mine) /\ IsList(ColumnAt(matrix, now).cases)
  <2> SUFFICES ASSUME MoreCells, progress = "running"
               PROVE  Under(ColumnAt(matrix, now), mine) /\ Listed(mine)
                      /\ IsList(ColumnAt(matrix, now).cases)
    OBVIOUS
  <2>1. Arranged(matrix, cells, made) /\ now < CellCount(matrix)
    BY <1>1
  <2>2. MatrixAccepted(matrix) /\ now \in 0..(CellCount(matrix) - 1)
    BY <2>1, TotalNat, ListedLen DEF Arranged
  <2>3. PairAt(matrix, now) \in ToSet(matrix.names) \X ColumnIds(matrix)
        /\ IsList(ColumnAt(matrix, now).cases)
    BY <2>2, CellPlaced
  <2> QED
    BY <2>1, <2>2, <2>3 DEF Arranged, Shaped
<1>7. CASE CellMade
  <2>1. CellFits(matrix, now, BuildCell(RowAt(matrix, now), ColumnAt(matrix, now).id, mine), mine)
    BY <1>1, <1>6, <1>7, BuiltFits DEF CellMade
  <2> QED
    BY <1>1, <1>5, <1>7, <2>1 DEF CellMade
<1>8. CASE SkipCell
  <2>1. CellFits(matrix, now, SkippedCell(RowAt(matrix, now), ColumnAt(matrix, now).id), mine)
    BY <1>1, <1>6, <1>8, SkippedFits DEF SkipCell
  <2> QED
    BY <1>1, <1>5, <1>8, <2>1 DEF SkipCell
<1>9. CASE Tabulated
  <2>1. UNCHANGED <<matrix, made, cells>> /\ progress = "running" /\ progress' = "tabulated"
        /\ ~(now < CellCount(matrix))
    BY <1>1, <1>9 DEF Tabulated
  <2>2. now \in Nat /\ CellCount(matrix) \in Nat
    BY <2>1, TotalNat, ListedLen DEF Arranged
  <2> QED
    BY <2>1, <2>2
<1>10. CASE UNCHANGED <<matrix, made, cells>> /\ progress' = "raised"
  BY <1>10
<1>11. CASE CandidatesBuilt
  BY <1>11 DEF CandidatesBuilt
<1>12. CandidateFails \/ CaseRaises => UNCHANGED <<matrix, made, cells>> /\ progress' = "raised"
  BY DEF CandidateFails, CaseRaises
<1>13. ExportSteps \/ BuildCandidate \/ UNCHANGED matrixVars =>
         UNCHANGED <<matrix, progress, made, cells>>
  BY ExportsApart DEF BuildCandidate, matrixVars
<1> QED
  BY <1>2, <1>3, <1>4, <1>7, <1>8, <1>9, <1>10, <1>11, <1>12, <1>13 DEF MatrixStep, ExportSteps

LEMMA TableSays == TableInv => TableIsTrue
<1> SUFFICES ASSUME TableInv, progress = "tabulated",
                    NEW i \in DOMAIN matrix.names, NEW k \in DOMAIN ColumnsOf(matrix)
             PROVE  SaysTrue(CellOf(matrix.names[i], ColumnsOf(matrix)[k].id), ColumnsOf(matrix)[k],
                             made[<<matrix.names[i], ColumnsOf(matrix)[k].id>>])
  BY DEF TableIsTrue
<1> DEFINE model == matrix.names[i]
           column == ColumnsOf(matrix)[k].id
<1>1. matrix \in Matrices /\ Arranged(matrix, cells, made) /\ MatrixAccepted(matrix)
      /\ Len(cells) = CellCount(matrix) /\ CellCount(matrix) \in Nat /\ DOMAIN cells = 1..Len(cells)
  BY TotalNat, ListedLen DEF TableInv, Arranged
<1>2. PICK x \in 0..(CellCount(matrix) - 1) :
         RowAt(matrix, x) = model /\ ColumnAt(matrix, x) = ColumnsOf(matrix)[k]
  BY <1>1, CellNumbered
<1>3. \A y \in 0..(CellCount(matrix) - 1) : CellFits(matrix, y, cells[y + 1], made[PairAt(matrix, y)])
  BY <1>1 DEF Arranged
<1>4. x + 1 \in DOMAIN cells /\ cells[x + 1].model = model /\ cells[x + 1].column = column
  BY <1>1, <1>2, <1>3 DEF CellFits
<1>5. ASSUME NEW j \in DOMAIN cells, cells[j].model = model, cells[j].column = column
      PROVE  j = x + 1
  <2>1. j - 1 \in 0..(CellCount(matrix) - 1) /\ (j - 1) + 1 = j
    BY <1>1
  <2>2. CellFits(matrix, j - 1, cells[j], made[PairAt(matrix, j - 1)])
    BY <1>3, <2>1
  <2>3. PairAt(matrix, j - 1) = PairAt(matrix, x)
    BY <1>2, <1>5, <2>2 DEF CellFits, PairAt
  <2>4. j - 1 = x
    BY <1>1, <1>2, <2>1, <2>3, PairsDiffer
  <2> QED
    BY <2>1, <2>4
<1>6. CellOf(model, column) = cells[x + 1]
  <2> DEFINE First(n) == /\ cells[n].model = model /\ cells[n].column = column
                         /\ \A j \in DOMAIN cells :
                              cells[j].model = model /\ cells[j].column = column => n <= j
  <2>1. x + 1 \in Int /\ x + 1 <= x + 1
    BY <1>1
  <2>2. \A n \in DOMAIN cells : First(n) <=> n = x + 1
    BY <1>4, <1>5, <2>1
  <2>3. (CHOOSE n \in DOMAIN cells : First(n)) = x + 1
    <3> HIDE DEF First
    <3> QED
      BY <1>4, <2>2
  <2> QED
    BY <2>3 DEF CellOf
<1>7. SaysTrue(cells[x + 1], ColumnAt(matrix, x), made[PairAt(matrix, x)])
  BY <1>3 DEF CellFits
<1> QED
  BY <1>2, <1>6, <1>7 DEF PairAt

MatrixInv == ClientsInv /\ ExportsInv /\ TableInv

LEMMA MatrixInvariant == MatrixSpec => []MatrixInv
<1>1. MatrixInit => MatrixInv
  BY ClientsStart, ExportsStart, TableStarts DEF MatrixInv
<1>2. MatrixInv /\ [MatrixStep]_matrixVars => MatrixInv'
  BY ClientsStay, ExportsStay, TableStays DEF MatrixInv
<1> QED
  BY <1>1, <1>2, PTL DEF MatrixSpec

(* What an evaluation reports can be believed: the gate over a scenario and *)
(* the sink it borrowed (run_scenario); the table over any models and       *)
(* columns, the clients behind it, and the files it is exported to.         *)
THEOREM EvaluationsAreHonest == EvalSpec /\ MatrixSpec => []EvaluationIsHonest
<1>1. MatrixInv => TableIsTrue /\ NoClientLeaks /\ ExportsStand
  BY TableSays, NoneLeaks, TheyStand DEF MatrixInv
<1>2. EvalIsHonest /\ TableIsTrue /\ NoClientLeaks /\ ExportsStand => EvaluationIsHonest
  BY DEF EvaluationIsHonest
<1> QED
  BY <1>1, <1>2, EvaluatedHonestly, MatrixInvariant, PTL
=============================================================================

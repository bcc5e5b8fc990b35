----------------------------- MODULE EvalMatrix -----------------------------
(***************************************************************************)
(* The capability matrix (evals/matrix.py): candidate models are built, a  *)
(* cell is run for every model and column through run_scenario, and the    *)
(* table is exported beside what other jobs export in the same second.     *)
(***************************************************************************)
EXTENDS EvalRun, SequencesExt

CONSTANTS
    Matrices,     \* what a matrix is asked for
    Capabilities, \* CAPABILITIES, in order: id, needs, agent, cases
    Host,         \* executables found on $PATH
    Holds,        \* Holds[n]: what model n's client attributes hold, in order
    EnvRuns,      \* EVAL_RUNS, or 3
    RunResults,   \* what one run of a scenario may be reported as
    Exports,      \* export jobs of this second: "matrix" or "results" each
    Existing      \* files there before

IsColumn(c) == IsList(c.cases)

ASSUME MatrixAssumption ==
    /\ EnvRuns \in Nat
    /\ IsList(Capabilities) /\ \A c \in ToSet(Capabilities) : IsColumn(c)
    /\ \A m \in Matrices : /\ IsList(m.names) /\ IsList(m.extras)
                           /\ \A c \in ToSet(m.extras) : IsColumn(c)
                           /\ \A ids \in m.picked : IsList(ids)
    /\ "earlier" \notin DOMAIN Exports

VARIABLES
    matrix, \* the request
    progress,   \* "building", "selecting", "running", "tabulated", "raised"
    built,  \* candidates built so far
    shut,   \* clients whose closer was called
    made,   \* made[<<n, id>>]: what was run for model n and column id, in order
    cells,  \* cells made, in order
    files,  \* files of the results directory: name and the job that wrote it
    export  \* export[e]: where job e's export stands

matrixVars == <<matrix, progress, built, shut, made, cells, files, export>>

-----------------------------------------------------------------------------
(* candidates_from_names.                                                   *)

\* The distinct closable clients behind a model, direct or in a wrapper.
OwnedClients(n) ==
    {Holds[n][i].of : i \in {j \in DOMAIN Holds[n] : Holds[n][j].is /= "nothing"}}

\* A client that fails to close is ignored.
Tried(clients, failing) == clients

BuildCandidate ==
    /\ progress = "building" /\ built < Len(matrix.names)
    /\ built' = built + 1
    /\ UNCHANGED <<matrix, progress, shut, made, cells, files, export>>

EarlierClients == UNION {OwnedClients(matrix.names[i]) : i \in 1..built}

\* No provider, no such model, a missing key: the earlier clients are closed.
CandidateFails ==
    /\ progress = "building" /\ built < Len(matrix.names)
    /\ \E failing \in SUBSET EarlierClients : shut' = Tried(EarlierClients, failing)
    /\ progress' = "raised"
    /\ UNCHANGED <<matrix, built, made, cells, files, export>>

CandidatesBuilt ==
    /\ progress = "building" /\ built = Len(matrix.names)
    /\ progress' = "selecting"
    /\ UNCHANGED <<matrix, built, shut, made, cells, files, export>>

-----------------------------------------------------------------------------
(* run_capability_matrix.                                                   *)

CapabilityIds == {Capabilities[i].id : i \in DOMAIN Capabilities}
GetCapability(id) == CHOOSE c \in {Capabilities[i] : i \in DOMAIN Capabilities} : c.id = id
MissingRequirements(c) == c.needs \ Host

Selected(m) == IF m.picked = {} THEN Capabilities
               ELSE LET ids == CHOOSE p \in m.picked : TRUE
                    IN [i \in DOMAIN ids |-> GetCapability(ids[i])]

ColumnsOf(m) == Selected(m) \o m.extras
ColumnIds(m) == CapabilityIds \cup {c.id : c \in ToSet(m.extras)}
Trials(m) == IF m.runs = {} THEN EnvRuns ELSE CHOOSE n \in m.runs : TRUE

\* Refused: no model or one twice, an unknown capability or one twice, an
\* extra column named as another, no run.
MatrixAccepted(m) ==
    /\ m.names /= <<>>
    /\ IsInjective(m.names)
    /\ \A ids \in m.picked : \A i \in DOMAIN ids : ids[i] \in CapabilityIds
    /\ IsInjective([i \in DOMAIN ColumnsOf(m) |-> ColumnsOf(m)[i].id])
    /\ Trials(m) >= 1

SelectColumns ==
    /\ progress = "selecting"
    /\ progress' = IF MatrixAccepted(matrix) THEN "running" ELSE "raised"
    /\ UNCHANGED <<matrix, built, shut, made, cells, files, export>>

\* The cell being made: columns of one model, then those of the next.
Model == matrix.names[(Len(cells) \div Len(ColumnsOf(matrix))) + 1]
Column == ColumnsOf(matrix)[(Len(cells) % Len(ColumnsOf(matrix))) + 1]
MoreCells == Len(cells) < Len(matrix.names) * Len(ColumnsOf(matrix))

CellResults == made[<<Model, Column.id>>]

\* A shipped scenario that is not of its capability's fixture agent.
CasesLoad(c) == \A i \in DOMAIN c.cases : c.cases[i].agent = c.agent

\* run_case: the scenario's runs, each reported by run_scenario; it may raise
\* instead, and the matrix with it.
RunCase ==
    /\ progress = "running" /\ MoreCells
    /\ MissingRequirements(Column) = {} /\ CasesLoad(Column)
    /\ Len(CellResults) < Len(Column.cases)
    /\ \E os \in [1..Trials(matrix) -> RunResults] :
          made' = [made EXCEPT ![<<Model, Column.id>>] =
                      Append(@, [case |-> Column.cases[Len(CellResults) + 1], runs |-> os])]
    /\ UNCHANGED <<matrix, progress, built, shut, cells, files, export>>

CaseRaises ==
    /\ progress = "running" /\ MoreCells /\ MissingRequirements(Column) = {}
    /\ CasesLoad(Column) => Len(CellResults) < Len(Column.cases)
    /\ progress' = "raised"
    /\ UNCHANGED <<matrix, built, shut, made, cells, files, export>>

\* A total is known only where every part of it is.
SumOfKnown(parts) ==
    LET known == SelectSeq(parts, LAMBDA p : p /= {})
    IN {FoldSeq(+, 0, [i \in DOMAIN known |-> CHOOSE n \in known[i] : TRUE])}
SumKnown(parts) ==
    IF parts = <<>> \/ \E i \in DOMAIN parts : parts[i] = {} THEN {} ELSE SumOfKnown(parts)

TotalUsage(result) == SumKnown([i \in DOMAIN result.runs |-> result.runs[i].tokens])

GateOf(result) == Gate([category |-> result.case.category, threshold |-> {}], result.runs)
CountRuns(results, field) ==
    FoldSeq(+, 0, [i \in DOMAIN results |->
                       Cardinality({j \in DOMAIN results[i].runs : results[i].runs[j][field]})])

BuildCell(model, column, results) ==
    LET failing == {i \in DOMAIN results : ~GateOf(results[i])}
    IN [model |-> model, column |-> column, skipped |-> FALSE,
        passed |-> CountRuns(results, "passed"),
        exercised |-> CountRuns(results, "exercised"),
        gate |-> results /= <<>> /\ failing = {}, failing |-> failing,
        tokens |-> SumKnown([i \in DOMAIN results |-> TotalUsage(results[i])])]

SkippedCell(model, column) ==
    [model |-> model, column |-> column, skipped |-> TRUE, passed |-> 0, exercised |-> 0,
     gate |-> FALSE, failing |-> {}, tokens |-> {}]

CellMade ==
    /\ progress = "running" /\ MoreCells
    /\ MissingRequirements(Column) = {} /\ CasesLoad(Column)
    /\ Len(CellResults) = Len(Column.cases)
    /\ cells' = Append(cells, BuildCell(Model, Column.id, CellResults))
    /\ UNCHANGED <<matrix, progress, built, shut, made, files, export>>

SkipCell ==
    /\ progress = "running" /\ MoreCells /\ MissingRequirements(Column) /= {}
    /\ cells' = Append(cells, SkippedCell(Model, Column.id))
    /\ UNCHANGED <<matrix, progress, built, shut, made, files, export>>

Tabulated ==
    /\ progress = "running" /\ ~MoreCells
    /\ progress' = "tabulated"
    /\ UNCHANGED <<matrix, built, shut, made, cells, files, export>>

\* CapabilityMatrix.cell: the first that bears both names.
CellOf(model, column) ==
    cells[CHOOSE i \in DOMAIN cells :
              /\ cells[i].model = model /\ cells[i].column = column
              /\ \A j \in DOMAIN cells : cells[j].model = model /\ cells[j].column = column
                                         => i <= j]

-----------------------------------------------------------------------------
(* write_matrix and write_results, by jobs that share a directory and a     *)
(* second.  A name is the stem's family, its suffix and its extension.      *)

Name(e, ext) == <<Exports[e], export[e].suffix, ext>>
Taken(name) == \E f \in files : f.name = name
At(e, where) == progress = "tabulated" /\ export[e].at = where
Move(e, where) == export' = [export EXCEPT ![e].at = where]

\* open("x"): a name that is taken sends the job to the next suffix.
NextSuffix(e) == export' = [export EXCEPT ![e] = [at |-> "json", suffix |-> @.suffix + 1]]
Create(e, name) == files' = files \cup {[name |-> name, by |-> e]}

CreateJson(e) ==
    /\ At(e, "json") /\ Exports[e] = "matrix"
    /\ IF Taken(Name(e, "json")) THEN NextSuffix(e) /\ UNCHANGED files
                                 ELSE Create(e, Name(e, "json")) /\ Move(e, "md")
    /\ UNCHANGED <<matrix, progress, built, shut, made, cells>>

\* A stem whose table's name is taken is given up: its JSON is unlinked.
Unlinked(e) == {f \in files : f.name /= Name(e, "json")}

CreateTable(e) ==
    /\ At(e, "md") /\ Exports[e] = "matrix"
    /\ IF Taken(Name(e, "md"))
         THEN NextSuffix(e) /\ files' = Unlinked(e)
         ELSE Create(e, Name(e, "md")) /\ Move(e, "done")
    /\ UNCHANGED <<matrix, progress, built, shut, made, cells>>

\* write_text truncates whatever has the name.
Truncate(e) ==
    /\ Exports[e] = "results"
    /\ \E ext \in {"json", "md"} :
          /\ At(e, ext)
          /\ files' = {f \in files : f.name /= Name(e, ext)}
                      \cup {[name |-> Name(e, ext), by |-> e]}
          /\ Move(e, IF ext = "json" THEN "md" ELSE "done")
    /\ UNCHANGED <<matrix, progress, built, shut, made, cells>>

\* The job dies, or a write fails: what it created stays.
ExportDies(e) ==
    /\ At(e, "json") \/ At(e, "md")
    /\ Move(e, "gone")
    /\ UNCHANGED <<matrix, progress, built, shut, made, cells, files>>

-----------------------------------------------------------------------------
MatrixInit ==
    /\ matrix \in Matrices
    /\ progress = "building" /\ built = 0 /\ shut = {} /\ cells = <<>>
    /\ made = [cell \in ToSet(matrix.names) \X ColumnIds(matrix) |-> <<>>]
    /\ files = {[name |-> n, by |-> "earlier"] : n \in Existing}
    /\ export = [e \in DOMAIN Exports |-> [at |-> "json", suffix |-> 0]]

MatrixStep ==
    \/ BuildCandidate \/ CandidateFails \/ CandidatesBuilt \/ SelectColumns
    \/ RunCase \/ CaseRaises \/ CellMade \/ SkipCell \/ Tabulated
    \/ \E e \in DOMAIN Exports : CreateJson(e) \/ CreateTable(e) \/ Truncate(e) \/ ExportDies(e)

-----------------------------------------------------------------------------
SaysTrue(cell, column, mine) ==
    /\ cell.skipped <=> ~(column.needs \subseteq Host)
    /\ cell.skipped => mine = <<>> /\ ~cell.gate
    /\ ~cell.skipped => [j \in DOMAIN mine |-> mine[j].case] = column.cases
    /\ cell.gate => mine /= <<>> /\ \A j \in DOMAIN mine : GateOf(mine[j])
    /\ cell.tokens /= {} =>
         \A j \in DOMAIN mine : \A n \in DOMAIN mine[j].runs : mine[j].runs[n].tokens /= {}

(* A table says of each model and column what was run for it, whichever of  *)
(* its entries is looked up: a skipped cell never made and never passes, a  *)
(* gate passed has every case of the column behind it, once each, each past *)
(* its own gate, and a total of tokens leaves no run out.                   *)
TableIsTrue ==
    progress = "tabulated" => \A i \in DOMAIN matrix.names, k \in DOMAIN ColumnsOf(matrix) :
        LET column == ColumnsOf(matrix)[k]
        IN SaysTrue(CellOf(matrix.names[i], column.id), column,
                    made[<<matrix.names[i], column.id>>])

(* A candidate that cannot be built leaks no client of an earlier one, even *)
(* when some of them fail to close.                                         *)
NoClientLeaks == progress = "raised" /\ cells = <<>> /\ built < Len(matrix.names) =>
                     EarlierClients \subseteq shut

(* matrix.py:480-482: two exports of one second never replace each other's  *)
(* matrix, nor an earlier one, and a finished one's table and JSON are its  *)
(* own.                                                                     *)
ExportsStand ==
    /\ \A n \in Existing : n[1] = "matrix" => [name |-> n, by |-> "earlier"] \in files
    /\ \A e \in DOMAIN Exports : Exports[e] = "matrix" /\ export[e].at = "done" =>
          \A ext \in {"json", "md"} : [name |-> Name(e, ext), by |-> e] \in files

(* What an evaluation reports can be believed: the gate over a scenario,    *)
(* and the table over models and capabilities, as exported.                 *)
EvaluationIsHonest == EvalIsHonest /\ TableIsTrue /\ NoClientLeaks /\ ExportsStand

(* write_results truncates: of two reports of one second, what remains may  *)
(* be one job's JSON beside the other's table.                              *)
ReportsStand ==
    \A e \in DOMAIN Exports : Exports[e] = "results" /\ export[e].at = "done" =>
        \A ext \in {"json", "md"} : [name |-> Name(e, ext), by |-> e] \in files
=============================================================================

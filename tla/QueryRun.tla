------------------------------ MODULE QueryRun ------------------------------
(***************************************************************************)
(* One call of the SQL tool (connectors/sql_query_connector.py): the guard *)
(* on the statement, then one read-only transaction of run_guarded_query   *)
(* -- role check, gated cursor, fetches within the row and byte budgets,   *)
(* rollback -- while grants drift, the database fails at any step and the  *)
(* call is cancelled at any await.                                         *)
(***************************************************************************)
EXTENDS SqlGuard

CONSTANTS
    Queries,     \* what the model writes, and how the renderer writes it back
    Roles,       \* what the tool's database role may be allowed to do
    Results,     \* what a statement may yield: rows with their text and JSON sizes
    RowLimit, ByteLimit, FetchBatch,
    AllowBaseTables,
    MaxDrifts    \* bound: changes of the role during a call

ASSUME QueryAssumption ==
    /\ {RowLimit, ByteLimit, FetchBatch} \subseteq Nat \ {0}
    /\ AllowBaseTables \in BOOLEAN /\ MaxDrifts \in Nat

(* Relations are named by schema and name; what the guard looks for in a    *)
(* tree is all that the tree holds here; a row's text and JSON have a size; *)
(* and the renderer writes the schema of each relation that was resolved.   *)
ASSUME StatementAssumption ==
    /\ \A r \in Relations : r = <<r[1], r[2]>>
    /\ \A q \in Queries : q.rendering.holds \subseteq Refused
    /\ \A q \in Queries : \A t \in q.again.tables : IsRelation(t) /\ Resolves(t) => t.schema /= ""
    /\ \A rows \in Results : rows \in Seq([size : Nat, json : Nat])

VARIABLES
    query, role, drifts,
    step,     \* where the call stands
    checked,  \* the role as the check found it (history)
    ran,      \* the statement the cursor runs
    result,   \* all the rows it yields, as of the cursor's snapshot
    fetched,  \* rows of it fetched and kept so far
    told    \* what the model is told

queryVars == <<query, role, drifts, step, checked, ran, result, fetched, told>>

-----------------------------------------------------------------------------
(* evaluate_query_role: facts about the role and findings about what it can *)
(* reach outside the system schemas.                                        *)

AcceptedKind(o) ==
    \/ o.relkind \in {"r", "p"} /\ AllowBaseTables
    \/ o.relkind = "m"
    \/ o.relkind = "v" /\ o.barrier

FindingSafe(o) ==
    /\ o.kind \notin {"schema", "function"}
    /\ ~o.write
    /\ o.select => o.kind = "relation" /\ o.name \in Relations /\ AcceptedKind(o)

Safe(r) ==
    /\ r.found /\ r.readOnly /\ ~r.elevated /\ ~r.member /\ ~r.creates /\ r.tempCapped
    /\ \A o \in r.findings : FindingSafe(o)

Readable(r) == {o.name : o \in {x \in r.findings : x.kind = "relation" /\ x.select}}

-----------------------------------------------------------------------------
(* As PostgreSQL resolves names on an empty search_path: an unqualified one *)
(* that is no CTE can only be a system relation.                            *)
DatabaseReads(s) ==
    {<<IF t.schema = "" THEN "pg_catalog" ELSE t.schema, t.name>> :
        t \in {u \in s.tables : IsRelation(u)}}

SizeOf(rows, n) == LET S[i \in 0..n] == IF i = 0 THEN 0 ELSE S[i - 1] + rows[i].size IN S[n]
JsonOf(rows, n) ==
    LET S[i \in 0..n] == IF i = 0 THEN 2 ELSE S[i - 1] + rows[i].json + (IF i > 1 THEN 2 ELSE 0)
    IN S[n]

\* LIMIT row_limit + 1 around the rendering: one row past the cap shows more.
Sent == IF Len(result) > RowLimit + 1 THEN RowLimit + 1 ELSE Len(result)

None == [kind |-> "none"]
Told(kind) == [kind |-> kind]

\* finally: rolled back, whatever ended it.
Finish(a) == step' = "ended" /\ told' = a

QueryInit ==
    /\ query \in Queries /\ role \in Roles
    /\ drifts = 0 /\ step = "guard" /\ checked = {} /\ ran = {}
    /\ result = <<>> /\ fetched = 0 /\ told = None

Guard ==
    /\ step = "guard"
    /\ IF Guarded(query) THEN step' = "check" /\ UNCHANGED told
                         ELSE Finish(Told("query_rejected"))
    /\ UNCHANGED <<query, role, drifts, checked, ran, result, fetched>>

\* Inside the transaction, after READ ONLY and the limits, on every call.
CheckRole ==
    /\ step = "check"
    /\ checked' = {role}
    /\ IF Safe(role) THEN step' = "declare" /\ UNCHANGED told
                     ELSE Finish(Told("role_not_read_only"))
    /\ UNCHANGED <<query, role, drifts, ran, result, fetched>>

Declare ==
    /\ step = "declare"
    /\ IF DatabaseReads(query.rendering) \subseteq Readable(role)
         THEN /\ ran' = {query.rendering}
              /\ result' \in Results
              /\ step' = "fetch" /\ UNCHANGED told
         ELSE Finish(Told("refused_by_database")) /\ UNCHANGED <<ran, result>>
    /\ UNCHANGED <<query, role, drifts, checked, fetched>>

\* The row is counted before its bytes are.
RowAtLimit(n) == n >= RowLimit
RowOver(n) == n > RowLimit
BytesOver(n) == SizeOf(result, n) > ByteLimit

\* Rows cut once more, before their JSON exceeds the budget.
Kept(n) == CHOOSE k \in 0..n : /\ k = 0 \/ JsonOf(result, k) <= ByteLimit
                               /\ k = n \/ JsonOf(result, k + 1) > ByteLimit

Answered(n, more, cut) ==
    LET kept == Kept(n)
        bytes == cut \/ kept < n
    IN [kind |-> "rows", rows |-> kept, truncated |-> more \/ bytes, bytes |-> bytes,
        empty |-> kept = 0 /\ ~more /\ ~bytes,
        relations |-> RelationsOf(query.rendering)]

Fetch ==
    LET last == IF fetched + FetchBatch < Sent THEN fetched + FetchBatch ELSE Sent
        over == {n \in (fetched + 1)..last : RowOver(n) \/ BytesOver(n)}
        first == CHOOSE n \in over : \A m \in over : n <= m
    IN /\ step = "fetch"
       /\ IF over /= {}
            THEN /\ fetched' = first - 1
                 /\ Finish(Answered(first - 1, RowOver(first), ~RowOver(first)))
            ELSE /\ fetched' = last
                 /\ IF last - fetched < FetchBatch
                      THEN Finish(Answered(last, FALSE, FALSE))
                      ELSE UNCHANGED <<step, told>>
       /\ UNCHANGED <<query, role, drifts, checked, ran, result>>

\* Unreachable, timed out, a bad column, a value Python cannot hold: each has
\* its fixed text and never rows.
DatabaseFails ==
    /\ step \in {"check", "declare", "fetch"}
    /\ Finish(Told("failed"))
    /\ UNCHANGED <<query, role, drifts, checked, ran, result, fetched>>

\* The interceptor's limit on the call.
Cancelled ==
    /\ step \in {"guard", "check", "declare", "fetch"}
    /\ Finish(Told("cancelled"))
    /\ UNCHANGED <<query, role, drifts, checked, ran, result, fetched>>

\* A cursor that is open keeps the privileges it was declared with.
Drift ==
    /\ drifts < MaxDrifts /\ step \in {"guard", "check", "declare"} /\ drifts' = drifts + 1
    /\ role' \in Roles \ {role}
    /\ UNCHANGED <<query, step, checked, ran, result, fetched, told>>

QueryStep == Guard \/ CheckRole \/ Declare \/ Fetch \/ DatabaseFails \/ Cancelled \/ Drift

QuerySpec == QueryInit /\ [][QueryStep]_queryVars

-----------------------------------------------------------------------------
(* What runs is one plain SELECT that reads allowlisted relations only, as  *)
(* the database resolves their names, whatever the role has been granted    *)
(* since it was checked; and the answer names them all.                     *)
ReadsInside ==
    \A s \in ran : /\ s.count = 1 /\ s.root = "select" /\ s.holds = {}
                   /\ DatabaseReads(s) \subseteq Relations
                   /\ told.kind = "rows" => told.relations = DatabaseReads(s)

\* What any statement could do as this role: read (anything a membership, an
\* attribute or an owner's function reaches), change, or see past a view.
Reaches(r) == r.elevated \/ r.member \/ \E o \in r.findings : o.kind = "function"
MayRead(r) == {o.name : o \in {x \in r.findings : x.select}}
MayChange(r) == r.creates \/ \E o \in r.findings : o.write \/ o.kind = "schema"
SeesPast(r) == \E o \in r.findings : o.select /\ o.relkind = "v" /\ ~o.barrier

(* The second layer holds by itself: a role under which a query runs could, *)
(* as it was checked, neither read outside the allowlist nor change         *)
(* anything, whatever statement the guard had let through.                  *)
RoleContains ==
    ran /= {} => \A r \in checked : ~Reaches(r) /\ MayRead(r) \subseteq Relations
                                    /\ ~MayChange(r) /\ ~SeesPast(r)

QueryContained == ReadsInside /\ RoleContains

Fits(rows) == /\ Len(rows) <= RowLimit /\ SizeOf(rows, Len(rows)) <= ByteLimit
              /\ JsonOf(rows, Len(rows)) <= ByteLimit

(* The rows told are the result's first, within both limits and none of     *)
(* them hollow; more than told is always said, and said only when a limit   *)
(* was met; "nothing matched" is said of an empty result only.              *)
AnswerHonest ==
    told.kind = "rows" =>
        /\ told.rows <= RowLimit
        /\ told.rows > 0 => JsonOf(result, told.rows) <= ByteLimit
        /\ \A n \in 1..told.rows : result[n].size <= ByteLimit
        /\ ~told.truncated <=> told.rows = Len(result)
        /\ told.empty <=> result = <<>>
        /\ Fits(result) => ~told.truncated

(* One guarded query as a whole: the text the parser is spared, what the    *)
(* statement may reach and what its answer tells.                           *)
QuerySafe == ScanCountsAll /\ QueryContained /\ AnswerHonest
=============================================================================

----------------------------- MODULE MCPlatform -----------------------------
(***************************************************************************)
(* The process around a turn, for TLC: boot and teardown (AppLifespan),    *)
(* health (HealthReport), one command (CommandRun), the SQL guard's scan   *)
(* (SqlGuard) and one guarded query (QueryRun), one evaluated scenario     *)
(* (EvalRun), one capability matrix (EvalMatrix), requests from outside    *)
(* (TurnEntry).  They share no state, so each behaviour is one of them,    *)
(* chosen at the start (part), and the others rest.                        *)
(***************************************************************************)
EXTENDS AppLifespan, HealthReport, CommandRun, QueryRun, EvalMatrix, TurnEntry, TLC

CONSTANTS a1, a2, r1, r2, bad, h1, h2, c1, p1, p2, ana, ben, ann

VARIABLE part

vars == <<part, lifespanVars, healthVars, commandVars, scanVars, queryVars, evalVars, matrixVars, entryVars>>

-----------------------------------------------------------------------------
(* Deployments: one that uses everything, every change of one thing it      *)
(* says, and a second application of the process that uses next to nothing. *)

NoAgents == [a \in {} |-> r1]

Full == [agents |-> (r1 :> "role") @@ (r2 :> "agent"), passed |-> FALSE, keyed |-> {},
         clients |-> {r1}, granted |-> {r1, r2}, channels |-> [whatsapp |-> r1, other |-> r2],
         adapter |-> {r2}, limited |-> {r1}, named |-> {}, creds |-> TRUE, roots |-> TRUE,
         deployed |-> {r1}, untrusted |-> {r1, r2}, fits |-> {r1, r2}, equips |-> {r1, r2},
         provider |-> "postgres", budgets |-> {r2}, bi |-> "readonly", saver |-> "postgres",
         retention |-> "known", flaws |-> {}]

Minimal == [Full EXCEPT !.agents = NoAgents, !.clients = {}, !.channels = NoAgents,
                        !.adapter = {}, !.limited = {}, !.creds = FALSE, !.budgets = {},
                        !.bi = "none", !.saver = "none", !.retention = "none"]

Other == [
    agents |-> {NoAgents, r1 :> "role", (r1 :> "role") @@ (bad :> "agent"),
                (r1 :> "agent") @@ (r2 :> "agent"), (r1 :> "role") @@ (r2 :> "folder")},
    passed |-> {TRUE}, keyed |-> {{"grants"}}, clients |-> {{}, {r1, r2}, {r1, bad}},
    granted |-> {{r1}, {r1, r2, bad}},
    channels |-> {NoAgents, [other |-> r2], [whatsapp |-> r1], [whatsapp |-> bad]},
    adapter |-> {{bad}}, limited |-> {{}, {bad}}, named |-> {{bad}}, creds |-> {FALSE},
    roots |-> {FALSE}, deployed |-> {{}}, untrusted |-> {{r1}}, fits |-> {{r1}, {r2}},
    equips |-> {{r1}}, provider |-> {"none", "memory"}, budgets |-> {{bad}, {}},
    bi |-> {"none", "writable"}, saver |-> {"none", "other"},
    retention |-> {"none", "unknown"},
    flaws |-> {{f} : f \in {"grant shape", "client name", "folder", "limits",
                            "default tool", "thin margin", "plain directory", "budget shape"}}]

Changed(c) == UNION {{[c EXCEPT ![f] = v] : v \in Other[f]} : f \in DOMAIN Other}
Unserved == [Minimal EXCEPT !.budgets = {r2}]
MCDeployments == (a1 :> ({Full, Unserved} \cup Changed(Full))) @@ (a2 :> {Minimal})
MCBoots == (a1 :> 2) @@ (a2 :> 1)

-----------------------------------------------------------------------------
(* Commands: one of each tool, and every way one is refused.                *)

Param == [shaped |-> TRUE, type |-> "string", pattern |-> {{"sku"}}, enum |-> {}, length |-> {3}]
Program == [is |-> "literal", of |-> "ship", path |-> "bare", found |-> "absolute"]
Literal(x) == [is |-> "literal", of |-> x]
Place(name) == [is |-> "param", of |-> name]
Entry == [shaped |-> TRUE, name |-> "ship", program |-> Program,
          rest |-> <<Literal("--item"), Place("item")>>, params |-> [item |-> Param],
          tier |-> 2, permission |-> "run"]

OtherParams ==
    {[Param EXCEPT !.shaped = FALSE], [Param EXCEPT !.type = "list"],
     [Param EXCEPT !.type = "integer", !.pattern = {}],
     [Param EXCEPT !.type = "integer", !.pattern = {}, !.length = {}],
     [Param EXCEPT !.pattern = {}],
     [Param EXCEPT !.pattern = {}, !.enum = {{"sku", "-1"}}], [Param EXCEPT !.length = {9}]}
OtherEntries ==
    [shaped |-> {FALSE}, name |-> {"send"},
     program |-> {[Program EXCEPT !.found = f] : f \in {"relative", "none"}}
                 \cup {[Program EXCEPT !.path = "absolute"], [Program EXCEPT !.is = "param"]},
     rest |-> {<<Literal("--item")>>, <<[is |-> "mix", of |-> "item"]>>,
               <<Place("item"), Place("other")>>},
     params |-> {[item |-> p] : p \in OtherParams}
                \cup {[item |-> Param, other |-> Param], [n \in {} |-> Param]},
     tier |-> {1, 3}, permission |-> {"exec"}]
Entries == UNION {{[Entry EXCEPT ![f] = v] : v \in OtherEntries[f]} : f \in DOMAIN Entry}

MCLengthOf == [sku |-> 3, other |-> 5] @@ ("-1" :> 3) @@ ("7" :> 1) @@ ("700000" :> 6)
Value(type, x) == [type |-> type, text |-> x]
Given == {[item |-> Value("string", x)] : x \in DOMAIN MCLengthOf}
         \cup {[item |-> Value("integer", x)] : x \in {"7", "-1", "700000"}}
Item == Value("string", "sku")

Command(tool) == [tool |-> tool, list |-> TRUE, null |-> FALSE, listed |-> TRUE,
                  manifest |-> <<Entry>>, name |-> "ship", inputs |-> [item |-> Item],
                  bwrap |-> TRUE, prlimit |-> TRUE]
MCCommands ==
    {[Command("command") EXCEPT !.manifest = m, !.inputs = g] :
        m \in {<<e>> : e \in {Entry} \cup Entries}, g \in Given}
    \cup {[Command("command") EXCEPT !.manifest = <<Entry, e>>] : e \in Entries}
    \cup {[Command("command") EXCEPT !.inputs = g] :
            g \in {[other |-> Item], [item |-> Item, other |-> Item]}}
    \cup {[Command("use_term") EXCEPT ![f] = ~@] :
            f \in {"list", "null", "listed", "bwrap", "prlimit"}}
    \cup {Command("use_term")}

-----------------------------------------------------------------------------
(* Statements over two schemas, what the renderer may make of them, roles   *)
(* that differ from a safe one in one thing, and results around the limits. *)

MCRelations == {<<"shop", "sales">>, <<"shop", "items">>, <<"hr", "sales">>}

Table(schema, name) ==
    [schema |-> schema, name |-> name, catalog |-> FALSE, call |-> FALSE, cte |-> FALSE]
Sales == Table("shop", "sales")
Select(tables) == [count |-> 1, root |-> "select", holds |-> {}, tables |-> tables]

Statements ==
    {Select(ts) : ts \in {{Sales}, {Sales, Table("hr", "pay")}, {Table("hr", "items")},
                          {[Table("", "tmp") EXCEPT !.cte = TRUE], Sales},
                          {Table("", "unnest")}, {[Sales EXCEPT !.catalog = TRUE]},
                          {[Table("shop", "unnest") EXCEPT !.call = TRUE]},
                          {[Table("", "unnest") EXCEPT !.call = TRUE], Table("hr", "sales")}}}
    \cup {[Select({Sales}) EXCEPT !.holds = {"function"}],
          [Select({Sales}) EXCEPT !.root = "other"], [Select({Sales}) EXCEPT !.count = 2]}

Written(read, rendering, again) ==
    [short |-> TRUE, read |-> read, rendering |-> rendering, again |-> again]

MCQueries ==
    {Written(s, s, s) : s \in Statements}
    \cup {Written(Select({Table("", n)}), Select({Table("shop", n)}), Select({Table("shop", n)})) :
            n \in {"sales", "items"}}
    \cup {Written(Select({Sales}), s, s) : s \in Statements}
    \cup {Written(Select({Sales}), Select({Sales}), Select({Table("hr", "sales")})),
          [Written(Select({Sales}), Select({Sales}), Select({Sales})) EXCEPT !.short = FALSE]}

Finding(kind, name, relkind) ==
    [kind |-> kind, name |-> name, select |-> TRUE, write |-> FALSE, relkind |-> relkind,
     barrier |-> TRUE]

SafeRole == [found |-> TRUE, readOnly |-> TRUE, elevated |-> FALSE, member |-> FALSE,
             creates |-> FALSE, tempCapped |-> TRUE,
             findings |-> {Finding("relation", r, "v") : r \in MCRelations}]

MCRoles ==
    {SafeRole}
    \cup {[SafeRole EXCEPT ![f] = ~@] :
            f \in {"found", "readOnly", "elevated", "member", "creates", "tempCapped"}}
    \cup {[SafeRole EXCEPT !.findings = @ \cup {o}] :
            o \in {Finding("relation", <<"hr", "items">>, "v"),
                   Finding("sequence", <<"hr", "ids">>, "S"),
                   [Finding("relation", <<"shop", "out">>, "r") EXCEPT !.select = FALSE, !.write = TRUE],
                   [Finding("function", <<"shop", "f">>, "") EXCEPT !.select = FALSE],
                   [Finding("schema", <<"shop", "">>, "") EXCEPT !.select = FALSE, !.write = TRUE]}}
    \cup {[SafeRole EXCEPT !.findings = {[Finding("relation", <<"shop", "sales">>, k)
                                            EXCEPT !.barrier = b]}] :
            b \in BOOLEAN, k \in {"v", "m", "r", "f"}}

Rows == {[size |-> 1, json |-> 1], [size |-> 1, json |-> 5], [size |-> 7, json |-> 7]}
MCResults == UNION {[1..n -> Rows] : n \in 0..3}

-----------------------------------------------------------------------------
(* Scenarios: a guardrail of every kind, a happy path, files that do not    *)
(* load; and the turns a model may make of them.                            *)

NoAsserts == [called |-> {}, notCalled |-> {}, denied |-> "any", escalation |-> "any",
              blocked |-> {}, limit |-> "any", errors |-> "any", events |-> {}, notExecuted |-> {},
              succeeded |-> {}, arguments |-> {}, exercisedBy |-> {}]

Scenario(category, asserts) ==
    [role |-> TRUE, folder |-> FALSE, turns |-> 1, runs |-> 3, marked |-> FALSE,
     category |-> category, threshold |-> {}, reason |-> FALSE, known |-> TRUE, facts |-> FALSE,
     user |-> FALSE, contained |-> TRUE, asserts |-> asserts]
Guardrail(f, v) == Scenario("guardrail", [NoAsserts EXCEPT ![f] = v])
Happy == Scenario("happy", [NoAsserts EXCEPT !.called = {"lookup"}, !.succeeded = {"lookup"},
                                             !.arguments = {"lookup"}, !.denied = "no"])
Foldered == [Happy EXCEPT !.role = FALSE, !.folder = TRUE]

MCScenarios ==
    {Guardrail(f, {"refund"}) : f \in {"notCalled", "blocked", "notExecuted"}}
    \cup {Guardrail("escalation", v) : v \in {"yes", "no"}}
    \cup {Guardrail("denied", "yes"), Guardrail("events", {"ToolCallBlocked"}),
          [Guardrail("limit", "yes") EXCEPT !.runs = 1],
          [Guardrail("limit", "no") EXCEPT !.turns = 2, !.runs = 1],
          [Guardrail("errors", "yes") EXCEPT !.turns = 2, !.runs = 1],
          Scenario("guardrail", [NoAsserts EXCEPT !.notCalled = {"refund"}, !.errors = "yes"]),
          [Guardrail("notCalled", {"refund"}) EXCEPT !.turns = 2, !.runs = 2],
          [Guardrail("blocked", {"refund"}) EXCEPT !.turns = 2, !.runs = 2],
          Scenario("guardrail", [NoAsserts EXCEPT !.notCalled = {"refund"},
                                                  !.exercisedBy = {"lookup"}])}
    \cup {Happy, [Happy EXCEPT !.threshold = {60}, !.reason = TRUE], [Foldered EXCEPT !.runs = 1],
          [Foldered EXCEPT !.contained = FALSE], [Happy EXCEPT !.role = FALSE],
          [Happy EXCEPT !.marked = TRUE], [Happy EXCEPT !.reason = TRUE],
          [Happy EXCEPT !.facts = TRUE], [Happy EXCEPT !.known = FALSE]}

Made(tool, id, res) == [tool |-> tool, id |-> id, result |-> res, right |-> res /= "failed"]
Ends(calls, end) == [calls |-> calls, end |-> end]

MCTurns ==
    {Ends(<<>>, "done"),
     Ends(<<Made("lookup", 1, "ok")>>, "done"), Ends(<<Made("note", 1, "ok")>>, "done"),
     Ends(<<Made("refund", 1, "blocked")>>, "done"), Ends(<<Made("refund", 1, "ok")>>, "done"),
     Ends(<<Made("refund", 1, "ok")>>, "timeout"),
     Ends(<<Made("refund", 1, "failed"), Made("lookup", 2, "ok")>>, "limit"),
     Ends(<<Made("lookup", 1, "failed")>>, "errors"),
     Ends(<<Made("refund", 1, "blocked"), Made("note", 2, "ok")>>, "raised")}

-----------------------------------------------------------------------------
(* Matrices: one model and two, every way a request is refused; jobs that   *)
(* export in the same second, beside an orphaned table.                     *)

Case(category) == [category |-> category, agent |-> "fixture"]
Capability(id, needs, cases) ==
    [id |-> id, needs |-> needs, agent |-> "fixture", cases |-> cases]
MCCapabilities == <<Capability("choice", {}, <<Case("happy"), Case("guardrail")>>),
                    Capability("commands", {"factor"}, <<Case("happy")>>)>>
OwnColumn(id) == Capability(id, {}, <<Case("guardrail")>>)

Matrix == [names |-> <<"m1">>, picked |-> {}, extras |-> <<>>, runs |-> {2}]
MCMatrices ==
    {Matrix, [Matrix EXCEPT !.names = <<"m1", "m2", "m3">>, !.picked = {<<"commands">>}],
     [Matrix EXCEPT !.names = <<"m1", "m2">>, !.picked = {<<>>}, !.extras = <<OwnColumn("own")>>,
                    !.runs = {}]}
    \cup {[Matrix EXCEPT !.names = n] : n \in {<<>>, <<"m1", "m1">>}}
    \cup {[Matrix EXCEPT !.picked = {p}] : p \in {<<"other">>, <<"choice", "choice">>}}
    \cup {[Matrix EXCEPT !.extras = x] :
            x \in {<<OwnColumn("choice")>>, <<OwnColumn("own"), OwnColumn("own")>>,
                   <<[OwnColumn("own") EXCEPT !.cases[1].agent = "other"]>>}}
    \cup {[Matrix EXCEPT !.runs = {0}]}

Held(kind, client) == [is |-> kind, of |-> client]
MCHolds == [m1 |-> <<Held("client", "k1"), Held("wrapper", "k1"), Held("nothing", "k0")>>,
            m2 |-> <<Held("wrapper", "k2"), Held("client", "k3")>>, m3 |-> <<>>]

Reported(passed, tested, error, tokens) ==
    [passed |-> passed, exercised |-> tested, error |-> error, tokens |-> tokens]
MCRunResults == {Reported(TRUE, TRUE, "none", {1}), Reported(TRUE, FALSE, "none", {}),
                 Reported(FALSE, TRUE, "none", {1}), Reported(FALSE, FALSE, "raised", {})}
MCExports == [e1 |-> "matrix", e2 |-> "matrix", e3 |-> "results"]
MCExisting == {<<"matrix", 0, "md">>, <<"matrix", 2, "json">>}

-----------------------------------------------------------------------------
(* Chat requests and deliveries: one that gets through, everything that can *)
(* be wrong with one, and deliveries that share messages and senders.       *)
Bodied(n, declared) == [declared |-> declared, chunks |-> <<1, n>>]
Said(by, blank) == [role |-> by, blank |-> blank]

Ask == [key |-> "right", body |-> Bodied(1, {2}), parses |-> TRUE, stream |-> FALSE,
        model |-> r1, user |-> "active",
        msgs |-> <<Said("system", FALSE), Said("assistant", TRUE), Said("user", FALSE)>>]
OtherAsks ==
    [key |-> {"unset", "wrong"}, body |-> {Bodied(2, {}), Bodied(2, {1}), Bodied(1, {9})},
     parses |-> {FALSE}, stream |-> {TRUE}, model |-> {bad, r2},
     user |-> {"nobody", "inactive", "fails"},
     msgs |-> {<<Said("user", FALSE), Said("assistant", FALSE), Said("user", FALSE)>>}]
MCAsked == (c1 :> {Ask} \cup UNION {{[Ask EXCEPT ![f] = v] : v \in OtherAsks[f]} : f \in DOMAIN Ask})

Text(id, from) == [id |-> id, from |-> from, text |-> TRUE]
Post == [channel |-> bad, body |-> Bodied(1, {2}), signed |-> TRUE, parses |-> TRUE,
         msgs |-> <<Text("m1", ana), Text("m2", ann)>>]
OtherPosts ==
    [channel |-> {"?"}, body |-> {Bodied(2, {1})}, parses |-> {FALSE}, signed |-> {FALSE},
     msgs |-> {<<Text(bad, ana), Text("m2", bad), Text("m3", bad)>>,
               <<Text("m1", ana), Text("m1", ben)>>,
               <<Text("m1", ana), [Text("m2", ana) EXCEPT !.text = FALSE]>>}]
Elsewhere == [Post EXCEPT !.channel = "web", !.msgs = <<Text("m2", ana), Text("m3", ben)>>]
MCDeliveries ==
    (p1 :> {Post, Elsewhere} \cup UNION {{[Post EXCEPT ![f] = v] : v \in OtherPosts[f]} : f \in DOMAIN Post})
    @@ (p2 :> {[Post EXCEPT !.msgs = <<Text("m2", ann)>>]})
MCMaxTries == (p1 :> 2) @@ (p2 :> 1)
MCAddress == (ana :> ana) @@ (ben :> ben) @@ (ann :> ana)

-----------------------------------------------------------------------------
LifespanRests == LifespanInit /\ cfg = (a1 :> Full) @@ (a2 :> Minimal)
HealthRests == HealthInit /\ ~worker /\ ~backlog
CommandRests == CommandInit /\ asked = Command("command")
QueryRests == QueryInit /\ role = SafeRole
                        /\ query = Written(Select({Sales}), Select({Sales}), Select({Sales}))
EvalRests == EvalInit /\ scenario = Happy /\ registered = "none"
MatrixRests == MatrixInit /\ matrix = Matrix

(* Some requests came and were refused before the behaviour starts.         *)
EndedWith(r, status) == [r EXCEPT !.at = "ended", !.status = status]
Unknown == [EndedWith(NoPost, 404) EXCEPT !.got = {[Post EXCEPT !.channel = "?"]}, !.tries = 2]
EntryRests == NothingHeld /\ chat = [c \in Chats |-> EndedWith(NoAsk, 401)]
                          /\ post = [p \in Posts |-> Unknown]
EntryStarts ==
    /\ NothingHeld
    /\ \/ chat = [c \in Chats |-> NoAsk] /\ post = (p1 :> Unknown) @@ (p2 :> NoPost)
       \/ chat = [c \in Chats |-> EndedWith(NoAsk, 401)] /\ post = [p \in Posts |-> NoPost]

Init ==
    /\ part \in {"lifespan", "health", "command", "scan", "query", "eval", "matrix", "entry"}
    /\ IF part = "lifespan" THEN LifespanInit ELSE LifespanRests
    /\ IF part = "health" THEN HealthInit ELSE HealthRests
    /\ IF part = "command" THEN CommandInit ELSE CommandRests
    /\ IF part = "query" THEN QueryInit ELSE QueryRests
    /\ IF part = "eval" THEN EvalInit ELSE EvalRests
    /\ IF part = "matrix" THEN MatrixInit ELSE MatrixRests
    /\ IF part = "entry" THEN EntryStarts ELSE EntryRests
    /\ ScanInit

LifespanSteps == part = "lifespan" /\ LifespanStep
                 /\ UNCHANGED <<part, healthVars, commandVars, scanVars, queryVars, evalVars, matrixVars, entryVars>>
HealthSteps == part = "health" /\ HealthStep
               /\ UNCHANGED <<part, lifespanVars, commandVars, scanVars, queryVars, evalVars, matrixVars, entryVars>>
Commanding(A) == part = "command" /\ A
                 /\ UNCHANGED <<part, lifespanVars, healthVars, scanVars, queryVars, evalVars, matrixVars, entryVars>>
ScanSteps == part = "scan" /\ ScanStep
             /\ UNCHANGED <<part, lifespanVars, healthVars, commandVars, queryVars, evalVars, matrixVars, entryVars>>
QuerySteps == part = "query" /\ QueryStep
              /\ UNCHANGED <<part, lifespanVars, healthVars, commandVars, scanVars, evalVars, matrixVars, entryVars>>
EvalSteps == part = "eval" /\ EvalStep
             /\ UNCHANGED <<part, lifespanVars, healthVars, commandVars, scanVars, queryVars, matrixVars, entryVars>>
MatrixSteps == part = "matrix" /\ MatrixStep
               /\ UNCHANGED <<part, lifespanVars, healthVars, commandVars, scanVars, queryVars, evalVars, entryVars>>
EntrySteps == part = "entry" /\ EntryStep
              /\ UNCHANGED <<part, lifespanVars, healthVars, commandVars, scanVars, queryVars, evalVars, matrixVars>>

Next == LifespanSteps \/ HealthSteps \/ Commanding(CommandStep) \/ ScanSteps \/ QuerySteps
        \/ EvalSteps \/ MatrixSteps \/ EntrySteps

(* The code's own steps go on; nothing makes a command end by itself, and   *)
(* nothing makes anyone cancel.                                             *)
Fairness ==
    /\ WF_vars(Commanding(Refuse \/ StartSpawn))
    /\ WF_vars(Commanding(Fork \/ SpawnFails)) /\ WF_vars(Commanding(Spawned))
    /\ WF_vars(Commanding(KillOnceSpawned))
    /\ WF_vars(Commanding(CouldNotStart \/ Completed)) /\ WF_vars(Commanding(OwnTimeout))
    /\ WF_vars(Commanding(FinishSpawn)) /\ WF_vars(Commanding(SpawnOverdue \/ Reaped))

Spec == Init /\ [][Next]_vars /\ Fairness

-----------------------------------------------------------------------------
(* No command outlives its call for good (see NothingOutlives).             *)
CommandsEnd == part = "command" => NothingOutlives
=============================================================================

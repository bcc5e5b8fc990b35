---------------------------- MODULE CommandTool -----------------------------
(***************************************************************************)
(* A declarative command tool: what a manifest may declare as one           *)
(* (harness/loader.py, ADR-002 C.12) and what becomes of a model's input    *)
(* when it is called (connectors/command_tools.py).  The connector checks   *)
(* only what varies from call to call; the rest it owes to the loader.      *)
(***************************************************************************)
EXTENDS Integers, Sequences, FiniteSets

CONSTANTS
    LengthOf,   \* the texts a model may pass, and how long each is
    Dashed,     \* those that start with a dash or what looks like one
    LengthCap   \* _COMMAND_TOOL_PARAM_MAX_LENGTH_CAP

-----------------------------------------------------------------------------
(* A param is [shaped, type, pattern, enum, length]: a pattern and an enum  *)
(* are the sets of texts they let through, length a bound, each in a set    *)
(* that is empty when it is not given.                                      *)

AnyString(p) == TRUE
Narrow(p) == p.pattern /= {} \/ p.enum /= {}

ParamDeclared(p) ==
    /\ p.shaped
    /\ p.type \in {"string", "integer"}
    /\ \A n \in p.length : n <= LengthCap
    /\ p.type = "string" => Narrow(p)

\* An entry is [shaped, name, program, rest, params, tier, permission]; an
\* element of rest is [is, of]: a literal, a whole placeholder, or a mix.
EntryShape(e) ==
    /\ e = [shaped |-> e.shaped, name |-> e.name, program |-> e.program, rest |-> e.rest,
            params |-> e.params, tier |-> e.tier, permission |-> e.permission]
    /\ e.program = [is |-> e.program.is, of |-> e.program.of,
                    path |-> e.program.path, found |-> e.program.found]
    /\ \A i \in DOMAIN e.rest : e.rest[i].is \in {"literal", "param", "mix"}

Placed(rest) == {rest[i].of : i \in {j \in DOMAIN rest : rest[j].is = "param"}}

RestFits(e) ==
    /\ \A i \in DOMAIN e.rest : e.rest[i].is /= "mix"
    /\ Placed(e.rest) = DOMAIN e.params

\* A bare program is looked up on $PATH once, here; what a relative entry
\* of $PATH finds is not absolute.
LooseProgram(p) == TRUE
Located(p) == p.path = "absolute" \/ p.found = "absolute"

TemplateFits(e) ==
    /\ e.program.is = "literal"
    /\ RestFits(e)

ToolDeclared(e) ==
    /\ e.shaped
    /\ \A n \in DOMAIN e.params : ParamDeclared(e.params[n])
    /\ TemplateFits(e)
    /\ e.tier = 2 /\ e.permission = "run"

\* _parse_command_tools, for a manifest that lists what it should.
ManifestLoads(entries) ==
    /\ \A i \in DOMAIN entries : ToolDeclared(entries[i]) /\ Located(entries[i].program)
    /\ \A i, j \in DOMAIN entries : entries[i].name = entries[j].name => i = j

Built(e) ==
    [e EXCEPT !.program.path = IF @ = "absolute" THEN @ ELSE e.program.found]
ToolsOf(entries) == {Built(entries[i]) : i \in DOMAIN entries}

-----------------------------------------------------------------------------
(* A call.  A value is [type, text].                                        *)

ValueFits(v, p) ==
    /\ v.type = p.type
    /\ v.text \notin Dashed
    /\ \A n \in p.length : LengthOf[v.text] <= n
    /\ \A texts \in p.pattern \cup p.enum : v.text \in texts

InputsFit(e, inputs) ==
    /\ DOMAIN inputs = DOMAIN e.params
    /\ \A n \in DOMAIN inputs : ValueFits(inputs[n], e.params[n])

Filled(e, inputs) ==
    [i \in DOMAIN e.rest |-> IF e.rest[i].is = "param" THEN inputs[e.rest[i].of].text
                                                       ELSE e.rest[i].of]

-----------------------------------------------------------------------------
(* Only whole elements the author left open vary, each with a text the      *)
(* author's pattern or list lets through (an integer has neither), no       *)
(* longer than a length the author gave, and none that reads as an option;  *)
(* nothing given is dropped; and the program is one file, whatever $PATH    *)
(* says by now.                                                             *)
AsDeclared(e, inputs) ==
    /\ e.program.is = "literal" /\ e.program.path = "absolute"
    /\ \A i \in DOMAIN e.rest :
         \/ e.rest[i].is = "literal" /\ Filled(e, inputs)[i] = e.rest[i].of
         \/ LET p == e.params[e.rest[i].of]
                text == Filled(e, inputs)[i]
            IN /\ text \notin Dashed
               /\ \A n \in p.length : n <= LengthCap /\ LengthOf[text] <= n
               /\ p.type = "string" => \E texts \in p.pattern \cup p.enum : text \in texts
    /\ \A n \in DOMAIN inputs :
         \E i \in DOMAIN e.rest : Filled(e, inputs)[i] = inputs[n].text
=============================================================================

--------------------------- MODULE RoleResolution ---------------------------
(***************************************************************************)
(* How one agent definition comes out of a chain of files and a deployment  *)
(* (harness/loader.py: resolve, load_generic, _resolve_role_chain, merge;   *)
(* graph._effective_limits and check_effective_limits at start).  The       *)
(* chain is walked leaf first and folded root first.  A platform role adds  *)
(* to its parent; an agent the importer wrote may add capabilities but only *)
(* tighten safety; a deployment may only narrow.                            *)
(***************************************************************************)
EXTENDS Integers, FiniteSets, Sequences

CONSTANTS
  PlatformRoles, Importers,   \* locators: predefined roles, and agents written by the importer
  MaxDepth,                   \* _MAX_ROLE_CHAIN_DEPTH
  Permissions, T3,            \* permission names, and those whose class is tier T3
  Tools, Commands, Conditions, Texts, People, Keys,
  Default,                    \* PLATFORM_DEFAULT_LIMITS, of "total" and "tool"
  Absent, Null, Bad,          \* a limit not set, set to null, set to no number
  Families                    \* bound: sets of declarations that are resolved together, each
                              \* with the execution_limits a deployment may set

LimitKeys == {"total", "tool"}
Levels == {"confirm", "supervised", "full"}

(* RawDefinition, as a file or a call declares it.  A list or mapping may   *)
(* be a directive: "edit" is {inherit: true, ...}, "bad" a shape that is    *)
(* none.  A deployment leaves a policy out by writing "inherit".            *)
Listed == [kind : {"inherit", "list", "edit", "override", "bad"},
           items : SUBSET Permissions, removed : SUBSET Permissions]
Limits ==
  {l \in [shape : {"none", "mapping", "other"}, at : [LimitKeys -> Nat \cup {Absent, Null, Bad}]] :
     l.shape # "mapping" => \A k \in LimitKeys : l.at[k] = Absent}
Escalation == [kind : {"inherit", "plain", "edit", "bad"}, restates : BOOLEAN,
               conditions : SUBSET Conditions, removed : SUBSET Conditions,
               to : People \cup {"", "unsaid"}, words : [Conditions -> Texts \cup {""}]]
Audit == [kind : {"inherit", "plain", "edit", "bad"}, lists : BOOLEAN,
          keys : SUBSET Keys, capture : {"unsaid", "on", "off"}]
RawDefinition ==
  [abstract : BOOLEAN, tools : SUBSET Tools, commands : SUBSET Commands,
   declared : SUBSET Commands, permissions : Listed, autonomy : Levels \cup {""},
   untrusted : {"", "true", "false"}, limits : Limits, escalation : Escalation, audit : Audit]

ASSUME ResolutionAssumption ==
  /\ PlatformRoles \cap Importers = {} /\ "none" \notin PlatformRoles \cup Importers
  /\ MaxDepth \in Nat \ {0} /\ T3 \subseteq Permissions
  /\ Default \in [LimitKeys -> Nat] /\ Default["tool"] <= Default["total"]
  /\ Absent \notin Nat /\ Null \notin Nat /\ Bad \notin Nat /\ Cardinality({Absent, Null, Bad}) = 3
  /\ "" \notin Texts \cup People /\ "unsaid" \notin Texts \cup People
  /\ \A f \in Families : /\ f.declarations \subseteq RawDefinition
                          /\ f.ceilings \subseteq [LimitKeys -> Nat \cup {Absent}]

VARIABLES
  pc,
  family,     \* the declarations to choose from
  ceiling,    \* the deployment's limits for the runtime
  at,         \* the locator to load next
  chain,      \* what was loaded, leaf first: [at, def]
  acc,        \* the fold so far: what chain[Len(chain)], ..., chain[left + 1] resolve to
  left,
  override,   \* the deployment's definition, in a sequence of at most one
  limits      \* what the runtime runs with

vars == <<pc, family, ceiling, at, chain, acc, left, override, limits>>

NoRules == [conditions |-> {}, to |-> "", words |-> [c \in Conditions |-> ""]]
NoAudit == [keys |-> {}, capture |-> FALSE]
NoLimits == [shape |-> "none", at |-> [k \in LimitKeys |-> Absent]]
Nothing == [tools |-> {}, commands |-> {}, declared |-> {}, permissions |-> {}, autonomy |-> "",
            untrusted |-> "", limits |-> NoLimits, rules |-> NoRules, audit |-> NoAudit]

Init ==
  /\ pc = "walk"
  /\ \E f \in Families : family = f.declarations /\ ceiling \in f.ceilings
  /\ at \in PlatformRoles \cup Importers
  /\ chain = <<>>
  /\ acc = Nothing /\ left = 0
  /\ override = <<>>
  /\ limits = Default

-----------------------------------------------------------------------------
(* Directives.                                                              *)

(* _resolve_list_directive, and the fold's reading of a plain list.         *)
ResolveListKeeping(parent, d) ==
  IF d.kind = "inherit" THEN parent ELSE IF d.kind = "edit" THEN parent \cup d.items ELSE d.items
ResolveList(parent, d) ==
  IF d.kind = "inherit" THEN parent
  ELSE IF d.kind = "edit" THEN (parent \cup d.items) \ d.removed ELSE d.items
FoldList(parent, d) ==
  IF d.kind = "list" THEN parent \cup d.items ELSE ResolveList(parent, d)

(* _resolve_mapping_directive: `Over' keeps the parent's keys, `Instead'    *)
(* replaces the mapping.                                                    *)
OverRules(p, d) ==
  [conditions |-> IF d.kind = "edit" THEN (p.conditions \cup d.conditions) \ d.removed
                  ELSE IF d.restates THEN d.conditions ELSE p.conditions,
   to |-> IF d.to = "unsaid" THEN p.to ELSE d.to,
   words |-> [c \in Conditions |-> IF d.words[c] = "" THEN p.words[c] ELSE d.words[c]]]
InsteadRules(d) == OverRules(NoRules, d)
ResolveRules(p, d) ==
  IF d.kind = "inherit" THEN p ELSE IF d.kind = "edit" THEN OverRules(p, d) ELSE InsteadRules(d)
FoldRules(p, d) == IF d.kind = "inherit" THEN p ELSE OverRules(p, d)

OverAudit(p, d) ==
  [keys |-> IF d.lists THEN d.keys ELSE p.keys,
   capture |-> IF d.capture = "unsaid" THEN p.capture ELSE d.capture = "on"]
ResolveAudit(p, d) ==
  IF d.kind = "inherit" THEN p ELSE IF d.kind = "edit" THEN OverAudit(p, d) ELSE OverAudit(NoAudit, d)
FoldAudit(p, d) == IF d.kind = "inherit" THEN p ELSE OverAudit(p, d)

WellShaped(d) == "bad" \notin {d.permissions.kind, d.escalation.kind, d.audit.kind}

-----------------------------------------------------------------------------
(* Ceilings.                                                                *)
Rank(level) == CASE level = "confirm" -> 0 [] level = "supervised" -> 1 [] level = "full" -> 2
WithinLevel(top, level) == level # "" => Rank(level) <= Rank(top)
Unbounded(level) == IF level = "" THEN "full" ELSE level
EffectiveLevel(level) == IF level = "" THEN "supervised" ELSE level

(* _validate_untrusted_input_monotonic.                                     *)
MayBeTrusted(p, d) == TRUE
StaysUntrusted(p, d) == ~(p.untrusted = "true" /\ d.untrusted = "false")
Trust(p, d) == IF d.untrusted = "" THEN p.untrusted ELSE d.untrusted

(* _validate_execution_limits and _limit_defaults.                          *)
Greater(a, b) == IF a < b THEN b ELSE a
Lesser(a, b) == IF a < b THEN a ELSE b
LimitDefaults(c) ==
  [k \in LimitKeys |-> IF c[k] = Absent THEN Default[k] ELSE Greater(Default[k], c[k])]
Baseline(base, defaults, k) == IF base[k] \in {Absent, Null} THEN defaults[k] ELSE base[k]
WithinBaseline(v, base, defaults, k) ==
  LET value == IF v = Null THEN defaults[k] ELSE v
  IN  value \in Nat /\ value <= Baseline(base, defaults, k)
WithinLimits(base, d, defaults) ==
  \A k \in LimitKeys : d[k] # Absent => WithinBaseline(d[k], base, defaults, k)
Overlay(base, d) == [k \in LimitKeys |-> IF d[k] = Absent THEN base[k] ELSE d[k]]

(* _validate_audit_redaction.                                               *)
RedactedKeysKept(top, a) == top.keys \subseteq a.keys
RedactionKept(top, a) == (a.capture => top.capture) /\ top.keys \subseteq a.keys

(* _validate_escalation_kept and _validate_escalation_wording.              *)
SomeConditions(top, r) == top.conditions = {} \/ r.conditions # {}
ConditionsKept(top, r) == top.conditions \subseteq r.conditions
WordsKept(p, words, to) == \A c \in p.conditions : words[c] \in {"", p.words[c]}
WordingKept(p, words, to) ==
  /\ \A c \in p.conditions : words[c] \in {"", p.words[c]}
  /\ p.to # "" => to = p.to

-----------------------------------------------------------------------------
(* _resolve_role_chain: the walk.  A locator seen before is a cycle; a      *)
(* definition that cannot be read, or an extends that cannot be placed,     *)
(* fails the whole resolution.  A platform role never extends an importer's *)
(* agent, and the limits of the shipped ones are numbers.                   *)
RejectSilently == UNCHANGED vars
Reject == pc' = "error" /\ UNCHANGED <<family, ceiling, at, chain, acc, left, override, limits>>

Seen == {chain[i].at : i \in DOMAIN chain}
LoadableDeep(l) == l \notin Seen
Loadable(l) == l \notin Seen /\ Len(chain) < MaxDepth
Parents(l) == IF l \in PlatformRoles THEN PlatformRoles ELSE PlatformRoles \cup Importers

Load ==
  /\ pc = "walk" /\ at # "none"
  /\ \/ ~Loadable(at) /\ Reject
     \/ Reject
     \/ /\ Loadable(at)
        /\ \E d \in family, p \in Parents(at) \cup {"none"} :
             /\ at \in PlatformRoles => \A k \in LimitKeys : d.limits.at[k] # Bad
             /\ chain' = Append(chain, [at |-> at, def |-> d])
             /\ at' = p
        /\ UNCHANGED <<pc, family, ceiling, acc, left, override, limits>>

Authored(i) == chain[i].at \in Importers

(* _apply_importer_ceiling: what an importer's definition may declare under *)
(* `p', and its conditions added to the parent's.                           *)
UnderCeiling(p, d, defaults) ==
  /\ RedactionKept(p.audit, OverAudit(p.audit, d.audit))
  /\ WithinLevel(EffectiveLevel(p.autonomy), d.autonomy)
  /\ d.limits.shape = "mapping" => WithinLimits(p.limits.at, d.limits.at, defaults)
RulesUnderCeiling(p, d) ==
  d.escalation.kind = "inherit" \/ WordingKept(p.rules, d.escalation.words, OverRules(p.rules, d.escalation).to)
WithParentConditions(p, d) ==
  IF d.escalation.kind # "plain" \/ ~d.escalation.restates THEN d
  ELSE [d EXCEPT !.escalation.conditions = @ \cup p.rules.conditions]

(* _resolve_chain_root, and the ceiling of an importer's definition that    *)
(* extends nothing: the platform defaults.                                  *)
RootOf(d) ==
  [tools |-> d.tools, commands |-> d.commands, declared |-> d.declared,
   permissions |-> ResolveList({}, d.permissions), autonomy |-> d.autonomy,
   untrusted |-> d.untrusted, limits |-> d.limits,
   rules |-> ResolveRules(NoRules, d.escalation), audit |-> ResolveAudit(NoAudit, d.audit)]

Root ==
  /\ pc = "walk" /\ at = "none"
  /\ LET d == chain[Len(chain)].def
         ok == WellShaped(d) /\ (Authored(Len(chain)) => UnderCeiling(Nothing, d, LimitDefaults(ceiling)))
     IN  \/ ~ok /\ Reject
         \/ /\ ok
            /\ acc' = RootOf(d) /\ left' = Len(chain) - 1 /\ pc' = "fold"
            /\ UNCHANGED <<family, ceiling, at, chain, override, limits>>

(* _fold_parent_into_child: additive, but for what only ever tightens.      *)
FoldedLimits(p, d) ==
  IF d.shape = "mapping"
  THEN [shape |-> "mapping",
        at |-> Overlay(IF p.shape = "mapping" THEN p.at ELSE NoLimits.at, d.at)]
  ELSE IF p.shape = "mapping" THEN p ELSE NoLimits
Folded(p, d) ==
  [tools |-> p.tools \cup d.tools, commands |-> p.commands \cup d.commands,
   declared |-> p.declared \cup d.declared,
   permissions |-> FoldList(p.permissions, d.permissions),
   autonomy |-> IF d.autonomy = "" THEN p.autonomy ELSE d.autonomy,
   untrusted |-> Trust(p, d),
   limits |-> FoldedLimits(p.limits, d.limits),
   rules |-> FoldRules(p.rules, d.escalation), audit |-> FoldAudit(p.audit, d.audit)]
Foldable(p, d) ==
  /\ WellShaped(d)
  /\ StaysUntrusted(p, d)
  /\ ConditionsKept(p.rules, Folded(p, d).rules)
  /\ RedactionKept(p.audit, Folded(p, d).audit)
  /\ p.declared \cap d.declared = {}

Fold ==
  /\ pc = "fold" /\ left > 0
  /\ LET raw == chain[left].def
         d == IF Authored(left) THEN WithParentConditions(acc, raw) ELSE raw
         ok == /\ Authored(left) => /\ UnderCeiling(acc, raw, LimitDefaults(ceiling))
                                    /\ RulesUnderCeiling(acc, raw)
               /\ Foldable(acc, d)
     IN  \/ ~ok /\ Reject
         \/ /\ ok
            /\ acc' = Folded(acc, d) /\ left' = left - 1
            /\ UNCHANGED <<pc, family, ceiling, at, chain, override, limits>>

-----------------------------------------------------------------------------
(* load_generic's defaults, and _revalidate_command_tools on what was       *)
(* folded, whatever built it.                                               *)
WithDefaults(p) ==
  [p EXCEPT !.autonomy = EffectiveLevel(@), !.untrusted = IF @ = "" THEN "false" ELSE @]
Generic ==
  /\ pc = "fold" /\ left = 0
  /\ LET ok == ~chain[1].def.abstract /\ acc.commands \subseteq acc.declared
     IN  \/ ~ok /\ Reject
         \/ /\ ok
            /\ acc' = WithDefaults(acc) /\ pc' = "generic"
            /\ UNCHANGED <<family, ceiling, at, chain, left, override, limits>>

(* _validate_untrusted_input_exec.                                          *)
NoT3(p) == p.untrusted = "true" => p.permissions \cap T3 = {}

(* _merge_validated: tools, commands and permissions as the deployment      *)
(* names them, within the role's; the rest checked as above.                *)
MergedLimitsReplaced(p, d, defaults) ==
  IF d.shape = "mapping" THEN d ELSE IF d.shape = "none" /\ p.shape = "mapping" THEN p ELSE NoLimits
MergedLimits(p, d, defaults) ==
  IF d.shape = "none" THEN IF p.shape = "mapping" THEN p ELSE NoLimits
  ELSE IF d.shape = "mapping"
  THEN [shape |-> "mapping", at |-> Overlay(IF p.shape = "mapping" THEN p.at ELSE defaults, d.at)]
  ELSE NoLimits
MergedRules(p, d) ==
  LET r == ResolveRules(p, d)
  IN  [conditions |-> r.conditions, to |-> r.to,
       words |-> [c \in Conditions |-> IF r.words[c] = "" THEN p.words[c] ELSE r.words[c]]]
Merged(p, d, defaults) ==
  [tools |-> d.tools, commands |-> d.commands, declared |-> p.declared,
   permissions |-> ResolveList(p.permissions, d.permissions),
   autonomy |-> IF d.autonomy = "" THEN p.autonomy ELSE d.autonomy,
   untrusted |-> Trust(p, d), limits |-> MergedLimits(p.limits, d.limits, defaults),
   rules |-> MergedRules(p.rules, d.escalation), audit |-> ResolveAudit(p.audit, d.audit)]
Narrows(p, d, m, defaults) ==
  /\ WellShaped(d)
  /\ WithinLevel(p.autonomy, d.autonomy)
  /\ StaysUntrusted(p, d)
  /\ d.tools \subseteq p.tools /\ d.commands \subseteq p.commands
  /\ m.permissions \subseteq p.permissions
  /\ NoT3(m)
  /\ ConditionsKept(p.rules, m.rules)
  /\ WordingKept(p.rules, d.escalation.words, m.rules.to)
  /\ RedactionKept(p.audit, m.audit)
  /\ d.limits.shape = "mapping" =>
       WithinLimits(IF p.limits.shape = "mapping" THEN p.limits.at ELSE defaults, d.limits.at, defaults)

Merge ==
  /\ pc = "generic" /\ ~Authored(1)
  /\ \E d \in family :
       LET m == Merged(acc, d, LimitDefaults(ceiling))
           ok == Narrows(acc, d, m, LimitDefaults(ceiling))
       IN  \/ ~ok /\ Reject
           \/ /\ ok
              /\ acc' = m /\ override' = <<d>> /\ pc' = "resolved"
              /\ UNCHANGED <<family, ceiling, at, chain, left, limits>>

(* resolve, without a deployment's definition.                              *)
Wrap ==
  /\ pc = "generic"
  /\ \/ ~NoT3(acc) /\ Reject
     \/ /\ NoT3(acc)
        /\ acc' = [acc EXCEPT !.limits = IF @.shape = "mapping" THEN @ ELSE NoLimits]
        /\ pc' = "resolved"
        /\ UNCHANGED <<family, ceiling, at, chain, left, override, limits>>

(* graph._effective_limits: what is declared, else what the deployment      *)
(* sets, else the default; capped by what the deployment sets.              *)
Enforced(d, c, k) ==
  IF d[k] \in {Absent, Null} THEN IF c[k] = Absent THEN Default[k] ELSE c[k]
  ELSE IF c[k] = Absent THEN d[k] ELSE Lesser(d[k], c[k])
EffectiveLimits(d, c) ==
  LET total == Enforced(d, c, "total")
      tool == Enforced(d, c, "tool")
  IN  [k \in LimitKeys |-> IF k = "total" THEN total
        ELSE IF c["tool"] = Absent /\ d["tool"] \in {Absent, Null} THEN Lesser(tool, total) ELSE tool]

(* main: the runtime is built only if a tool call fits the turn             *)
(* (check_effective_limits).                                                *)
Build ==
  /\ pc = "resolved"
  /\ LET e == EffectiveLimits(acc.limits.at, ceiling)
     IN  \/ /\ e["tool"] <= e["total"] /\ pc' = "built" /\ limits' = e
         \/ /\ e["tool"] > e["total"] /\ pc' = "refused" /\ UNCHANGED limits
  /\ UNCHANGED <<family, ceiling, at, chain, acc, left, override>>

Next == Load \/ Root \/ Fold \/ Generic \/ Merge \/ Wrap \/ Build

Spec == Init /\ [][Next]_vars
(* Start-up waits for nothing: it goes on until it ends.                    *)
FairSpec == Spec /\ WF_vars(Next)
-----------------------------------------------------------------------------
Resolved ==
  [tools : SUBSET Tools, commands : SUBSET Commands, declared : SUBSET Commands,
   permissions : SUBSET Permissions, autonomy : Levels \cup {""}, untrusted : {"", "true", "false"},
   limits : Limits, audit : [keys : SUBSET Keys, capture : BOOLEAN],
   rules : [conditions : SUBSET Conditions, to : People \cup {""}, words : [Conditions -> Texts \cup {""}]]]

(* Type correctness of the walk and of what is folded.                      *)
TypeOK ==
  /\ pc \in {"walk", "fold", "generic", "resolved", "built", "refused", "error"}
  /\ \E f \in Families : family = f.declarations /\ ceiling \in f.ceilings
  /\ at \in PlatformRoles \cup Importers \cup {"none"}
  /\ chain \in Seq([at : PlatformRoles \cup Importers, def : RawDefinition])
  /\ Len(chain) <= MaxDepth
  /\ acc \in Resolved /\ left \in 0 .. MaxDepth
  /\ override \in Seq(RawDefinition)
  /\ limits \in [LimitKeys -> Nat]

Defined == pc \in {"resolved", "built", "refused"}
Platform == {i \in DOMAIN chain : ~Authored(i)}
Declarations == {chain[i].def : i \in DOMAIN chain} \cup {override[i] : i \in DOMAIN override}
Nearest(S) == CHOOSE i \in S : \A j \in S : i <= j

(* "May match or tighten ... never loosen": whatever agents and deployment  *)
(* lie below the platform's roles, the level is at most the one the nearest *)
(* of those roles declares, or the floor when none does.                    *)
PlatformLevel ==
  LET S == {i \in Platform : chain[i].def.autonomy # ""}
  IN  IF S = {} THEN "supervised" ELSE chain[Nearest(S)].def.autonomy
AutonomyHeld == Defined => Rank(acc.autonomy) <= Rank(PlatformLevel)

(* The runtime is never given more time or tool time than the platform's    *)
(* roles alone would give it, unless a deployment's limits are no mapping.  *)
PlatformLimits ==
  [k \in LimitKeys |->
     LET S == {i \in Platform : chain[i].def.limits.shape = "mapping" /\ chain[i].def.limits.at[k] # Absent}
     IN  IF S = {} THEN Absent ELSE chain[Nearest(S)].def.limits.at[k]]
LimitsLooser == \E k \in LimitKeys : limits[k] > EffectiveLimits(PlatformLimits, ceiling)[k]
LimitsHeld ==
  pc = "built" /\ (\A i \in DOMAIN override : override[i].limits.shape # "other") => ~LimitsLooser

(* "Deployments may only restrict, not elevate", in any shape.              *)
DeploymentRestricts == pc = "built" => ~LimitsLooser

(* "A tool-call timeout neither of them sets is capped at the turn's": a    *)
(* runtime is refused only where somebody set one.                          *)
UnsetToolFits ==
  pc = "refused" => ceiling["tool"] # Absent \/ \E d \in Declarations : d.limits.at["tool"] # Absent

(* Once any definition of the chain, or the deployment, says that input can *)
(* be untrusted, the agent is untrusted and holds no T3 permission.         *)
UntrustedSticks ==
  Defined => /\ (\E d \in Declarations : d.untrusted = "true") => acc.untrusted = "true"
             /\ acc.untrusted = "true" => acc.permissions \cap T3 = {}

(* Every condition that any definition requires is required of the agent.   *)
Requires(d) ==
  IF d.escalation.kind = "edit" THEN d.escalation.conditions \ d.escalation.removed
  ELSE IF d.escalation.kind = "plain" /\ d.escalation.restates THEN d.escalation.conditions ELSE {}
EscalationHeld == Defined => \A d \in Declarations : Requires(d) \subseteq acc.rules.conditions

(* What the platform's roles say of the conditions they require, and whom   *)
(* to escalate to, is what the agent's prompt says.                         *)
PlatformWords(c) ==
  LET S == {i \in Platform : chain[i].def.escalation.kind # "inherit" /\ chain[i].def.escalation.words[c] # ""}
  IN  IF S = {} THEN "" ELSE chain[Nearest(S)].def.escalation.words[c]
PlatformTo ==
  LET S == {i \in Platform : chain[i].def.escalation.kind # "inherit" /\ chain[i].def.escalation.to # "unsaid"}
  IN  IF S = {} THEN "" ELSE chain[Nearest(S)].def.escalation.to
WordingHeld ==
  Defined => /\ \A i \in Platform : \A c \in Requires(chain[i].def) : acc.rules.words[c] = PlatformWords(c)
             /\ PlatformTo # "" => acc.rules.to = PlatformTo

(* No definition drops a key that another one redacts; bodies are captured  *)
(* only where the root of the chain is a platform role that captures them.  *)
RedactionHeld ==
  Defined =>
    /\ \A d \in Declarations : d.audit.kind # "inherit" /\ d.audit.lists => d.audit.keys \subseteq acc.audit.keys
    /\ acc.audit.capture => LET root == Len(chain) IN ~Authored(root) /\ chain[root].def.audit.capture = "on"

(* "Deployments may only restrict, not elevate", and an importer's agent is *)
(* "subtractive for safety": no chain and no deployment loosens anything    *)
(* the definitions above it say.                                            *)
NeverLoosened ==
  AutonomyHeld /\ LimitsHeld /\ UntrustedSticks /\ EscalationHeld /\ WordingHeld /\ RedactionHeld

(* A permission is held if and only if the definition nearest to the leaf   *)
(* that speaks of it, the deployment's first, grants it.                    *)
Speaks(d, p, edge) ==
  \/ d.permissions.kind = "override" \/ (d.permissions.kind = "list" /\ (edge \/ p \in d.permissions.items))
  \/ d.permissions.kind = "edit" /\ p \in d.permissions.items \cup d.permissions.removed
Gives(d, p) == p \in d.permissions.items /\ (d.permissions.kind = "edit" => p \notin d.permissions.removed)
PermissionsAsWritten ==
  Defined => \A p \in Permissions :
    LET inChain == {i \in DOMAIN chain : Speaks(chain[i].def, p, FALSE)}
        fromChain == inChain # {} /\ Gives(chain[Nearest(inChain)].def, p)
        fromEdge == {i \in DOMAIN override : Speaks(override[i], p, TRUE)}
    IN  p \in acc.permissions <=>
          IF fromEdge # {} THEN Gives(override[1], p) ELSE fromChain

(* What is resolved is what the definitions say: nothing loosened, and each *)
(* permission held or not as the nearest one to speak of it says.           *)
ResolvedAsWritten == NeverLoosened /\ PermissionsAsWritten

(* Every resolution ends, cycles and chains too deep included.              *)
ResolutionEnds == <>(pc \in {"built", "refused", "error"})
=============================================================================

----------------------------- MODULE ToolGate ------------------------------
(***************************************************************************)
(* Which tools a role is given and which calls run (permissions/,           *)
(* harness/registry.py, harness/factory.py, harness/injector.py,            *)
(* harness/interceptor.py, memory_policy.py).  Layer 1 equips a runtime     *)
(* when it is built, from what the role declares and the deployment grants; *)
(* layer 2 decides again at every call.  A permission is the class its wire *)
(* name resolves to: the registry keeps the two one to one.                 *)
(***************************************************************************)
EXTENDS Integers, FiniteSets

CONSTANTS
  Permissions,   \* registered permission classes
  Above,         \* for each class, itself and the classes it derives from
  TierOf,        \* each class's tier, 0 .. 3
  ToolNames,     \* the tools of the registry, the defaults and the role's commands
  SpecOf,        \* each one's ToolSpec
  Role,          \* the AgentDefinition: [permissions, tools, untrusted, policy]
  Grants         \* what the deployment grants the role

Scopes == 0 .. 2      \* memory scopes: local, team, org
ToolSpec == [tier : 0 .. 3, required : SUBSET Permissions, always : BOOLEAN,
             memory : SUBSET {"read", "write"}, scope : Scopes, facts : BOOLEAN,
             scoped : BOOLEAN, async : BOOLEAN]
(* `valid' is false for a memory_policy that does not parse.                *)
Policy == [valid : BOOLEAN, read : Scopes, write : Scopes, facts : BOOLEAN]

(* Permission.__init_subclass__ (R1): a subclass never lowers the tier.     *)
TiersGrow == \A c \in Permissions : \A a \in Above[c] : TierOf[a] <= TierOf[c]

(* evaluate_tool_spec: no required permission above the tool's tier (R2a),  *)
(* and a T2 or T3 tool requires one that reaches it (R2b).                  *)
SpecAccepted(s) ==
  /\ \A r \in s.required : TierOf[r] <= s.tier
  /\ s.tier \in {2, 3} => \E r \in s.required : TierOf[r] >= s.tier

ASSUME GateAssumption ==
  /\ Above \in [Permissions -> SUBSET Permissions] /\ TierOf \in [Permissions -> 0 .. 3]
  /\ TiersGrow
  /\ SpecOf \in [ToolNames -> ToolSpec] /\ \A n \in ToolNames : SpecAccepted(SpecOf[n])
  /\ Role \in [permissions : SUBSET Permissions, tools : SUBSET ToolNames,
               untrusted : BOOLEAN, policy : Policy]
  /\ Grants \subseteq Permissions

(* R3: a grant covers its own class and subclasses that did not raise it.   *)
CoversAnyTier(g, r) == g \in Above[r]
Covers(g, r) == g \in Above[r] /\ TierOf[r] <= TierOf[g]
CoveredBy(S, s) == \A r \in s.required : \E g \in S : Covers(g, r)

-----------------------------------------------------------------------------
(* Layer 1.  The ceiling is the grants that cover something the role        *)
(* declares; the surface is decided on the declared names a grant covers.   *)
Ceiling == {g \in Grants : \E d \in Role.permissions : Covers(g, d)}
Effective == {d \in Role.permissions : \E g \in Grants : Covers(g, d)}

Barred(s) == Role.untrusted /\ s.tier = 3
Equips(s) == ~Barred(s) /\ CoveredBy(Effective, s)
Surface == {n \in Role.tools : Equips(SpecOf[n])}

-----------------------------------------------------------------------------
(* Layer 2: the caller's current permissions only narrow the ceiling.       *)
Sensitive(s) == s.tier \in {2, 3} \/ s.always
InForce(current) == Ceiling \cap current
Revoked(s, current) == Sensitive(s) /\ ~CoveredBy(InForce(current), s)

MemoryDenied(s) ==
  /\ s.memory # {} \/ s.facts
  /\ LET p == Role.policy IN
       \/ ~p.valid
       \/ s.facts /\ ~p.facts
       \/ "read" \in s.memory /\ s.scope > p.read
       \/ "write" \in s.memory /\ s.scope > p.write

(* `subject' says that the turn has one, `scopes' that the runtime has a    *)
(* scope provider and an id.                                                *)
ScopeDenied(s, subject, scopes) == s.scoped /\ ~(subject /\ scopes /\ s.async)

Allowed(n, current, subject, scopes) ==
  /\ n \in Surface
  /\ ~Revoked(SpecOf[n], current)
  /\ ~MemoryDenied(SpecOf[n])
  /\ ~ScopeDenied(SpecOf[n], subject, scopes)

-----------------------------------------------------------------------------
(* What the layers promise together of a call that runs with `current': a   *)
(* dangerous tool has a grant of its own tier that the deployment gave and  *)
(* the turn still holds, whatever it requires beside it; nothing runs that  *)
(* the role did not declare; an untrusted role runs no T3 tool.             *)
RunIsCovered(n, current) ==
  /\ SpecOf[n].tier >= 2 => \E g \in Grants \cap current : TierOf[g] >= SpecOf[n].tier
  /\ \A r \in SpecOf[n].required : \E d \in Role.permissions : Covers(d, r)
  /\ Role.untrusted => SpecOf[n].tier < 3
=============================================================================

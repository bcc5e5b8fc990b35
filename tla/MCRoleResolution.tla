-------------------------- MODULE MCRoleResolution --------------------------
(* Declarations that differ in the fields that are resolved together; every *)
(* other field says nothing.                                                *)
EXTENDS RoleResolution

CONSTANTS p1, p3, t1, t2, c1, c2, w1, w2, h1, h2, k1, k2

MCDefault == [k \in LimitKeys |-> IF k = "total" THEN 3 ELSE 2]

List(kind, items, removed) == [kind |-> kind, items |-> items, removed |-> removed]
Rules(kind, restates, conditions, removed, to, words) ==
  [kind |-> kind, restates |-> restates, conditions |-> conditions, removed |-> removed,
   to |-> to, words |-> words]
Unworded == [c \in Conditions |-> ""]
NoRulesSaid == Rules("inherit", FALSE, {}, {}, "unsaid", Unworded)
Aud(kind, lists, keys, capture) == [kind |-> kind, lists |-> lists, keys |-> keys, capture |-> capture]
Blank ==
  [abstract |-> FALSE, tools |-> {}, commands |-> {}, declared |-> {},
   permissions |-> List("inherit", {}, {}), autonomy |-> "", untrusted |-> "",
   limits |-> NoLimits, escalation |-> NoRulesSaid, audit |-> Aud("inherit", FALSE, {}, "unsaid")]

OfAutonomy == {[Blank EXCEPT !.autonomy = a, !.abstract = b] :
                 a \in Levels \cup {""}, b \in BOOLEAN}

LimitsAt(total, tool) ==
  [shape |-> "mapping", at |-> [k \in LimitKeys |-> IF k = "total" THEN total ELSE tool]]
OfLimits ==
  {Blank} \cup {[Blank EXCEPT !.limits = l] : l \in
     {LimitsAt(total, Absent) : total \in {1, 4, Absent, Null, Bad}}
     \cup {LimitsAt(Absent, tool) : tool \in {1, 3, Null}} \cup {LimitsAt(4, 2), LimitsAt(1, Null)}
     \cup {[shape |-> "other", at |-> NoLimits.at]}}

OfTrust ==
  {[Blank EXCEPT !.untrusted = u] : u \in {"", "true", "false"}}
  \cup {[Blank EXCEPT !.untrusted = u, !.permissions = List(kind, {p1, p3}, {})] :
          u \in {"", "true"}, kind \in {"list", "override"}}
  \cup {[Blank EXCEPT !.permissions = l] : l \in
     {List("list", {p1}, {}), List("list", {}, {}), List("edit", {p3}, {}), List("edit", {}, {p3}),
      List("edit", {p1}, {p3}), List("override", {p3}, {}), List("bad", {}, {})}}

OfTools ==
  {[Blank EXCEPT !.tools = t] : t \in SUBSET {t1, t2}}
  \cup {[Blank EXCEPT !.commands = c, !.declared = d] : c, d \in SUBSET {k1}}

Worded(w) == [c \in Conditions |-> IF c = c1 THEN w ELSE ""]
OfRules ==
  {[Blank EXCEPT !.escalation = e] : e \in
     {NoRulesSaid, Rules("bad", FALSE, {}, {}, "unsaid", Unworded)}
     \cup {Rules("plain", TRUE, c, {}, to, Worded(w)) :
             c \in {{}, {c1}}, to \in {h1, "unsaid"}, w \in {"", w1}}
     \cup {Rules("plain", TRUE, {c1, c2}, {}, to, Worded(w2)) : to \in {"", h1}}
     \cup {Rules("plain", FALSE, {}, {}, "unsaid", Worded(w1)),
            Rules("edit", FALSE, {c2}, {}, h2, Unworded), Rules("edit", FALSE, {c2}, {}, "unsaid", Worded(w2)),
            Rules("edit", FALSE, {}, {c1}, "unsaid", Unworded)}}

OfAudit ==
  {Blank} \cup {[Blank EXCEPT !.audit = Aud(kind, TRUE, keys, "unsaid")] :
     kind \in {"plain", "edit"}, keys \in {{}, {k1}, {k1, k2}}}
  \cup {[Blank EXCEPT !.audit = Aud(kind, FALSE, {}, capture)] :
     kind \in {"plain", "edit"}, capture \in {"on", "off"}}
  \cup {[Blank EXCEPT !.audit = Aud("bad", FALSE, {}, "unsaid")]}

With(declarations) == [declarations |-> declarations, ceilings |-> {NoLimits.at}]
MCFamilies ==
  {With(OfAutonomy), With(OfTrust), With(OfTools), With(OfRules), With(OfAudit),
   [declarations |-> OfLimits, ceilings |->
      {NoLimits.at} \cup {LimitsAt(total, Absent).at : total \in {1, 4}}]}
=============================================================================

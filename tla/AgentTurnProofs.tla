-------------------------- MODULE AgentTurnProofs --------------------------
(***************************************************************************)
(* Theorems about AgentTurn for any turns, tools, permissions, grants and   *)
(* ceilings.                                                                *)
(***************************************************************************)
EXTENDS AgentTurn, FiniteSetTheorems, WellFoundedInduction, TLAPS

(* What the two layers of the gate promise together of a call they let run. *)
THEOREM GateCovers ==
  ASSUME NEW n, NEW current, NEW subject, NEW scopes, Allowed(n, current, subject, scopes)
  PROVE  RunIsCovered(n, current)
<1>1. n \in ToolNames /\ n \in Role.tools /\ Equips(SpecOf[n]) /\ ~Revoked(SpecOf[n], current)
  BY GateAssumption DEF Allowed, Surface
<1>2. SpecOf[n] \in ToolSpec /\ SpecAccepted(SpecOf[n])
  BY <1>1, GateAssumption
<1>3. SpecOf[n].tier \in 0 .. 3 /\ SpecOf[n].required \subseteq Permissions
  BY <1>2 DEF ToolSpec
<1>4. ASSUME SpecOf[n].tier >= 2
      PROVE  \E g \in Grants \cap current : TierOf[g] >= SpecOf[n].tier
  <2>1. SpecOf[n].tier \in {2, 3}
    BY <1>3, <1>4
  <2>2. PICK r \in SpecOf[n].required : TierOf[r] >= SpecOf[n].tier
    BY <1>2, <2>1 DEF SpecAccepted
  <2>3. CoveredBy(InForce(current), SpecOf[n])
    BY <1>1, <2>1 DEF Revoked, Sensitive
  <2>4. PICK g \in InForce(current) : Covers(g, r)
    BY <2>2, <2>3 DEF CoveredBy
  <2>5. g \in Grants \cap current /\ TierOf[r] <= TierOf[g]
    BY <2>4 DEF InForce, Ceiling, Covers
  <2>6. TierOf[r] \in 0 .. 3 /\ TierOf[g] \in 0 .. 3
    BY <1>3, <2>2, <2>5, GateAssumption
  <2> QED
    BY <1>3, <2>2, <2>5, <2>6
<1>5. \A r \in SpecOf[n].required : \E d \in Role.permissions : Covers(d, r)
  BY <1>1 DEF Equips, CoveredBy, Effective
<1>6. Role.untrusted => SpecOf[n].tier < 3
  BY <1>1, <1>3 DEF Equips, Barred
<1> QED
  BY <1>4, <1>5, <1>6 DEF RunIsCovered

-----------------------------------------------------------------------------
(* Calls run only past the gate.                                            *)
RanInv ==
  /\ ran = [t \in Turns |-> ran[t]]
  /\ \A t \in Turns : \A c \in ran[t] : Allowed(c.tool, Current[t], TRUE, TRUE)

LEMMA RanInit == Init => RanInv
  BY DEF Init, RanInv

LEMMA RanStep == RanInv /\ [Next]_vars => RanInv'
<1> SUFFICES ASSUME RanInv, [Next]_vars PROVE RanInv'
  OBVIOUS
<1>1. ASSUME UNCHANGED ran PROVE RanInv'
  BY <1>1 DEF RanInv
<1>2. ASSUME NEW t \in Turns, Execute(t) PROVE RanInv'
  <2> DEFINE c == Head(turn[t].todo)
  <2>1. Allowed(c.tool, Current[t], TRUE, TRUE)
    BY <1>2 DEF Execute
  <2>2. ran' = [ran EXCEPT ![t] = @ \cup {c}]
    BY <1>2 DEF Execute
  <2> HIDE DEF c
  <2> QED
    BY <2>1, <2>2 DEF RanInv
<1>3. ASSUME NEW t \in Turns, Step(t) PROVE UNCHANGED ran \/ Execute(t)
  BY <1>3 DEF Step, FirstGate, Load, Gate, Answer, AnswerRetry, ToolCall, Blocked,
              ToolsDone, Stop, Timeout, Save, Put, Record
<1> QED
  BY <1>1, <1>2, <1>3 DEF Next, Begin, Crash, Land, NewWindow, vars

(* No call runs that the deployment's grants, the caller's permissions and  *)
(* the role's declaration do not all allow (intercept, resolve_tool_surface *)
(* and build_runtime together).                                             *)
THEOREM RunsAreCovered == Spec => []RanWithinGrants
<1>1. RanInv => RanWithinGrants
  BY GateCovers DEF RanInv, RanWithinGrants
<1> QED
  BY <1>1, RanInit, RanStep, PTL DEF Spec

-----------------------------------------------------------------------------
(* Spending.  What a turn has used is bounded by what the last gate it      *)
(* passed left, and one call more; the next gate comes before the next      *)
(* call.  So the two are related at every step of a turn, and another       *)
(* turn's record in between is what would break it.                         *)
Shaped(r) ==
  /\ "pc" \in DOMAIN r /\ "seen" \in DOMAIN r
  /\ "usage" \in DOMAIN r.seen
Usage == [calls : Nat, known : BOOLEAN]

Spent(r, l) ==
  r.pc \notin {"idle", "answered", "failed", "start"} => \A w \in Windows :
    IF r.pc = "load" THEN l[w] < Cap[w]
    ELSE /\ l[w] + Tokens(r.seen.usage) <= Cap[w]
         /\ r.seen.usage.calls = 0 => l[w] < Cap[w]
         /\ r.pc \in {"calling", "retrying"} => l[w] + Tokens(r.seen.usage) < Cap[w]

Counted ==
  /\ turn = [t \in Turns |-> turn[t]]
  /\ \A t \in Turns : Shaped(turn[t]) /\ turn[t].seen.usage \in Usage
  /\ ledger \in [Windows -> Nat]

SpendInv ==
  /\ Counted
  /\ "turn" \notin beside =>
       /\ \A t, u \in Turns : UnderWay(t) /\ UnderWay(u) => t = u
       /\ \A t \in Turns : Spent(turn[t], ledger)
       /\ \A w \in Windows : ledger[w] <= Cap[w]

LEMMA UsageCounts ==
  ASSUME NEW u \in Usage
  PROVE  /\ u.calls \in Nat /\ u.known \in BOOLEAN
         /\ u.known => Tokens(u) = u.calls
         /\ ~u.known => Tokens(u) = 0
<1>1. u.calls \in Nat /\ u.known \in BOOLEAN
  BY DEF Usage
<1>2. (u.known => Tokens(u) = u.calls) /\ (~u.known => Tokens(u) = 0)
  BY DEF Tokens
<1> QED
  BY <1>1, <1>2

LEMMA UsageOf ==
  ASSUME NEW c \in Nat, NEW k \in BOOLEAN
  PROVE  [calls |-> c, known |-> k] \in Usage
  BY DEF Usage

LEMMA UsedIs ==
  ASSUME NEW u \in Usage, NEW k \in BOOLEAN
  PROVE  /\ Used(u, 1, k) \in Usage
         /\ Used(u, 1, k).calls = u.calls + 1
         /\ Used(u, 1, k).known <=> u.known /\ k
<1>1. Used(u, 1, k) \in Usage
  BY UsageCounts, UsageOf DEF Used
<1>2. Used(u, 1, k).calls = u.calls + 1
  BY DEF Used
<1>3. Used(u, 1, k).known <=> u.known /\ k
  BY DEF Used, Usage
<1> QED
  BY <1>1, <1>2, <1>3

(* A model call adds one token at most, and a rejected one hides them all.  *)
LEMMA TokensAdd ==
  ASSUME NEW u \in Usage, NEW k \in BOOLEAN
  PROVE  /\ Tokens(u) \in Nat /\ Tokens(Used(u, 1, k)) \in Nat
         /\ Tokens(Used(u, 1, k)) <= Tokens(u) + 1
         /\ ~k => Tokens(Used(u, 1, k)) = 0
<1>1. CASE u.known /\ k
  <2>1. Tokens(u) = u.calls /\ u.calls \in Nat
    BY <1>1, UsageCounts
  <2>2. Used(u, 1, k) \in Usage /\ Used(u, 1, k).known /\ Used(u, 1, k).calls = u.calls + 1
    BY <1>1, UsedIs
  <2>3. Tokens(Used(u, 1, k)) = u.calls + 1
    BY <2>2, UsageCounts
  <2>4. /\ Tokens(u) \in Nat /\ Tokens(Used(u, 1, k)) \in Nat
        /\ Tokens(Used(u, 1, k)) <= Tokens(u) + 1
    BY <2>1, <2>3
  <2>5. k
    BY <1>1
  <2> QED
    BY <2>4, <2>5, Zenon
<1>2. CASE ~(u.known /\ k)
  <2>1. Tokens(Used(u, 1, k)) = 0
    BY <1>2, UsedIs, UsageCounts
  <2>2. Tokens(u) \in Nat
    BY UsageCounts
  <2> QED
    BY <2>1, <2>2
<1> QED
  BY <1>1, <1>2

LEMMA NewTurnCounted ==
  ASSUME NEW p, NEW h
  PROVE  LET r == [NewTurn EXCEPT !.pc = p, !.history = h]
         IN  /\ Shaped(r) /\ r.pc = p /\ r.seen.usage = NoUsage
             /\ NoUsage \in Usage
<1>1. NoUsage \in Usage
  BY UsageOf DEF NoUsage
<1> DEFINE r == [NewTurn EXCEPT !.pc = p, !.history = h]
<1>2. Shaped(r)
  BY DEF NewTurn, NewState, Shaped
<1>3. r.pc = p
  BY DEF NewTurn
<1>4. r.seen.usage = NoUsage
  BY DEF NewTurn, NewState
<1> QED
  BY <1>1, <1>2, <1>3, <1>4

LEMMA SpendInit == Init => SpendInv
<1> SUFFICES ASSUME Init PROVE SpendInv
  OBVIOUS
<1>1. \A t \in Turns : turn[t] = NewTurn /\ turn[t].pc = "idle"
  BY DEF Init, NewTurn
<1>2. Shaped(NewTurn) /\ NewTurn.seen.usage \in Usage
  BY DEF NewTurn, NewState, NoUsage, Shaped, Usage
<1>3. Counted
  BY <1>1, <1>2 DEF Init, Counted
<1> QED
  BY <1>1, <1>3, TurnAssumption DEF Init, SpendInv, Spent, UnderWay

(* A step that changes the state of one turn, and neither the ledger nor    *)
(* what ran side by side.                                                   *)
LEMMA Moved ==
  ASSUME SpendInv, NEW t \in Turns, NEW r, Set(t, r), UNCHANGED <<ledger, beside>>,
         turn[t].pc \notin {"idle", "answered", "failed"},
         Shaped(r), r.seen.usage \in Usage,
         "turn" \notin beside => Spent(r, ledger)
  PROVE  SpendInv'
<1>1. /\ turn' = [q \in Turns |-> turn'[q]] /\ turn'[t] = r
      /\ \A q \in Turns \ {t} : turn'[q] = turn[q]
  BY DEF Set, SpendInv, Counted
<1>2. Counted'
  BY <1>1 DEF SpendInv, Counted
<1>3. ASSUME "turn" \notin beside
      PROVE  /\ \A q \in Turns : Spent(turn'[q], ledger')
             /\ \A q, u \in Turns : UnderWay(q)' /\ UnderWay(u)' => q = u
  BY <1>1, <1>3 DEF SpendInv, UnderWay
<1> QED
  BY <1>2, <1>3 DEF SpendInv

(* What is known of the turn that takes a step, past its first gate.        *)
LEMMA AtGate ==
  ASSUME SpendInv, NEW t \in Turns
  PROVE  /\ Shaped(turn[t]) /\ turn[t].seen.usage \in Usage
         /\ Tokens(turn[t].seen.usage) \in Nat /\ turn[t].seen.usage.calls \in Nat
         /\ \A w \in Windows : ledger[w] \in Nat /\ Cap[w] \in Nat
         /\ "turn" \notin beside => Spent(turn[t], ledger)
  BY TokensAdd, TurnAssumption DEF SpendInv, Counted, Usage

(* Steps that only move a turn on, with the usage it has.                   *)
LEMMA Kept ==
  ASSUME SpendInv, NEW t \in Turns, NEW r, Set(t, r), UNCHANGED <<ledger, beside>>,
         Shaped(r), r.seen.usage = turn[t].seen.usage,
         turn[t].pc \notin {"idle", "answered", "failed", "start", "load"},
         r.pc \notin {"calling", "retrying", "start", "load"}
  PROVE  SpendInv'
<1>1. "turn" \notin beside => Spent(r, ledger)
  BY AtGate DEF Spent
<1> QED
  BY <1>1, AtGate, Moved

LEMMA FailKept ==
  ASSUME SpendInv, NEW t \in Turns, NEW p \in {"answered", "failed"}, Finish(t, p),
         UnderWay(t), UNCHANGED <<ledger, beside>>
  PROVE  SpendInv'
<1> DEFINE r == [NewTurn EXCEPT !.pc = p, !.history = turn[t].history]
<1>1. Shaped(r) /\ r.pc = p /\ r.seen.usage \in Usage
  BY NewTurnCounted
<1>2. Set(t, r) /\ turn[t].pc \notin {"idle", "answered", "failed"}
  BY DEF Finish, UnderWay
<1>3. Spent(r, ledger)
  BY <1>1 DEF Spent
<1> HIDE DEF r
<1> QED
  BY <1>1, <1>2, <1>3, Moved

(* End: a text ends the turn, whose usage is within the caps.               *)
LEMMA EndKept ==
  ASSUME SpendInv, NEW t \in Turns, NEW u \in Usage, End(t, u), UNCHANGED <<ledger, beside>>,
         turn[t].pc \notin {"idle", "answered", "failed"},
         "turn" \notin beside => \A w \in Windows :
            ledger[w] + Tokens(u) <= Cap[w] /\ (u.calls = 0 => ledger[w] < Cap[w])
  PROVE  SpendInv'
<1> DEFINE r == [turn[t] EXCEPT !.pc = "save", !.seen.msgs = Append(@, Say(t)), !.seen.usage = u]
<1>1. Shaped(turn[t])
  BY AtGate
<1>2. Shaped(r)
  BY <1>1 DEF Shaped
<1>3. r.pc = "save"
  BY <1>1 DEF Shaped
<1>4. r.seen.usage = u
  BY <1>1 DEF Shaped
<1>5. Set(t, r)
  BY DEF End
<1> HIDE DEF r
<1>6. "turn" \notin beside => Spent(r, ledger)
  BY <1>3, <1>4 DEF Spent
<1> QED
  BY <1>2, <1>4, <1>5, <1>6, Moved

-----------------------------------------------------------------------------
LEMMA BeginSpend == ASSUME SpendInv, NEW t \in Turns, Begin(t) PROVE SpendInv'
<1> DEFINE r == [turn[t] EXCEPT !.pc = "start"]
<1>1. Shaped(turn[t]) /\ turn[t].seen.usage \in Usage
  BY AtGate
<1>2. Shaped(r) /\ r.pc = "start" /\ r.seen = turn[t].seen
  BY <1>1 DEF Shaped
<1>3. turn' = [turn EXCEPT ![t] = r] /\ ledger' = ledger
  BY DEF Begin, Goto, Set
<1> HIDE DEF r
<1>4. /\ turn' = [q \in Turns |-> turn'[q]] /\ turn'[t] = r
      /\ \A q \in Turns \ {t} : turn'[q] = turn[q]
  BY <1>3 DEF SpendInv, Counted
<1>5. Counted'
  BY <1>1, <1>2, <1>3, <1>4 DEF SpendInv, Counted
<1>6. beside' = beside \cup {k \in {"turn"} : \E u \in Turns : UnderWay(u)}
  BY DEF Begin
<1>7. ASSUME "turn" \notin beside'
      PROVE  "turn" \notin beside /\ \A u \in Turns : ~UnderWay(u)
  BY <1>6, <1>7
<1>8. ASSUME "turn" \notin beside'
      PROVE  \A q, u \in Turns : UnderWay(q)' /\ UnderWay(u)' => q = u
  BY <1>4, <1>7, <1>8 DEF UnderWay
<1>9. Spent(r, ledger)
  BY <1>2 DEF Spent
<1>10. ASSUME "turn" \notin beside'
       PROVE  /\ \A q \in Turns : Spent(turn'[q], ledger')
              /\ \A w \in Windows : ledger'[w] <= Cap[w]
  BY <1>3, <1>4, <1>7, <1>9, <1>10 DEF SpendInv
<1> QED
  BY <1>5, <1>8, <1>10 DEF SpendInv

LEMMA FirstGateSpend == ASSUME SpendInv, NEW t \in Turns, FirstGate(t) PROVE SpendInv'
<1>1. turn[t].pc = "start" /\ UNCHANGED <<ledger, beside>> /\ UnderWay(t)
  BY DEF FirstGate, UnderWay
<1>2. CASE Finish(t, "answered") \/ Fail(t)
  BY <1>1, <1>2, FailKept DEF Fail
<1>3. CASE ~Reached(NoUsage) /\ Goto(t, "load")
  <2> DEFINE r == [turn[t] EXCEPT !.pc = "load"]
  <2>1. Shaped(r) /\ r.pc = "load" /\ r.seen = turn[t].seen
    BY AtGate DEF Shaped
  <2>2. Set(t, r)
    BY <1>3 DEF Goto
  <2>3. Tokens(NoUsage) = 0
    BY DEF Tokens, NoUsage
  <2>4. \A w \in Windows : ledger[w] < Cap[w]
    BY <1>3, <2>3, AtGate DEF Reached
  <2> HIDE DEF r
  <2>5. Spent(r, ledger)
    BY <2>1, <2>4 DEF Spent
  <2> QED
    BY <1>1, <2>1, <2>2, <2>5, AtGate, Moved
<1> QED
  BY <1>2, <1>3 DEF FirstGate

LEMMA LoadSpend == ASSUME SpendInv, NEW t \in Turns, Load(t) PROVE SpendInv'
<1> DEFINE begun == [NewState EXCEPT !.msgs = <<User(t)>>]
           read == [turn[t] EXCEPT !.pc = "model", !.loaded = "yes",
                                   !.history = Latest.msgs, !.seen = begun]
           unread == [turn[t] EXCEPT !.pc = "model", !.loaded = NotLoaded, !.seen = begun]
<1>1. "usage" \in DOMAIN begun /\ begun.usage = NoUsage
  BY DEF NewState
<1> HIDE DEF begun
<1>2. Shaped(turn[t])
  BY AtGate
<1>3. /\ Shaped(read) /\ read.pc = "model" /\ read.seen = begun
      /\ Shaped(unread) /\ unread.pc = "model" /\ unread.seen = begun
  BY <1>1, <1>2 DEF Shaped
<1>4. turn[t].pc = "load" /\ UNCHANGED <<ledger, beside>>
  BY DEF Load, Readable
<1>5. Set(t, read) \/ Set(t, unread)
  BY DEF Load, begun
<1> HIDE DEF read, unread
<1>6. NoUsage \in Usage /\ Tokens(NoUsage) = 0
  BY UsageOf DEF NoUsage, Tokens
<1>7. ASSUME NEW r, r.pc = "model", r.seen.usage = NoUsage, "turn" \notin beside
      PROVE  Spent(r, ledger)
  BY <1>4, <1>6, <1>7, AtGate DEF Spent
<1>8. /\ "turn" \notin beside => Spent(read, ledger)
      /\ "turn" \notin beside => Spent(unread, ledger)
  BY <1>1, <1>3, <1>7
<1>9. CASE Set(t, read)
  BY <1>1, <1>3, <1>4, <1>6, <1>8, <1>9, Moved
<1>10. CASE Set(t, unread)
  BY <1>1, <1>3, <1>4, <1>6, <1>8, <1>10, Moved
<1> QED
  BY <1>5, <1>9, <1>10

LEMMA GateSpend == ASSUME SpendInv, NEW t \in Turns, Gate(t) PROVE SpendInv'
<1> DEFINE u == turn[t].seen.usage
<1>1. turn[t].pc = "model" /\ UNCHANGED <<ledger, beside>> /\ UnderWay(t)
  BY DEF Gate, UnderWay
<1>2. CASE GateAgain(u) /\ End(t, u)
  <2>1. "turn" \notin beside => \A w \in Windows :
            ledger[w] + Tokens(u) <= Cap[w] /\ (u.calls = 0 => ledger[w] < Cap[w])
    BY <1>1, AtGate DEF Spent
  <2> QED
    BY <1>1, <1>2, <2>1, AtGate, EndKept
<1>3. CASE ~GateAgain(u) /\ Goto(t, "calling")
  <2> DEFINE r == [turn[t] EXCEPT !.pc = "calling"]
  <2>1. Shaped(r) /\ r.pc = "calling" /\ r.seen = turn[t].seen
    BY AtGate DEF Shaped
  <2>2. Set(t, r)
    BY <1>3 DEF Goto
  <2> HIDE DEF r
  <2>3. u.calls = 0 => Tokens(u) = 0
    BY DEF Tokens
  <2>4. "turn" \notin beside => \A w \in Windows : ledger[w] + Tokens(u) < Cap[w]
    BY <1>1, <1>3, <2>3, AtGate DEF Spent, GateAgain, Reached
  <2>5. "turn" \notin beside => Spent(r, ledger)
    BY <2>1, <2>4, AtGate DEF Spent
  <2> QED
    BY <1>1, <2>1, <2>2, <2>5, AtGate, Moved
<1>4. CASE u.calls > 0 /\ Fail(t)
  BY <1>1, <1>4, FailKept DEF Fail
<1> QED
  BY <1>2, <1>3, <1>4 DEF Gate

(* A model's answer spends one token of what the gate before it left.       *)
LEMMA RespondsSpend ==
  ASSUME SpendInv, NEW t \in Turns, NEW before \in Usage, Responds(t, before),
         turn[t].pc \in {"calling", "retrying"}, UNCHANGED <<ledger, beside>>,
         "turn" \notin beside => \A w \in Windows : ledger[w] + Tokens(before) < Cap[w]
  PROVE  SpendInv'
<1>1. PICK known \in BOOLEAN :
        \/ End(t, Used(before, 1, known))
        \/ \E cs : Asks(t, Used(before, 1, known), cs)
  BY DEF Responds
<1> DEFINE u == Used(before, 1, known)
<1>2. u \in Usage /\ u.calls # 0
  <2>1. before.calls \in Nat
    BY UsageCounts
  <2>2. u \in Usage /\ u.calls = before.calls + 1
    BY UsedIs
  <2> HIDE DEF u
  <2> QED
    BY <2>1, <2>2
<1>3. "turn" \notin beside => \A w \in Windows : ledger[w] + Tokens(u) <= Cap[w]
  BY TokensAdd, AtGate
<1> HIDE DEF u
<1>4. CASE End(t, u)
  BY <1>2, <1>3, <1>4, EndKept
<1>5. ASSUME NEW cs, Asks(t, u, cs) PROVE SpendInv'
  <2> DEFINE s == [turn[t].seen EXCEPT !.msgs = Append(@, AskFor(t, cs)), !.usage = u]
             r == [turn[t] EXCEPT !.pc = Route(s), !.seen = s, !.todo = cs,
                                  !.ids = @ + Len(cs)]
  <2>1. "usage" \in DOMAIN s /\ s.usage = u
    BY AtGate DEF Shaped
  <2>2. Set(t, r)
    BY <1>5 DEF Asks
  <2>3. Route(s) \in {"tools", "limit"}
    BY DEF Route
  <2> HIDE DEF s
  <2>4. Shaped(r) /\ r.pc = Route(s) /\ r.seen = s
    BY <2>1, AtGate DEF Shaped
  <2> HIDE DEF r
  <2>5. "turn" \notin beside => Spent(r, ledger)
    BY <1>2, <1>3, <2>1, <2>3, <2>4 DEF Spent
  <2> QED
    BY <1>2, <2>1, <2>2, <2>4, <2>5, Moved
<1> QED
  BY <1>1, <1>4, <1>5 DEF u

LEMMA AnswerSpend ==
  ASSUME SpendInv, NEW t \in Turns, Answer(t) \/ AnswerRetry(t) PROVE SpendInv'
<1> DEFINE u == turn[t].seen.usage
           z == Rejected(t)
<1>1. /\ turn[t].pc \in {"calling", "retrying"} /\ UNCHANGED <<ledger, beside>>
      /\ turn[t].pc \notin {"idle", "answered", "failed", "start"} /\ UnderWay(t)
  BY DEF Answer, AnswerRetry, UnderWay
<1>2. u \in Usage /\ Tokens(u) \in Nat
  BY AtGate
<1>3. z \in Usage /\ z.calls # 0 /\ Tokens(z) = 0
  <2>1. z \in Usage /\ z.calls = u.calls + 1
    BY <1>2, UsedIs DEF Rejected
  <2>2. Tokens(z) = 0
    BY <1>2, TokensAdd DEF Rejected
  <2>3. u.calls \in Nat
    BY <1>2, UsageCounts
  <2> HIDE DEF z
  <2> QED
    BY <2>1, <2>2, <2>3
<1>4. "turn" \notin beside => \A w \in Windows :
        ledger[w] + Tokens(u) < Cap[w] /\ ledger[w] + Tokens(z) < Cap[w]
  BY <1>1, <1>2, <1>3, AtGate DEF Spent
<1>5. CASE Responds(t, u) \/ Responds(t, z)
  BY <1>1, <1>2, <1>3, <1>4, <1>5, RespondsSpend
<1>6. CASE Fail(t)
  BY <1>1, <1>6, FailKept DEF Fail
<1>7. CASE End(t, z)
  <2>1. "turn" \notin beside => \A w \in Windows :
           ledger[w] + Tokens(z) <= Cap[w] /\ (z.calls = 0 => ledger[w] < Cap[w])
    BY <1>3, <1>4, AtGate
  <2> QED
    BY <1>1, <1>3, <1>7, <2>1, EndKept
<1>8. CASE Goto(t, "retrying")
  <2> DEFINE r == [turn[t] EXCEPT !.pc = "retrying"]
  <2>1. Shaped(r) /\ r.pc = "retrying" /\ r.seen = turn[t].seen
    BY AtGate DEF Shaped
  <2>2. Set(t, r)
    BY <1>8 DEF Goto
  <2> HIDE DEF r
  <2>3. "turn" \notin beside => Spent(r, ledger)
    BY <1>1, <1>4, <2>1, AtGate DEF Spent
  <2> QED
    BY <1>1, <2>1, <2>2, <2>3, AtGate, Moved
<1> QED
  BY <1>5, <1>6, <1>7, <1>8 DEF Answer, AnswerRetry

LEMMA ToolCallSpend == ASSUME SpendInv, NEW t \in Turns, ToolCall(t) PROVE SpendInv'
<1>1. turn[t].pc = "tools" /\ UNCHANGED <<ledger, beside>> /\ UnderWay(t)
  BY DEF ToolCall, UnderWay
<1>2. CASE Fail(t)
  BY <1>1, <1>2, FailKept DEF Fail
<1>3. ASSUME NEW n, Replied(t, n) PROVE SpendInv'
  <2> DEFINE r == [turn[t] EXCEPT !.todo = Tail(@),
                     !.replies = Append(@, ReplyTo(t, Head(turn[t].todo))), !.fails = @ + n]
  <2>1. Shaped(r) /\ r.pc = turn[t].pc /\ r.seen = turn[t].seen
    BY AtGate DEF Shaped
  <2>2. Set(t, r)
    BY <1>3 DEF Replied
  <2> HIDE DEF r
  <2> QED
    BY <1>1, <2>1, <2>2, Kept
<1> QED
  BY <1>2, <1>3 DEF ToolCall, Blocked, Execute

LEMMA ToolsDoneSpend == ASSUME SpendInv, NEW t \in Turns, ToolsDone(t) PROVE SpendInv'
<1> DEFINE s == [turn[t].seen EXCEPT !.msgs = @ \o turn[t].replies,
                   !.count = @ + Len(turn[t].replies), !.errors = @ + turn[t].fails]
           to == IF s.errors >= MaxToolErrors THEN "errors" ELSE "model"
           r == [turn[t] EXCEPT !.seen = s, !.replies = <<>>, !.fails = 0, !.pc = to]
<1>1. turn[t].pc = "tools" /\ UNCHANGED <<ledger, beside>> /\ UnderWay(t)
  BY DEF ToolsDone, UnderWay
<1>2. Fail(t) \/ Set(t, r)
  BY DEF ToolsDone
<1>3. CASE Fail(t)
  BY <1>1, <1>3, FailKept DEF Fail
<1>4. CASE Set(t, r)
  <2>1. "usage" \in DOMAIN s /\ s.usage = turn[t].seen.usage
    BY AtGate DEF Shaped
  <2>2. to \in {"errors", "model"}
    OBVIOUS
  <2> HIDE DEF s, to
  <2>3. Shaped(r) /\ r.pc = to /\ r.seen = s
    BY <2>1, AtGate DEF Shaped
  <2> HIDE DEF r
  <2> QED
    BY <1>1, <1>4, <2>1, <2>2, <2>3, Kept
<1> QED
  BY <1>2, <1>3, <1>4

LEMMA TimeoutSpend == ASSUME SpendInv, NEW t \in Turns, Timeout(t) PROVE SpendInv'
<1> DEFINE s == [turn[t].seen EXCEPT !.msgs = Append(Close(@), Say(t))]
           r == [turn[t] EXCEPT !.pc = "save", !.todo = <<>>, !.replies = <<>>, !.fails = 0,
                                !.seen = s]
<1>1. /\ turn[t].pc \notin {"idle", "answered", "failed", "start", "load"}
      /\ UNCHANGED <<ledger, beside>> /\ Set(t, r)
  BY DEF Timeout, Progress
<1>2. "usage" \in DOMAIN s /\ s.usage = turn[t].seen.usage
  BY AtGate DEF Shaped
<1> HIDE DEF s
<1>3. Shaped(r) /\ r.pc = "save" /\ r.seen = s
  BY <1>2, AtGate DEF Shaped
<1> HIDE DEF r
<1> QED
  BY <1>1, <1>2, <1>3, Kept

LEMMA StopSpend == ASSUME SpendInv, NEW t \in Turns, Stop(t) PROVE SpendInv'
<1>1. /\ turn[t].pc \in {"limit", "errors"} /\ UNCHANGED <<ledger, beside>>
      /\ End(t, turn[t].seen.usage)
  BY DEF Stop
<1>2. "turn" \notin beside => \A w \in Windows :
         /\ ledger[w] + Tokens(turn[t].seen.usage) <= Cap[w]
         /\ turn[t].seen.usage.calls = 0 => ledger[w] < Cap[w]
  BY <1>1, AtGate DEF Spent
<1> QED
  BY <1>1, <1>2, AtGate, EndKept

LEMMA SaveSpend ==
  ASSUME SpendInv, NEW t \in Turns, Save(t) \/ Put(t) PROVE SpendInv'
<1>1. turn[t].pc \in {"save", "put"} /\ UNCHANGED <<ledger, beside>>
  BY DEF Save, Put
<1>2. CASE Goto(t, "record")
  <2> DEFINE r == [turn[t] EXCEPT !.pc = "record"]
  <2>1. Shaped(r) /\ r.pc = "record" /\ r.seen = turn[t].seen
    BY AtGate DEF Shaped
  <2>2. Set(t, r)
    BY <1>2 DEF Goto
  <2> HIDE DEF r
  <2> QED
    BY <1>1, <2>1, <2>2, Kept
<1>3. ASSUME NEW c, Set(t, [turn[t] EXCEPT !.pc = "put", !.pending = c]) PROVE SpendInv'
  <2> DEFINE r == [turn[t] EXCEPT !.pc = "put", !.pending = c]
  <2>1. Shaped(r) /\ r.pc = "put" /\ r.seen = turn[t].seen
    BY AtGate DEF Shaped
  <2>2. Set(t, r)
    BY <1>3
  <2> HIDE DEF r
  <2> QED
    BY <1>1, <2>1, <2>2, Kept
<1> QED
  BY <1>2, <1>3 DEF Save, Put

(* The only step that writes what was spent: no other turn is under way.    *)
LEMMA RecordSpend == ASSUME SpendInv, NEW t \in Turns, Record(t) PROVE SpendInv'
<1> DEFINE r == [NewTurn EXCEPT !.pc = "answered", !.history = turn[t].history]
           u == turn[t].seen.usage
<1>1. turn[t].pc = "record" /\ UNCHANGED beside /\ UnderWay(t)
  BY DEF Record, UnderWay
<1>2. CASE UNCHANGED ledger
  BY <1>1, <1>2, FailKept DEF Record
<1>3. CASE ledger' = Recorded(u)
  <2>1. Shaped(r) /\ r.pc = "answered" /\ r.seen.usage \in Usage
    <3>1. LET z == [NewTurn EXCEPT !.pc = "answered", !.history = turn[t].history]
          IN  Shaped(z) /\ z.pc = "answered" /\ z.seen.usage = NoUsage /\ NoUsage \in Usage
      BY NewTurnCounted, ZenonT(30)
    <3> QED
      BY <3>1, ZenonT(30)
  <2>2. turn' = [turn EXCEPT ![t] = r]
    BY DEF Record, Finish, Set
  <2> HIDE DEF r
  <2>3. /\ turn' = [q \in Turns |-> turn'[q]] /\ turn'[t] = r
        /\ \A q \in Turns \ {t} : turn'[q] = turn[q]
    BY <2>2 DEF SpendInv, Counted
  <2>4. \A w \in Windows : ledger'[w] = ledger[w] + Tokens(u)
    BY <1>3 DEF Recorded
  <2>5. ledger' \in [Windows -> Nat]
    BY <1>3, AtGate DEF Recorded
  <2>6. Counted'
    BY <2>1, <2>3, <2>5 DEF SpendInv, Counted
  <2>7. ASSUME "turn" \notin beside
        PROVE  \A q \in Turns : ~UnderWay(q)'
    BY <1>1, <2>1, <2>3, <2>7 DEF SpendInv, UnderWay
  <2>8. ASSUME "turn" \notin beside
        PROVE  /\ \A q \in Turns : Spent(turn'[q], ledger')
               /\ \A w \in Windows : ledger'[w] <= Cap[w]
    <3>1. \A q \in Turns : Spent(turn'[q], ledger')
      BY <2>7, <2>8 DEF UnderWay, Spent
    <3>2. \A w \in Windows : ledger[w] + Tokens(u) <= Cap[w]
      BY <1>1, <2>8, AtGate DEF Spent
    <3> QED
      BY <2>4, <3>1, <3>2
  <2> QED
    BY <1>1, <2>6, <2>7, <2>8 DEF SpendInv
<1> QED
  BY <1>2, <1>3 DEF Record

LEMMA WindowSpend == ASSUME SpendInv, NEW v \in Windows, NewWindow(v) PROVE SpendInv'
<1>1. /\ UNCHANGED <<turn, beside>> /\ ledger' \in [Windows -> Nat]
      /\ \A w \in Windows : ledger'[w] <= ledger[w]
  BY DEF NewWindow, SpendInv, Counted
<1>2. Counted'
  BY <1>1 DEF SpendInv, Counted
<1>3. \A t \in Turns : Tokens(turn[t].seen.usage) \in Nat
  BY AtGate
<1>4. ASSUME NEW t \in Turns, Spent(turn[t], ledger) PROVE Spent(turn[t], ledger')
  <2>1. \A w \in Windows : ledger[w] \in Nat /\ ledger'[w] \in Nat /\ Cap[w] \in Nat
    BY <1>1, TurnAssumption DEF SpendInv, Counted
  <2> QED
    BY <1>1, <1>3, <1>4, <2>1 DEF Spent
<1>5. "turn" \notin beside => \A w \in Windows : ledger'[w] <= Cap[w]
  BY <1>1, TurnAssumption DEF SpendInv, Counted
<1> QED
  BY <1>1, <1>2, <1>4, <1>5 DEF SpendInv, UnderWay

LEMMA SpendStep == SpendInv /\ [Next]_vars => SpendInv'
<1> SUFFICES ASSUME SpendInv, [Next]_vars PROVE SpendInv'
  OBVIOUS
<1>1. CASE UNCHANGED vars
  BY <1>1 DEF vars, SpendInv, Counted, UnderWay
<1>2. ASSUME NEW t \in Turns, Begin(t) PROVE SpendInv'
  BY <1>2, BeginSpend
<1>3. ASSUME NEW t \in Turns, Step(t) PROVE SpendInv'
  BY <1>3, FirstGateSpend, LoadSpend, GateSpend, AnswerSpend, ToolCallSpend,
     ToolsDoneSpend, StopSpend, TimeoutSpend, SaveSpend, RecordSpend DEF Step
<1>4. ASSUME NEW t \in Turns, Crash(t) PROVE SpendInv'
  BY <1>4, FailKept DEF Crash, Fail
<1>5. ASSUME NEW c \in late, Land(c) PROVE SpendInv'
  <2>1. UNCHANGED <<turn, ledger>> /\ ("turn" \in beside' <=> "turn" \in beside)
    BY <1>5 DEF Land
  <2> QED
    BY <2>1 DEF SpendInv, Counted, UnderWay
<1>6. ASSUME NEW w \in Windows, NewWindow(w) PROVE SpendInv'
  BY <1>6, WindowSpend
<1> QED
  BY <1>1, <1>2, <1>3, <1>4, <1>5, <1>6 DEF Next

(* "A tool loop overshoots a cap by at most the one call already in flight" *)
(* (_budget_refusal before the turn, before each later model call, and      *)
(* before a retry; _record_usage after it): while the subject's turns do    *)
(* not overlap, no cap is passed by as much as one call, for any caps and   *)
(* windows, whenever a window ends and whichever turns fail or crash.       *)
THEOREM SpendStaysBounded == Spec => []SpendBounded
<1>1. SpendInv => SpendBounded
  BY DEF SpendInv, SpendBounded
<1> QED
  BY <1>1, SpendInit, SpendStep, PTL DEF Spec
-----------------------------------------------------------------------------
(* Sequences put together from parts.                                       *)
LEMMA LeastOf ==
  ASSUME NEW S \in SUBSET Nat, S # {}
  PROVE  \E x \in S : \A y \in S : x <= y
<1>1. PICK x \in S : \A y \in S : ~ (<<y, x>> \in OpToRel(<, Nat))
  BY WFMin, NatLessThanWellFounded, Zenon
<1>2. \A y \in S : ~ (y < x)
  BY <1>1 DEF OpToRel
<1> QED
  BY <1>2

LEMMA AppendIs ==
  ASSUME NEW S, NEW s \in Seq(S), NEW e \in S
  PROVE  /\ Append(s, e) \in Seq(S) /\ Len(Append(s, e)) = Len(s) + 1 /\ Len(s) \in Nat
         /\ Append(s, e)[Len(s) + 1] = e
         /\ \A i \in 1 .. Len(s) : Append(s, e)[i] = s[i]
  OBVIOUS

LEMMA JoinIs ==
  ASSUME NEW S, NEW s \in Seq(S), NEW r \in Seq(S)
  PROVE  /\ s \o r \in Seq(S) /\ Len(s \o r) = Len(s) + Len(r) /\ Len(s) \in Nat /\ Len(r) \in Nat
         /\ \A i \in 1 .. Len(s) : (s \o r)[i] = s[i]
         /\ \A i \in 1 .. Len(r) : (s \o r)[Len(s) + i] = r[i]
  OBVIOUS

LEMMA PlacesOf ==
  ASSUME NEW S, NEW s \in Seq(S)
  PROVE  Len(s) \in Nat /\ DOMAIN s = 1 .. Len(s) /\ \A i \in 1 .. Len(s) : s[i] \in S
  OBVIOUS

(* The first m parts, and where each of them ends.                          *)
Flat(f, parts, m, ends) ==
  /\ ends \in [0 .. m -> Nat] /\ ends[0] = 0
  /\ \A i \in 1 .. m : ends[i] = ends[i - 1] + Len(parts[i])
  /\ Len(f) = ends[m]
  /\ \A i \in 1 .. m : \A k \in 1 .. Len(parts[i]) : f[ends[i - 1] + k] = parts[i][k]

LEMMA EndsClimb ==
  ASSUME NEW m \in Nat, NEW parts, NEW f, NEW ends, Flat(f, parts, m, ends),
         \A i \in 1 .. m : Len(parts[i]) \in Nat,
         NEW i \in 0 .. m, NEW j \in 0 .. m, i <= j
  PROVE  ends[i] <= ends[j]
<1>1. ends \in [0 .. m -> Nat] /\ \A l \in 1 .. m : ends[l] = ends[l - 1] + Len(parts[l])
  BY DEF Flat
<1> DEFINE T == {l \in i .. m : ~ (ends[i] <= ends[l])}
<1>2. ASSUME T # {} PROVE FALSE
  <2>1. PICK l \in T : \A k \in T : l <= k
    <3>1. T \in SUBSET Nat
      OBVIOUS
    <3> HIDE DEF T
    <3> QED
      BY <1>2, <3>1, LeastOf
  <2>2. l \in i .. m /\ ~ (ends[i] <= ends[l]) /\ l # i
    BY <1>1
  <2>3. l - 1 \in i .. m /\ l - 1 \notin T /\ l \in 1 .. m /\ l \in 0 .. m /\ l - 1 \in 0 .. m
    <3> HIDE DEF T
    <3>1. l - 1 \in i .. m /\ ~ (l <= l - 1) /\ l \in 1 .. m /\ l \in 0 .. m /\ l - 1 \in 0 .. m
      BY <2>2
    <3> QED
      BY <2>1, <3>1
  <2>4. ends[i] <= ends[l - 1]
    BY <2>3
  <2>5. ends[l] = ends[l - 1] + Len(parts[l]) /\ Len(parts[l]) \in Nat /\ ends[l - 1] \in Nat
    BY <1>1, <2>3
  <2>6. ends[i] \in Nat
    BY <1>1
  <2> HIDE DEF T
  <2> QED
    BY <2>2, <2>4, <2>5, <2>6
<1>3. j \in i .. m
  OBVIOUS
<1> QED
  BY <1>2, <1>3

LEMMA FlatGrows ==
  ASSUME NEW S, NEW m \in Nat, NEW parts, NEW f \in Seq(S), NEW ends, Flat(f, parts, m, ends),
         parts[m + 1] \in Seq(S), \A i \in 1 .. m : parts[i] \in Seq(S)
  PROVE  \E e : Flat(f \o parts[m + 1], parts, m + 1, e)
<1> DEFINE p == parts[m + 1]
           g == f \o p
           e == [i \in 0 .. (m + 1) |-> IF i = m + 1 THEN ends[m] + Len(p) ELSE ends[i]]
<1>1. /\ ends \in [0 .. m -> Nat] /\ ends[0] = 0 /\ Len(f) = ends[m]
      /\ \A i \in 1 .. m : ends[i] = ends[i - 1] + Len(parts[i])
      /\ \A i \in 1 .. m : \A k \in 1 .. Len(parts[i]) : f[ends[i - 1] + k] = parts[i][k]
  BY DEF Flat
<1>2. p \in Seq(S)
  OBVIOUS
<1> HIDE DEF p
<1>3. /\ Len(g) = ends[m] + Len(p) /\ Len(p) \in Nat /\ ends[m] \in Nat
      /\ \A i \in 1 .. Len(f) : g[i] = f[i]
      /\ \A i \in 1 .. Len(p) : g[ends[m] + i] = p[i]
  <2>1. /\ Len(f \o p) = Len(f) + Len(p) /\ Len(f) \in Nat /\ Len(p) \in Nat
        /\ \A i \in 1 .. Len(f) : (f \o p)[i] = f[i]
        /\ \A i \in 1 .. Len(p) : (f \o p)[Len(f) + i] = p[i]
    BY <1>2, JoinIs
  <2> QED
    BY <1>1, <2>1
<1> HIDE DEF g
<1>4. /\ \A i \in 0 .. m : e[i] = ends[i] /\ e[i] \in Nat
      /\ e[m + 1] = ends[m] + Len(p)
  BY <1>1
<1>5. e \in [0 .. (m + 1) -> Nat]
  BY <1>1, <1>3
<1> HIDE DEF e
<1>6. ASSUME NEW i \in 1 .. (m + 1)
      PROVE  /\ e[i] = e[i - 1] + Len(parts[i])
             /\ \A k \in 1 .. Len(parts[i]) : g[e[i - 1] + k] = parts[i][k]
  <2>1. CASE i = m + 1
    <3>1. i - 1 = m /\ m \in 0 .. m /\ parts[i] = p
      BY <2>1 DEF p
    <3> QED
      BY <1>3, <1>4, <2>1, <3>1
  <2>2. CASE i # m + 1
    <3>1. i \in 1 .. m /\ i \in 0 .. m /\ i - 1 \in 0 .. m
      BY <2>2
    <3>2. e[i] = ends[i] /\ e[i - 1] = ends[i - 1] /\ ends[i - 1] \in Nat /\ ends[i] \in Nat
      BY <1>1, <1>4, <3>1
    <3>3. ends[i] <= Len(f)
      <4>1. i \in 0 .. m /\ m \in 0 .. m /\ i <= m
        BY <3>1
      <4>2. ends[i] <= ends[m]
        BY <4>1, PlacesOf, EndsClimb
      <4> QED
        BY <1>1, <4>2
    <3>4. Len(parts[i]) \in Nat /\ ends[i] = ends[i - 1] + Len(parts[i])
      BY <1>1, <3>1, PlacesOf
    <3>5. ASSUME NEW k \in 1 .. Len(parts[i])
          PROVE  g[e[i - 1] + k] = parts[i][k]
      <4>1. ends[i - 1] + k \in 1 .. Len(f)
        <5>1. Len(f) \in Nat
          BY <1>1, <1>3
        <5>2. k \in Nat /\ 1 <= k /\ k <= Len(parts[i])
          BY <3>4
        <5> QED
          BY <3>2, <3>3, <3>4, <5>1, <5>2
      <4> QED
        BY <1>1, <1>3, <3>1, <3>2, <4>1
    <3> QED
      BY <3>2, <3>4, <3>5
  <2> QED
    BY <2>1, <2>2
<1>7. e[0] = 0 /\ Len(g) = e[m + 1]
  <2>1. 0 \in 0 .. m
    OBVIOUS
  <2> QED
    BY <1>1, <1>3, <1>4, <2>1
<1>8. Flat(g, parts, m + 1, e)
  BY <1>5, <1>6, <1>7, Zenon DEF Flat
<1> QED
  BY <1>8 DEF g, p

(* The recursion of FlattenSeq, part by part.                               *)
LEMMA FlattenIs ==
  ASSUME NEW S, NEW n \in Nat \ {0}, NEW parts \in [1 .. n -> Seq(S)]
  PROVE  /\ FlattenSeq(parts) \in Seq(S)
         /\ \E ends : Flat(FlattenSeq(parts), parts, n, ends)
<1> DEFINE Rule(f, i) == IF i = 1 THEN parts[i] ELSE f[i - 1] \o parts[i]
           Right(f, d) == \A i \in 1 .. n : i < d => f[i] = Rule(f, i)
           T == {d \in 1 .. (n + 1) : ~\E f : f = [i \in 1 .. n |-> f[i]] /\ Right(f, d)}
<1>1. ASSUME T # {} PROVE FALSE
  <2>1. PICK d \in T : \A e \in T : d <= e
    <3>1. T \in SUBSET Nat
      OBVIOUS
    <3> HIDE DEF T
    <3> QED
      BY <1>1, <3>1, LeastOf
  <2>2. d # 1
    <3> DEFINE g == [i \in 1 .. n |-> 0]
    <3>1. g = [i \in 1 .. n |-> g[i]] /\ Right(g, 1)
      OBVIOUS
    <3> QED
      BY <3>1
  <2>3. d - 1 \in 1 .. (n + 1) /\ d - 1 \notin T
    <3>1. d \in 1 .. (n + 1)
      BY <2>1
    <3> HIDE DEF T
    <3>2. d - 1 \in 1 .. (n + 1) /\ ~ (d <= d - 1)
      BY <2>2, <3>1
    <3> QED
      BY <2>1, <3>2
  <2>4. PICK f : f = [i \in 1 .. n |-> f[i]] /\ Right(f, d - 1)
    BY <2>3
  <2> DEFINE g == [i \in 1 .. n |-> Rule(f, i)]
  <2>5. g = [i \in 1 .. n |-> g[i]]
    OBVIOUS
  <2>6. ASSUME NEW i \in 1 .. n, i < d PROVE g[i] = Rule(g, i)
    <3>1. CASE i = 1
      BY <3>1
    <3>2. CASE i # 1
      <4>1. i - 1 \in 1 .. n /\ i - 1 < d - 1
        BY <2>6, <3>2
      <4>2. g[i - 1] = f[i - 1]
        BY <2>4, <4>1
      <4> QED
        BY <3>2, <4>2
    <3> QED
      BY <3>1, <3>2
  <2>7. Right(g, d)
    BY <2>6
  <2> HIDE DEF g, Right
  <2> QED
    BY <2>1, <2>5, <2>7
<1>2. n + 1 \in 1 .. (n + 1)
  OBVIOUS
<1>3. PICK f : f = [i \in 1 .. n |-> f[i]] /\ Right(f, n + 1)
  BY <1>1, <1>2
<1>4. f = [i \in 1 .. n |-> Rule(f, i)]
  <2>1. \A i \in 1 .. n : i < n + 1
    OBVIOUS
  <2> HIDE DEF Rule
  <2>2. \A i \in 1 .. n : f[i] = Rule(f, i)
    BY <1>3, <2>1
  <2>3. [i \in 1 .. n |-> f[i]] = [i \in 1 .. n |-> Rule(f, i)]
    BY <2>2, Zenon
  <2> QED
    BY <1>3, <2>3
<1> DEFINE Ruled(c) == c = [i \in 1 .. n |-> Rule(c, i)]
           F == CHOOSE c : Ruled(c)
<1>5. Ruled(F)
  <2>1. Ruled(f)
    BY <1>4
  <2> HIDE DEF Ruled
  <2> QED
    BY <2>1, Zenon
<1>6. Len(parts) = n
  OBVIOUS
<1>7. FlattenSeq(parts) = F[n]
  BY <1>6 DEF FlattenSeq
<1> HIDE DEF F
<1>8. \A i \in 1 .. n : F[i] = Rule(F, i)
  <2> HIDE DEF Rule
  <2> QED
    BY <1>5
<1> DEFINE Done(m) == F[m] \in Seq(S) /\ \E ends : Flat(F[m], parts, m, ends)
           U == {m \in 1 .. n : ~Done(m)}
<1>9. ASSUME U # {} PROVE FALSE
  <2>1. PICK m \in U : \A l \in U : m <= l
    <3>1. U \in SUBSET Nat
      OBVIOUS
    <3> HIDE DEF U
    <3> QED
      BY <1>9, <3>1, LeastOf
  <2>2. CASE m = 1
    <3>1. F[1] = parts[1] /\ parts[1] \in Seq(S) /\ Len(parts[1]) \in Nat
      BY <1>8
    <3> DEFINE e == [i \in 0 .. 1 |-> IF i = 0 THEN 0 ELSE Len(parts[1])]
    <3>2. e \in [0 .. 1 -> Nat] /\ e[0] = 0 /\ e[1] = Len(parts[1])
      BY <3>1
    <3> HIDE DEF e
    <3>3. Flat(F[1], parts, 1, e)
      BY <3>1, <3>2 DEF Flat
    <3> QED
      BY <2>2, <3>1, <3>3
  <2>3. CASE m # 1
    <3>1. m - 1 \in 1 .. n /\ m - 1 \notin U /\ m - 1 \in Nat /\ (m - 1) + 1 = m
      <4>1. m \in 1 .. n
        BY <2>1
      <4> HIDE DEF U
      <4>2. m - 1 \in 1 .. n /\ ~ (m <= m - 1) /\ m - 1 \in Nat /\ (m - 1) + 1 = m
        BY <2>3, <4>1
      <4> QED
        BY <2>1, <4>2
    <3>2. Done(m - 1)
      BY <3>1
    <3>3. F[m] = F[m - 1] \o parts[m]
      BY <1>8, <2>3
    <3>4. \A i \in 1 .. (m - 1) : i \in 1 .. n /\ parts[i] \in Seq(S)
      OBVIOUS
    <3>5. parts[m] \in Seq(S)
      OBVIOUS
    <3>6. PICK ends : Flat(F[m - 1], parts, m - 1, ends)
      BY <3>2
    <3>7. \E e : Flat(F[m - 1] \o parts[(m - 1) + 1], parts, (m - 1) + 1, e)
      <4> HIDE DEF U
      <4> QED
        BY <3>1, <3>2, <3>4, <3>5, <3>6, FlatGrows
    <3>8. Done(m)
      BY <3>1, <3>2, <3>3, <3>5, <3>7, JoinIs
    <3> QED
      BY <3>8
  <2> QED
    BY <2>2, <2>3
<1>10. Done(n)
  <2>1. n \in 1 .. n
    OBVIOUS
  <2> HIDE DEF Done
  <2> QED
    BY <1>9, <2>1
<1> QED
  BY <1>7, <1>10

(* Each place of the whole lies in one part.                                *)
LEMMA FlatPlaces ==
  ASSUME NEW n \in Nat \ {0}, NEW parts, NEW f, NEW ends, Flat(f, parts, n, ends),
         \A i \in 1 .. n : Len(parts[i]) \in Nat
  PROVE  \A p \in 1 .. Len(f) : \E i \in 1 .. n : \E k \in 1 .. Len(parts[i]) : p = ends[i - 1] + k
<1> SUFFICES ASSUME NEW p \in 1 .. Len(f)
             PROVE  \E i \in 1 .. n : \E k \in 1 .. Len(parts[i]) : p = ends[i - 1] + k
  OBVIOUS
<1> DEFINE T == {i \in 0 .. n : p <= ends[i]}
<1>1. ends \in [0 .. n -> Nat] /\ ends[0] = 0 /\ Len(f) = ends[n]
      /\ \A i \in 1 .. n : ends[i] = ends[i - 1] + Len(parts[i])
  BY DEF Flat
<1>2. n \in T
  BY <1>1
<1>3. PICK i \in T : \A l \in T : i <= l
  <2>1. T \in SUBSET Nat
    OBVIOUS
  <2> HIDE DEF T
  <2> QED
    BY <1>2, <2>1, LeastOf
<1>4. i # 0
  BY <1>1
<1>5. i \in 1 .. n /\ i - 1 \in 0 .. n /\ i - 1 \notin T /\ i \in 0 .. n
  BY <1>3, <1>4
<1>6. ends[i - 1] \in Nat /\ ends[i] \in Nat /\ ~ (p <= ends[i - 1]) /\ p <= ends[i] /\ Len(parts[i]) \in Nat
      /\ p \in Nat
  <2>1. ~ (p <= ends[i - 1]) /\ p <= ends[i]
    BY <1>5
  <2>2. Len(parts[i]) \in Nat
    BY <1>5
  <2> QED
    BY <1>1, <1>5, <2>1, <2>2
<1> DEFINE k == p - ends[i - 1]
<1>7. k \in 1 .. Len(parts[i]) /\ p = ends[i - 1] + k
  BY <1>1, <1>5, <1>6
<1> QED
  BY <1>5, <1>7, Zenon

-----------------------------------------------------------------------------
(* Rounds: an ask and the replies right after it.                           *)
IdsOf(m) == {m.calls[k].id : k \in 1 .. Len(m.calls)}
IdsDiffer(m) == \A a, b \in 1 .. Len(m.calls) : m.calls[a].id = m.calls[b].id => a = b

(* Each reply answers one call of the ask before it, no call is answered    *)
(* twice, and only asks make calls.                                         *)
Tidy(h) ==
  /\ \A i \in 1 .. Len(h) :
       IF IsAsk(h[i])
         THEN /\ IdsDiffer(h[i])
              /\ \A j \in RepliesAfter(h, i) : h[j].of \in IdsOf(h[i])
              /\ \A j, k \in RepliesAfter(h, i) : h[j].of = h[k].of => j = k
         ELSE h[i].calls = <<>>
  /\ \A j \in 1 .. Len(h) : h[j].who = "reply" =>
       \E i \in 1 .. j - 1 : IsAsk(h[i]) /\ j \in RepliesAfter(h, i)

AllAnswered(h) ==
  \A i \in 1 .. Len(h) : IsAsk(h[i]) =>
    \A id \in IdsOf(h[i]) : \E j \in RepliesAfter(h, i) : h[j].of = id

LEMMA UpToSize ==
  ASSUME NEW n \in Nat
  PROVE  IsFiniteSet(1 .. n) /\ Cardinality(1 .. n) = n
  BY FS_Interval

LEMMA WellFormedIs ==
  ASSUME NEW h \in Seq(Message), Tidy(h), AllAnswered(h)
  PROVE  WellFormed(h)
<1>1. Len(h) \in Nat /\ DOMAIN h = 1 .. Len(h) /\ \A i \in 1 .. Len(h) : h[i] \in Message
  OBVIOUS
<1>2. ASSUME NEW i \in 1 .. Len(h), IsAsk(h[i])
      PROVE  /\ Answered(h, i) = {c.id : c \in Range(h[i].calls)}
             /\ Cardinality(RepliesAfter(h, i)) = Len(h[i].calls)
  <2> DEFINE m == h[i]
             n == Len(m.calls)
             R == RepliesAfter(h, i)
  <2>1. /\ IdsDiffer(m) /\ \A j \in R : h[j].of \in IdsOf(m)
        /\ \A j, k \in R : h[j].of = h[k].of => j = k
        /\ \A id \in IdsOf(m) : \E j \in R : h[j].of = id
    BY <1>2 DEF Tidy, AllAnswered
  <2>2. n \in Nat /\ DOMAIN m.calls = 1 .. n
    BY <1>1 DEF Message
  <2>3. {c.id : c \in Range(m.calls)} = IdsOf(m)
    BY <2>2 DEF Range, IdsOf
  <2>4. {h[j].of : j \in R} = IdsOf(m)
    <3> HIDE DEF R, m
    <3> QED
      BY <2>1
  <2> DEFINE B == [k \in 1 .. n |-> CHOOSE j \in R : h[j].of = m.calls[k].id]
  <2>5. ASSUME NEW k \in 1 .. n
        PROVE  B[k] \in R /\ h[B[k]].of = m.calls[k].id
    <3>1. m.calls[k].id \in IdsOf(m)
      BY DEF IdsOf
    <3> HIDE DEF R, m
    <3>2. \E j \in R : h[j].of = m.calls[k].id
      BY <2>1, <3>1
    <3> QED
      BY <3>2, Zenon
  <2> HIDE DEF R, m
  <2>6. B \in [1 .. n -> R]
    <3> DEFINE b(k) == CHOOSE j \in R : h[j].of = m.calls[k].id
    <3>1. \A k \in 1 .. n : b(k) \in R
      BY <2>5
    <3> HIDE DEF b
    <3>2. [k \in 1 .. n |-> b(k)] \in [1 .. n -> R]
      BY <3>1
    <3> QED
      BY <3>2 DEF b
  <2> HIDE DEF B
  <2>7. ASSUME NEW k \in 1 .. n, NEW l \in 1 .. n, B[k] = B[l]
        PROVE  k = l
    <3>1. m.calls[k].id = m.calls[l].id
      BY <2>5, <2>7, Zenon
    <3> QED
      BY <2>1, <3>1, Zenon DEF IdsDiffer
  <2>8. \A j \in R : \E k \in 1 .. n : B[k] = j
    <3> SUFFICES ASSUME NEW j \in R PROVE \E k \in 1 .. n : B[k] = j
      OBVIOUS
    <3>1. PICK k \in 1 .. n : h[j].of = m.calls[k].id
      BY <2>1 DEF IdsOf
    <3>2. B[k] \in R /\ h[B[k]].of = h[j].of
      BY <2>5, <3>1, Zenon
    <3> QED
      BY <2>1, <3>2, Zenon
  <2>9. B \in Injection(1 .. n, R) /\ B \in Surjection(1 .. n, R)
    BY <2>6, <2>7, <2>8, Zenon DEF Injection, Surjection, IsInjective
  <2>10. ExistsBijection(1 .. n, R)
    BY <2>9 DEF ExistsBijection, Bijection
  <2>11. IsFiniteSet(1 .. n) /\ Cardinality(1 .. n) = n
    BY <2>2, UpToSize
  <2>12. Cardinality(R) = n
    BY <2>10, <2>11, FS_Bijection, Zenon
  <2> QED
    BY <2>3, <2>4, <2>12 DEF Answered, R, m
<1>3. \A j \in DOMAIN h : h[j].who = "reply" => \E i \in 1 .. j - 1 : IsAsk(h[i]) /\ j \in RepliesAfter(h, i)
  BY <1>1 DEF Tidy
<1> QED
  BY <1>1, <1>2, <1>3, Zenon DEF WellFormed

(* What follows place d of h is s.                                          *)
EndsIn(h, d, s) == d \in Nat /\ Len(h) = d + Len(s) /\ \A k \in 1 .. Len(s) : h[d + k] = s[k]

LEMMA ShiftReplies ==
  ASSUME NEW h \in Seq(Message), NEW s \in Seq(Message), NEW d, EndsIn(h, d, s),
         NEW a \in 1 .. Len(s), NEW j \in 1 .. Len(s)
  PROVE  j \in RepliesAfter(s, a) <=> d + j \in RepliesAfter(h, d + a)
<1>1. d \in Nat /\ Len(s) \in Nat /\ Len(h) = d + Len(s) /\ \A k \in 1 .. Len(s) : h[d + k] = s[k]
  BY DEF EndsIn
<1>2. ASSUME j \in RepliesAfter(s, a) PROVE d + j \in RepliesAfter(h, d + a)
  <2>1. j \in a + 1 .. Len(s) /\ \A k \in a + 1 .. j : s[k].who = "reply"
    BY <1>2 DEF RepliesAfter
  <2>2. ASSUME NEW k \in d + a + 1 .. d + j PROVE h[k].who = "reply"
    <3>1. k - d \in a + 1 .. j /\ k - d \in 1 .. Len(s) /\ d + (k - d) = k
      BY <1>1, <2>1
    <3>2. h[k] = s[k - d]
      BY <1>1, <3>1
    <3> QED
      BY <2>1, <3>1, <3>2
  <2>3. d + j \in d + a + 1 .. Len(h)
    BY <1>1, <2>1
  <2> QED
    BY <2>2, <2>3 DEF RepliesAfter
<1>3. ASSUME d + j \in RepliesAfter(h, d + a) PROVE j \in RepliesAfter(s, a)
  <2>1. d + j \in d + a + 1 .. Len(h) /\ \A k \in d + a + 1 .. d + j : h[k].who = "reply"
    BY <1>3 DEF RepliesAfter
  <2>2. ASSUME NEW k \in a + 1 .. j PROVE s[k].who = "reply"
    <3>1. d + k \in d + a + 1 .. d + j /\ k \in 1 .. Len(s)
      BY <1>1
    <3>2. h[d + k] = s[k]
      BY <1>1, <3>1
    <3> QED
      BY <2>1, <3>1, <3>2
  <2>3. j \in a + 1 .. Len(s)
    BY <1>1, <2>1
  <2> QED
    BY <2>2, <2>3 DEF RepliesAfter
<1> QED
  BY <1>2, <1>3

LEMMA RepliesLie ==
  ASSUME NEW h \in Seq(Message), NEW i \in Nat, NEW j \in RepliesAfter(h, i)
  PROVE  j \in 1 .. Len(h) /\ j > i /\ j \in Nat /\ h[j].who = "reply"
<1>1. j \in i + 1 .. Len(h) /\ \A k \in i + 1 .. j : h[k].who = "reply"
  BY DEF RepliesAfter
<1> QED
  BY <1>1

(* The rest of a tidy sequence from a message that is no reply.             *)
LEMMA TidyRest ==
  ASSUME NEW h \in Seq(Message), NEW s \in Seq(Message), NEW d, EndsIn(h, d, s),
         Tidy(h), s # <<>> => s[1].who # "reply"
  PROVE  Tidy(s) /\ (AllAnswered(h) => AllAnswered(s))
<1>1. d \in Nat /\ Len(s) \in Nat /\ Len(h) = d + Len(s) /\ \A k \in 1 .. Len(s) : h[d + k] = s[k]
  BY DEF EndsIn
<1>2. ASSUME NEW i \in 1 .. Len(s)
      PROVE  d + i \in 1 .. Len(h) /\ h[d + i] = s[i] /\ d + i \in Nat /\ i \in Nat
  BY <1>1
<1>3. ASSUME NEW i \in 1 .. Len(s), NEW j \in RepliesAfter(s, i)
      PROVE  j \in 1 .. Len(s) /\ d + j \in RepliesAfter(h, d + i) /\ h[d + j] = s[j]
  <2>1. j \in 1 .. Len(s)
    BY <1>2, RepliesLie
  <2> QED
    BY <1>2, <2>1, ShiftReplies
<1>4. ASSUME NEW i \in 1 .. Len(s), NEW j \in RepliesAfter(h, d + i)
      PROVE  j - d \in RepliesAfter(s, i) /\ s[j - d] = h[j]
  <2>1. j \in 1 .. Len(h) /\ j > d + i
    BY <1>2, RepliesLie
  <2>2. j - d \in 1 .. Len(s) /\ d + (j - d) = j
    BY <1>1, <2>1
  <2>3. j - d \in RepliesAfter(s, i) <=> d + (j - d) \in RepliesAfter(h, d + i)
    BY <2>2, ShiftReplies
  <2> QED
    BY <1>2, <2>2, <2>3
<1>5. ASSUME NEW i \in 1 .. Len(s)
      PROVE  IF IsAsk(s[i])
               THEN /\ IdsDiffer(s[i])
                    /\ \A j \in RepliesAfter(s, i) : s[j].of \in IdsOf(s[i])
                    /\ \A j, k \in RepliesAfter(s, i) : s[j].of = s[k].of => j = k
               ELSE s[i].calls = <<>>
  <2>1. CASE IsAsk(s[i])
    <3>1. /\ IdsDiffer(h[d + i])
          /\ \A j \in RepliesAfter(h, d + i) : h[j].of \in IdsOf(h[d + i])
          /\ \A j, k \in RepliesAfter(h, d + i) : h[j].of = h[k].of => j = k
      BY <1>2, <2>1, Zenon DEF Tidy
    <3>2. IdsDiffer(s[i]) /\ \A j \in RepliesAfter(s, i) : s[j].of \in IdsOf(s[i])
      BY <1>2, <1>3, <3>1, Zenon
    <3>3. ASSUME NEW j \in RepliesAfter(s, i), NEW k \in RepliesAfter(s, i), s[j].of = s[k].of
          PROVE  j = k
      <4>1. d + j = d + k
        <5>1. /\ d + j \in RepliesAfter(h, d + i) /\ h[d + j] = s[j]
              /\ d + k \in RepliesAfter(h, d + i) /\ h[d + k] = s[k]
          BY <1>3
        <5> QED
          BY <3>1, <3>3, <5>1
      <4>2. j \in Nat /\ k \in Nat
        BY <1>2, <1>3
      <4> QED
        BY <1>1, <4>1, <4>2
    <3> QED
      BY <2>1, <3>2, <3>3
  <2>2. CASE ~IsAsk(s[i])
    BY <1>2, <2>2, Zenon DEF Tidy
  <2> QED
    BY <2>1, <2>2
<1>6. ASSUME NEW j \in 1 .. Len(s), s[j].who = "reply"
      PROVE  \E i \in 1 .. j - 1 : IsAsk(s[i]) /\ j \in RepliesAfter(s, i)
  <2>1. PICK a \in 1 .. (d + j) - 1 : IsAsk(h[a]) /\ d + j \in RepliesAfter(h, a)
    BY <1>2, <1>6 DEF Tidy
  <2>2. \A k \in a + 1 .. d + j : h[k].who = "reply"
    BY <2>1 DEF RepliesAfter
  <2>3. a > d
    <3>1. SUFFICES ASSUME ~ (a > d) PROVE FALSE
      OBVIOUS
    <3>2. d + 1 \in a + 1 .. d + j /\ 1 \in 1 .. Len(s)
      BY <1>1, <2>1, <3>1
    <3>3. s[1] = h[d + 1] /\ h[d + 1].who = "reply"
      BY <1>1, <2>2, <3>2
    <3>4. s # <<>>
      BY <3>2
    <3> QED
      BY <3>3, <3>4
  <2>4. a - d \in 1 .. j - 1 /\ a - d \in 1 .. Len(s) /\ d + (a - d) = a
    BY <1>1, <2>1, <2>3
  <2>5. s[a - d] = h[a] /\ (j \in RepliesAfter(s, a - d) <=> d + j \in RepliesAfter(h, d + (a - d)))
    BY <1>1, <2>4, ShiftReplies
  <2> QED
    BY <2>1, <2>4, <2>5
<1>7. ASSUME AllAnswered(h), NEW i \in 1 .. Len(s), IsAsk(s[i]), NEW id \in IdsOf(s[i])
      PROVE  \E j \in RepliesAfter(s, i) : s[j].of = id
  <2>1. PICK j \in RepliesAfter(h, d + i) : h[j].of = id
    BY <1>2, <1>7, Zenon DEF AllAnswered
  <2> QED
    BY <1>4, <2>1
<1> QED
  BY <1>5, <1>6, <1>7, Zenon DEF Tidy, AllAnswered

(* Two tidy sequences, one after the other.                                 *)
LEMMA TidyJoin ==
  ASSUME NEW x \in Seq(Message), NEW y \in Seq(Message), Tidy(x), Tidy(y),
         y # <<>> => y[1].who # "reply"
  PROVE  /\ x \o y \in Seq(Message) /\ Tidy(x \o y)
         /\ AllAnswered(x) /\ AllAnswered(y) => AllAnswered(x \o y)
<1> DEFINE h == x \o y
           d == Len(x)
<1>1. /\ h \in Seq(Message) /\ Len(h) = d + Len(y) /\ d \in Nat /\ Len(y) \in Nat
      /\ \A i \in 1 .. d : h[i] = x[i]
      /\ \A i \in 1 .. Len(y) : h[d + i] = y[i]
  BY JoinIs
<1>2. EndsIn(h, d, y)
  BY <1>1 DEF EndsIn
<1> HIDE DEF h, d
<1>3. ASSUME NEW i \in 1 .. d
      PROVE  RepliesAfter(h, i) = RepliesAfter(x, i)
  <2>1. ASSUME NEW j \in RepliesAfter(h, i) PROVE j \in RepliesAfter(x, i)
    <3>1. j \in i + 1 .. Len(h) /\ \A k \in i + 1 .. j : h[k].who = "reply"
      BY <2>1 DEF RepliesAfter
    <3>2. j <= d
      <4>1. SUFFICES ASSUME ~ (j <= d) PROVE FALSE
        OBVIOUS
      <4>2. d + 1 \in i + 1 .. j /\ 1 \in 1 .. Len(y)
        BY <1>1, <3>1, <4>1
      <4>3. y[1].who = "reply" /\ y # <<>>
        BY <1>1, <3>1, <4>2
      <4> QED
        BY <4>3
    <3>3. j \in i + 1 .. Len(x)
      BY <1>1, <3>1, <3>2 DEF d
    <3>4. \A k \in i + 1 .. j : k \in 1 .. d
      BY <1>1, <3>1, <3>2
    <3> QED
      BY <1>1, <3>1, <3>3, <3>4 DEF RepliesAfter
  <2>2. ASSUME NEW j \in RepliesAfter(x, i) PROVE j \in RepliesAfter(h, i)
    <3>1. j \in i + 1 .. d /\ \A k \in i + 1 .. j : x[k].who = "reply"
      BY <2>2 DEF RepliesAfter, d
    <3>2. \A k \in i + 1 .. j : k \in 1 .. d
      BY <1>1, <3>1
    <3>3. j \in i + 1 .. Len(h)
      BY <1>1, <3>1
    <3> QED
      BY <1>1, <3>1, <3>2, <3>3 DEF RepliesAfter
  <2> QED
    BY <2>1, <2>2
<1>4. ASSUME NEW i \in 1 .. d
      PROVE  h[i] = x[i] /\ i \in 1 .. Len(x) /\ i \in Nat
             /\ \A j \in RepliesAfter(x, i) : h[j] = x[j]
  <2>1. i \in 1 .. Len(x) /\ i \in Nat
    BY <1>1 DEF d
  <2>2. \A j \in RepliesAfter(x, i) : j \in 1 .. d
    BY <2>1, RepliesLie DEF d
  <2> QED
    BY <1>1, <2>1, <2>2
<1>5. ASSUME NEW i \in 1 .. Len(y), NEW j \in RepliesAfter(h, d + i)
      PROVE  j - d \in RepliesAfter(y, i) /\ h[j] = y[j - d] /\ j - d \in Nat /\ j \in Nat
  <2>1. j \in 1 .. Len(h) /\ j > d + i
    <3>1. d + i \in Nat
      BY <1>1
    <3> QED
      BY <1>1, <3>1, RepliesLie
  <2>2. j - d \in 1 .. Len(y) /\ d + (j - d) = j
    BY <1>1, <2>1
  <2>3. j - d \in RepliesAfter(y, i) <=> d + (j - d) \in RepliesAfter(h, d + i)
    BY <1>1, <1>2, <2>2, ShiftReplies
  <2> QED
    BY <1>1, <2>2, <2>3
<1>6. ASSUME NEW i \in 1 .. Len(h)
      PROVE  (i \in 1 .. d) \/ \E a \in 1 .. Len(y) : i = d + a /\ h[i] = y[a]
  <2>1. CASE i \in 1 .. d
    BY <2>1
  <2>2. CASE i \notin 1 .. d
    <3>1. i - d \in 1 .. Len(y) /\ i = d + (i - d)
      BY <1>1, <2>2
    <3> QED
      BY <1>1, <3>1
  <2> QED
    BY <2>1, <2>2
<1>7. ASSUME NEW i \in 1 .. Len(h)
      PROVE  IF IsAsk(h[i])
               THEN /\ IdsDiffer(h[i])
                    /\ \A j \in RepliesAfter(h, i) : h[j].of \in IdsOf(h[i])
                    /\ \A j, k \in RepliesAfter(h, i) : h[j].of = h[k].of => j = k
               ELSE h[i].calls = <<>>
  <2>1. CASE i \in 1 .. d
    <3>1. IF IsAsk(x[i])
            THEN /\ IdsDiffer(x[i])
                 /\ \A j \in RepliesAfter(x, i) : x[j].of \in IdsOf(x[i])
                 /\ \A j, k \in RepliesAfter(x, i) : x[j].of = x[k].of => j = k
            ELSE x[i].calls = <<>>
      BY <1>4, <2>1, Zenon DEF Tidy
    <3>2. /\ h[i] = x[i] /\ RepliesAfter(h, i) = RepliesAfter(x, i)
          /\ \A j \in RepliesAfter(x, i) : h[j] = x[j]
      BY <1>3, <1>4, <2>1
    <3> QED
      BY <3>1, <3>2, ZenonT(30)
  <2>2. ASSUME NEW a \in 1 .. Len(y), i = d + a, h[i] = y[a], IsAsk(y[a])
        PROVE  /\ \A j \in RepliesAfter(h, i) : h[j].of \in IdsOf(y[a])
               /\ \A j, k \in RepliesAfter(h, i) : h[j].of = h[k].of => j = k
    <3>1. /\ \A j \in RepliesAfter(y, a) : y[j].of \in IdsOf(y[a])
          /\ \A j, k \in RepliesAfter(y, a) : y[j].of = y[k].of => j = k
      BY <2>2, Zenon DEF Tidy
    <3>2. \A j \in RepliesAfter(h, i) : j - d \in RepliesAfter(y, a) /\ h[j] = y[j - d] /\ j - d \in Nat /\ j \in Nat
      BY <1>5, <2>2
    <3>3. ASSUME NEW j \in RepliesAfter(h, i), NEW k \in RepliesAfter(h, i), h[j].of = h[k].of
          PROVE  j = k
      <4>1. j - d \in RepliesAfter(y, a) /\ k - d \in RepliesAfter(y, a) /\ y[j - d].of = y[k - d].of
        BY <3>2, <3>3, Zenon
      <4>2. j - d = k - d
        BY <3>1, <4>1, Zenon
      <4> QED
        BY <1>1, <3>2, <4>2
    <3> QED
      BY <3>1, <3>2, <3>3, Zenon
  <2>3. CASE i \notin 1 .. d
    <3>1. PICK a \in 1 .. Len(y) : i = d + a /\ h[i] = y[a]
      BY <1>6, <2>3
    <3>2. IF IsAsk(y[a]) THEN IdsDiffer(y[a]) ELSE y[a].calls = <<>>
      BY DEF Tidy
    <3> QED
      BY <2>2, <3>1, <3>2, Zenon
  <2> QED
    BY <2>1, <2>3
<1>8. ASSUME NEW j \in 1 .. Len(h), h[j].who = "reply"
      PROVE  \E i \in 1 .. j - 1 : IsAsk(h[i]) /\ j \in RepliesAfter(h, i)
  <2>1. CASE j \in 1 .. d
    <3>1. PICK i \in 1 .. j - 1 : IsAsk(x[i]) /\ j \in RepliesAfter(x, i)
      BY <1>4, <1>8, <2>1, Zenon DEF Tidy
    <3>2. i \in 1 .. d
      BY <1>1, <2>1
    <3> QED
      BY <1>3, <1>4, <3>1, <3>2
  <2>2. CASE j \notin 1 .. d
    <3>1. PICK a \in 1 .. Len(y) : j = d + a /\ h[j] = y[a]
      BY <1>6, <2>2
    <3>2. PICK b \in 1 .. a - 1 : IsAsk(y[b]) /\ a \in RepliesAfter(y, b)
      BY <1>8, <3>1, Zenon DEF Tidy
    <3>3. b \in 1 .. Len(y) /\ d + b \in 1 .. j - 1
      BY <1>1, <3>1
    <3>4. h[d + b] = y[b] /\ d + a \in RepliesAfter(h, d + b)
      BY <1>1, <1>2, <3>2, <3>3, ShiftReplies
    <3> QED
      BY <3>1, <3>2, <3>3, <3>4
  <2> QED
    BY <2>1, <2>2
<1>9. Tidy(h)
  BY <1>7, <1>8, Zenon DEF Tidy
<1>10. ASSUME AllAnswered(x), AllAnswered(y), NEW i \in 1 .. Len(h), IsAsk(h[i]), NEW id \in IdsOf(h[i])
       PROVE  \E j \in RepliesAfter(h, i) : h[j].of = id
  <2>1. CASE i \in 1 .. d
    <3>1. IsAsk(x[i]) /\ id \in IdsOf(x[i]) /\ i \in 1 .. Len(x)
      BY <1>4, <1>10, <2>1
    <3>2. PICK j \in RepliesAfter(x, i) : x[j].of = id
      BY <1>10, <3>1, Zenon DEF AllAnswered
    <3> QED
      BY <1>3, <1>4, <2>1, <3>2
  <2>2. CASE i \notin 1 .. d
    <3>1. PICK a \in 1 .. Len(y) : i = d + a /\ h[i] = y[a]
      BY <1>6, <2>2
    <3>2. PICK b \in RepliesAfter(y, a) : y[b].of = id
      BY <1>10, <3>1, Zenon DEF AllAnswered
    <3>3. a \in Nat
      BY <1>1
    <3>4. b \in 1 .. Len(y)
      BY <3>2, <3>3, RepliesLie
    <3>5. h[d + b] = y[b] /\ d + b \in RepliesAfter(h, d + a)
      BY <1>1, <1>2, <3>2, <3>4, ShiftReplies
    <3> QED
      BY <3>1, <3>2, <3>5
  <2> QED
    BY <2>1, <2>2
<1> QED
  BY <1>1, <1>9, <1>10, Zenon DEF AllAnswered, h

-----------------------------------------------------------------------------
(* Closing.  What is put after a message: one reply for each of its calls   *)
(* that has none.                                                           *)
Missing(h, i, r, n) ==
  /\ r \in Seq(Message)
  /\ \A p \in 1 .. Len(r) : \E k \in 1 .. n :
       h[i].calls[k].id \notin Answered(h, i) /\ r[p] = ReplyTo(h[i].turn, h[i].calls[k])
  /\ \A k \in 1 .. n : h[i].calls[k].id \notin Answered(h, i) =>
       \E p \in 1 .. Len(r) : r[p] = ReplyTo(h[i].turn, h[i].calls[k])
  /\ \A p, q \in 1 .. Len(r) : r[p].of = r[q].of => p = q

LEMMA ReplyTyped ==
  ASSUME NEW t \in Turns, NEW c \in [id : Nat, tool : ToolNames]
  PROVE  /\ ReplyTo(t, c) \in Message /\ ReplyTo(t, c).of = c.id /\ ReplyTo(t, c).who = "reply"
         /\ ReplyTo(t, c).turn = t /\ ReplyTo(t, c).calls = <<>> /\ ~IsAsk(ReplyTo(t, c))
<1>1. <<>> \in Seq([id : Nat, tool : ToolNames])
  OBVIOUS
<1> QED
  BY <1>1 DEF ReplyTo, Message, IsAsk

LEMMA MissingGrows ==
  ASSUME NEW h \in Seq(Message), NEW i \in 1 .. Len(h), IdsDiffer(h[i]),
         NEW n \in 1 .. Len(h[i].calls), NEW r, Missing(h, i, r, n - 1),
         NEW s, s = IF h[i].calls[n].id \in Answered(h, i) THEN r
                    ELSE Append(r, ReplyTo(h[i].turn, h[i].calls[n]))
  PROVE  Missing(h, i, s, n)
<1> DEFINE cs == h[i].calls
           A == Answered(h, i)
           t == h[i].turn
           e == ReplyTo(t, cs[n])
<1>1. /\ Len(cs) \in Nat /\ t \in Turns /\ \A k \in 1 .. Len(cs) : cs[k] \in [id : Nat, tool : ToolNames]
      /\ n \in 1 .. Len(cs) /\ n \in Nat /\ n - 1 \in Nat
  <2>1. h[i] \in Message
    OBVIOUS
  <2>2. cs \in Seq([id : Nat, tool : ToolNames]) /\ t \in Turns
    BY <2>1 DEF Message
  <2> HIDE DEF cs, t
  <2>3. Len(cs) \in Nat /\ \A k \in 1 .. Len(cs) : cs[k] \in [id : Nat, tool : ToolNames]
    BY <2>2, PlacesOf
  <2>4. n \in 1 .. Len(cs)
    BY DEF cs
  <2>5. n \in Nat /\ n - 1 \in Nat
    BY <2>3, <2>4
  <2> QED
    BY <2>2, <2>3, <2>4, <2>5
<1>2. /\ r \in Seq(Message)
      /\ \A p \in 1 .. Len(r) : \E k \in 1 .. n - 1 : cs[k].id \notin A /\ r[p] = ReplyTo(t, cs[k])
      /\ \A k \in 1 .. n - 1 : cs[k].id \notin A => \E p \in 1 .. Len(r) : r[p] = ReplyTo(t, cs[k])
      /\ \A p, q \in 1 .. Len(r) : r[p].of = r[q].of => p = q
  BY DEF Missing
<1>3. \A k, l \in 1 .. Len(cs) : cs[k].id = cs[l].id => k = l
  BY DEF IdsDiffer
<1>4. s = IF cs[n].id \in A THEN r ELSE Append(r, e)
  OBVIOUS
<1> HIDE DEF cs, A, t
<1>5. e \in Message /\ \A k \in 1 .. n : ReplyTo(t, cs[k]).of = cs[k].id
  BY <1>1, ReplyTyped
<1>6. \A k \in 1 .. n : k = n \/ k \in 1 .. n - 1
  BY <1>1
<1>7. \A k \in 1 .. n - 1 : k \in 1 .. n /\ k \in 1 .. Len(cs) /\ k # n
  BY <1>1
<1>8. CASE cs[n].id \in A
  <2>1. s = r
    BY <1>4, <1>8
  <2>2. ASSUME NEW p \in 1 .. Len(s)
        PROVE  \E k \in 1 .. n : cs[k].id \notin A /\ s[p] = ReplyTo(t, cs[k])
    <3>1. PICK k \in 1 .. n - 1 : cs[k].id \notin A /\ s[p] = ReplyTo(t, cs[k])
      BY <1>2, <2>1
    <3>2. k \in 1 .. n
      BY <1>7
    <3> QED
      BY <3>1, <3>2
  <2>3. \A k \in 1 .. n : cs[k].id \notin A => \E p \in 1 .. Len(s) : s[p] = ReplyTo(t, cs[k])
    BY <1>2, <1>6, <1>8, <2>1, Zenon
  <2> QED
    BY <1>2, <2>1, <2>2, <2>3, Zenon DEF Missing, cs, A, t
<1>9. CASE cs[n].id \notin A
  <2>1. s = Append(r, e)
    BY <1>4, <1>9
  <2> HIDE DEF e
  <2>2. /\ s \in Seq(Message) /\ Len(s) = Len(r) + 1 /\ Len(r) \in Nat /\ s[Len(r) + 1] = e
        /\ \A p \in 1 .. Len(r) : s[p] = r[p]
    BY <1>2, <1>5, <2>1, AppendIs
  <2>3. \A p \in 1 .. Len(s) : p \in 1 .. Len(r) \/ p = Len(r) + 1
    BY <2>2
  <2>4. n \in 1 .. n /\ Len(r) + 1 \in 1 .. Len(s) /\ \A p \in 1 .. Len(r) : p \in 1 .. Len(s)
    BY <1>1, <2>2
  <2>5. ASSUME NEW p \in 1 .. Len(s)
        PROVE  \E k \in 1 .. n : cs[k].id \notin A /\ s[p] = ReplyTo(t, cs[k])
    <3>1. CASE p \in 1 .. Len(r)
      <4>1. PICK k \in 1 .. n - 1 : cs[k].id \notin A /\ r[p] = ReplyTo(t, cs[k])
        BY <1>2, <3>1
      <4>2. k \in 1 .. n /\ s[p] = r[p]
        BY <1>7, <2>2, <3>1
      <4> QED
        BY <4>1, <4>2
    <3>2. CASE p = Len(r) + 1
      BY <1>9, <2>2, <2>4, <3>2, Zenon DEF e
    <3> QED
      BY <2>3, <3>1, <3>2
  <2>6. ASSUME NEW k \in 1 .. n, cs[k].id \notin A
        PROVE  \E p \in 1 .. Len(s) : s[p] = ReplyTo(t, cs[k])
    <3>1. CASE k = n
      BY <2>2, <2>4, <3>1, Zenon DEF e
    <3>2. CASE k \in 1 .. n - 1
      BY <1>2, <2>2, <2>4, <2>6, <3>2, Zenon
    <3> QED
      BY <1>6, <3>1, <3>2
  <2>7. ASSUME NEW p \in 1 .. Len(r)
        PROVE  s[p].of # s[Len(r) + 1].of
    <3>1. PICK k \in 1 .. n - 1 : r[p] = ReplyTo(t, cs[k])
      BY <1>2
    <3>2. s[p].of = cs[k].id /\ s[Len(r) + 1].of = cs[n].id
      BY <1>5, <1>7, <2>2, <2>4, <3>1 DEF e
    <3> QED
      BY <1>1, <1>3, <1>7, <3>2
  <2>8. ASSUME NEW p \in 1 .. Len(s), NEW q \in 1 .. Len(s), s[p].of = s[q].of
        PROVE  p = q
    <3>1. CASE p \in 1 .. Len(r) /\ q \in 1 .. Len(r)
      BY <1>2, <2>2, <2>8, <3>1, Zenon
    <3>2. CASE ~ (p \in 1 .. Len(r) /\ q \in 1 .. Len(r))
      BY <2>3, <2>7, <2>8, <3>2, Zenon
    <3> QED
      BY <3>1, <3>2
  <2> QED
    BY <2>2, <2>5, <2>6, <2>8, Zenon DEF Missing, cs, A, t
<1> QED
  BY <1>8, <1>9

(* The recursion of Interrupted, call by call.                              *)
LEMMA InterruptedIs ==
  ASSUME NEW h \in Seq(Message), NEW i \in 1 .. Len(h), IdsDiffer(h[i])
  PROVE  Missing(h, i, Interrupted(h, i), Len(h[i].calls))
<1> DEFINE n == Len(h[i].calls)
           Rule(f, j) == IF j = 0 THEN <<>>
                         ELSE IF h[i].calls[j].id \in Answered(h, i) THEN f[j - 1]
                         ELSE Append(f[j - 1], ReplyTo(h[i].turn, h[i].calls[j]))
           Right(f, d) == \A j \in 0 .. n : j < d => f[j] = Rule(f, j)
           T == {d \in 0 .. (n + 1) : ~\E f : f = [j \in 0 .. n |-> f[j]] /\ Right(f, d)}
<1>0. n \in Nat
  BY DEF Message
<1>1. ASSUME T # {} PROVE FALSE
  <2>1. PICK d \in T : \A e \in T : d <= e
    <3>1. T \in SUBSET Nat
      BY <1>0
    <3> HIDE DEF T
    <3> QED
      BY <1>1, <3>1, LeastOf
  <2>2. d # 0
    <3> DEFINE g == [j \in 0 .. n |-> 0]
    <3>1. g = [j \in 0 .. n |-> g[j]] /\ Right(g, 0)
      BY <1>0
    <3> QED
      BY <3>1
  <2>3. d - 1 \in 0 .. (n + 1) /\ d - 1 \notin T /\ d \in 0 .. (n + 1)
    <3>1. d \in 0 .. (n + 1)
      BY <2>1
    <3> HIDE DEF T, n
    <3>2. d - 1 \in 0 .. (n + 1) /\ ~ (d <= d - 1)
      BY <1>0, <2>2, <3>1
    <3> QED
      BY <2>1, <3>1, <3>2
  <2>4. PICK f : f = [j \in 0 .. n |-> f[j]] /\ Right(f, d - 1)
    <3> HIDE DEF Right, n
    <3> QED
      BY <2>3
  <2> HIDE DEF n
  <2> DEFINE g == [j \in 0 .. n |-> Rule(f, j)]
  <2>5. g = [j \in 0 .. n |-> g[j]]
    <3> HIDE DEF Rule
    <3> QED
      OBVIOUS
  <2>6. ASSUME NEW j \in 0 .. n, j < d PROVE g[j] = Rule(g, j)
    <3>1. CASE j = 0
      BY <3>1
    <3>2. CASE j # 0
      <4>1. j - 1 \in 0 .. n /\ j - 1 < d - 1
        BY <1>0, <2>3, <2>6, <3>2
      <4>2. f[j - 1] = Rule(f, j - 1)
        <5> HIDE DEF Rule
        <5> QED
          BY <2>4, <4>1
      <4>3. g[j - 1] = f[j - 1]
        <5> HIDE DEF Rule
        <5> QED
          BY <4>1, <4>2
      <4>4. g[j] = Rule(f, j)
        <5> HIDE DEF Rule
        <5> QED
          OBVIOUS
      <4> HIDE DEF g
      <4> QED
        BY <3>2, <4>3, <4>4
    <3> QED
      BY <3>1, <3>2
  <2>7. Right(g, d)
    <3> HIDE DEF g, Rule
    <3> QED
      BY <2>6
  <2> HIDE DEF g, Right
  <2> QED
    BY <2>1, <2>5, <2>7
<1> HIDE DEF n
<1>2. n + 1 \in 0 .. (n + 1)
  BY <1>0
<1>3. PICK f : f = [j \in 0 .. n |-> f[j]] /\ Right(f, n + 1)
  <2> HIDE DEF Right
  <2> QED
    BY <1>1, <1>2
<1>4. f = [j \in 0 .. n |-> Rule(f, j)]
  <2>1. \A j \in 0 .. n : j < n + 1
    BY <1>0
  <2> HIDE DEF Rule
  <2>2. \A j \in 0 .. n : f[j] = Rule(f, j)
    BY <1>3, <2>1
  <2>3. [j \in 0 .. n |-> f[j]] = [j \in 0 .. n |-> Rule(f, j)]
    BY <2>2, Zenon
  <2> QED
    BY <1>3, <2>3
<1> DEFINE Ruled(c) == c = [j \in 0 .. n |-> Rule(c, j)]
           F == CHOOSE c : Ruled(c)
<1>5. Ruled(F)
  <2>1. Ruled(f)
    BY <1>4
  <2> HIDE DEF Ruled
  <2> QED
    BY <2>1, Zenon
<1>6. Interrupted(h, i) = F[n]
  BY DEF Interrupted, n
<1> HIDE DEF F
<1>7. \A j \in 0 .. n : F[j] = Rule(F, j)
  <2> HIDE DEF Rule
  <2> QED
    BY <1>5
<1> DEFINE U == {m \in 0 .. n : ~Missing(h, i, F[m], m)}
<1>8. ASSUME U # {} PROVE FALSE
  <2>1. PICK m \in U : \A l \in U : m <= l
    <3>1. U \in SUBSET Nat
      BY <1>0
    <3> HIDE DEF U
    <3> QED
      BY <1>8, <3>1, LeastOf
  <2>2. CASE m = 0
    <3>1. F[0] = <<>>
      BY <1>0, <1>7
    <3>2. Missing(h, i, <<>>, 0)
      BY DEF Missing
    <3> QED
      BY <2>1, <2>2, <3>1, <3>2
  <2>3. CASE m # 0
    <3>1. m \in 1 .. n /\ m - 1 \in 0 .. n /\ m - 1 \notin U
      <4>1. m \in 0 .. n
        BY <2>1
      <4> HIDE DEF U
      <4>2. m \in 1 .. n /\ m - 1 \in 0 .. n /\ ~ (m <= m - 1)
        BY <1>0, <2>3, <4>1
      <4> QED
        BY <2>1, <4>2
    <3>2. Missing(h, i, F[m - 1], m - 1)
      BY <3>1
    <3>3. F[m] = IF h[i].calls[m].id \in Answered(h, i) THEN F[m - 1]
                 ELSE Append(F[m - 1], ReplyTo(h[i].turn, h[i].calls[m]))
      BY <1>7, <2>3, <3>1
    <3>4. Missing(h, i, F[m], m)
      BY <3>1, <3>2, <3>3, MissingGrows DEF n
    <3> QED
      BY <2>1, <3>4
  <2> QED
    BY <2>2, <2>3
<1>9. n \in 0 .. n
  BY <1>0
<1> QED
  BY <1>6, <1>8, <1>9 DEF n

(* Where Close puts each message, and what it puts after it.                *)
Extra(h, i) == Len(Interrupted(h, i))
Spread(h, g, P) ==
  /\ g \in Seq(Message) /\ P \in [1 .. Len(h) -> Nat] /\ P[1] = 1
  /\ \A i \in 1 .. Len(h) :
       /\ Extra(h, i) \in Nat /\ P[i] \in 1 .. Len(g) /\ P[i] + Extra(h, i) <= Len(g)
       /\ g[P[i]] = h[i]
       /\ \A k \in 1 .. Extra(h, i) : g[P[i] + k] = Interrupted(h, i)[k]
  /\ \A i, j \in 1 .. Len(h) : i < j => P[i] + Extra(h, i) < P[j]
  /\ \A p \in 1 .. Len(g) : \E i \in 1 .. Len(h) : \E k \in 0 .. Extra(h, i) : p = P[i] + k

LEMMA NoCalls ==
  ASSUME NEW h \in Seq(Message), NEW i \in 1 .. Len(h), h[i].calls = <<>>
  PROVE  IdsDiffer(h[i])
<1>1. Len(h[i].calls) = 0
  OBVIOUS
<1> QED
  BY <1>1 DEF IdsDiffer

LEMMA InterruptedTyped ==
  ASSUME NEW h \in Seq(Message), Tidy(h), NEW i \in 1 .. Len(h)
  PROVE  /\ Missing(h, i, Interrupted(h, i), Len(h[i].calls))
         /\ Interrupted(h, i) \in Seq(Message) /\ Extra(h, i) \in Nat
         /\ ~IsAsk(h[i]) => Extra(h, i) = 0
<1>1. IdsDiffer(h[i])
  BY NoCalls DEF Tidy
<1>2. Missing(h, i, Interrupted(h, i), Len(h[i].calls))
  BY <1>1, InterruptedIs
<1>3. Interrupted(h, i) \in Seq(Message)
  BY <1>2 DEF Missing
<1>4. Extra(h, i) \in Nat
  BY <1>3 DEF Extra
<1>5. ASSUME ~IsAsk(h[i]) PROVE Extra(h, i) = 0
  <2>1. Len(h[i].calls) = 0
    BY <1>5 DEF Tidy
  <2>2. \A p \in 1 .. Extra(h, i) : \E k \in 1 .. 0 : TRUE
    BY <1>2, <2>1 DEF Missing, Extra
  <2> QED
    BY <1>4, <2>2
<1> QED
  BY <1>2, <1>3, <1>4, <1>5

LEMMA CloseSpreads ==
  ASSUME NEW h \in Seq(Message), h # <<>>, Tidy(h)
  PROVE  Close(h) \in Seq(Message) /\ \E P : Spread(h, Close(h), P)
<1> DEFINE n == Len(h)
           parts == [i \in DOMAIN h |-> <<h[i]>> \o Interrupted(h, i)]
           g == Close(h)
<1>1. n \in Nat \ {0} /\ DOMAIN h = 1 .. n /\ \A i \in 1 .. n : h[i] \in Message
  OBVIOUS
<1>2. ASSUME NEW i \in 1 .. n
      PROVE  /\ parts[i] \in Seq(Message) /\ Len(parts[i]) = 1 + Extra(h, i) /\ parts[i][1] = h[i]
             /\ \A k \in 1 .. Extra(h, i) : parts[i][1 + k] = Interrupted(h, i)[k]
             /\ Extra(h, i) \in Nat
  <2>1. Interrupted(h, i) \in Seq(Message) /\ Extra(h, i) \in Nat
    BY InterruptedTyped
  <2>2. parts[i] = <<h[i]>> \o Interrupted(h, i)
    BY <1>1
  <2>3. <<h[i]>> \in Seq(Message) /\ Len(<<h[i]>>) = 1 /\ <<h[i]>>[1] = h[i]
    BY <1>1
  <2> HIDE DEF parts
  <2> DEFINE a == <<h[i]>>
             r == Interrupted(h, i)
  <2>4. /\ a \o r \in Seq(Message) /\ Len(a \o r) = Len(a) + Len(r)
        /\ \A k \in 1 .. Len(a) : (a \o r)[k] = a[k]
        /\ \A k \in 1 .. Len(r) : (a \o r)[Len(a) + k] = r[k]
    <3> HIDE DEF a, r
    <3> QED
      BY <2>1, <2>3, JoinIs DEF a, r
  <2> QED
    BY <2>1, <2>2, <2>3, <2>4 DEF Extra
<1>3. parts \in [1 .. n -> Seq(Message)]
  <2> HIDE DEF n
  <2>1. parts = [i \in 1 .. n |-> parts[i]]
    BY <1>1
  <2> HIDE DEF parts
  <2> QED
    BY <1>2, <2>1
<1>4. g = FlattenSeq(parts)
  BY DEF Close
<1> HIDE DEF parts, g, n
<1>5. g \in Seq(Message) /\ \E e : Flat(g, parts, n, e)
  BY <1>1, <1>3, <1>4, FlattenIs
<1>6. PICK ends : Flat(g, parts, n, ends)
  BY <1>5
<1>7. /\ ends \in [0 .. n -> Nat] /\ ends[0] = 0 /\ Len(g) = ends[n]
      /\ \A i \in 1 .. n : ends[i] = ends[i - 1] + Len(parts[i])
      /\ \A i \in 1 .. n : \A k \in 1 .. Len(parts[i]) : g[ends[i - 1] + k] = parts[i][k]
  BY <1>6 DEF Flat
<1> DEFINE P == [i \in 1 .. n |-> ends[i - 1] + 1]
<1>8. ASSUME NEW i \in 1 .. n
      PROVE  /\ i \in 0 .. n /\ i - 1 \in 0 .. n
             /\ ends[i] \in Nat /\ ends[i - 1] \in Nat /\ P[i] = ends[i - 1] + 1
             /\ ends[i] = P[i] + Extra(h, i)
  <2>1. i \in 0 .. n /\ i - 1 \in 0 .. n
    BY <1>1
  <2>2. P[i] = ends[i - 1] + 1
    OBVIOUS
  <2> HIDE DEF P
  <2>3. ends[i] \in Nat /\ ends[i - 1] \in Nat /\ ends[i] = ends[i - 1] + (1 + Extra(h, i))
    BY <1>2, <1>7, <2>1
  <2>4. Extra(h, i) \in Nat
    BY <1>2
  <2>5. ends[i] = P[i] + Extra(h, i)
    BY <2>2, <2>3, <2>4
  <2> QED
    BY <2>1, <2>2, <2>3, <2>5
<1> HIDE DEF P
<1>9. \A i \in 1 .. n : Len(parts[i]) \in Nat
  BY <1>2
<1>10. ASSUME NEW i \in 1 .. n
       PROVE  /\ Extra(h, i) \in Nat /\ P[i] \in 1 .. Len(g) /\ P[i] + Extra(h, i) <= Len(g)
              /\ g[P[i]] = h[i]
              /\ \A k \in 1 .. Extra(h, i) : g[P[i] + k] = Interrupted(h, i)[k]
  <2>1. n \in 0 .. n /\ i <= n
    BY <1>1
  <2>2. ends[i] <= ends[n]
    BY <1>1, <1>6, <1>8, <1>9, <2>1, EndsClimb
  <2>3. P[i] \in 1 .. Len(g) /\ P[i] + Extra(h, i) <= Len(g)
    <3>1. Len(g) \in Nat
      BY <1>5
    <3> QED
      BY <1>2, <1>7, <1>8, <2>2, <3>1
  <2>4. 1 \in 1 .. Len(parts[i])
    BY <1>2
  <2>5. g[P[i]] = h[i]
    <3>1. g[ends[i - 1] + 1] = parts[i][1]
      BY <1>7, <2>4
    <3>2. P[i] = ends[i - 1] + 1
      BY <1>8
    <3>3. parts[i][1] = h[i]
      BY <1>2
    <3> QED
      BY <3>1, <3>2, <3>3
  <2>6. ASSUME NEW k \in 1 .. Extra(h, i)
        PROVE  g[P[i] + k] = Interrupted(h, i)[k]
    <3>1. 1 + k \in 1 .. Len(parts[i]) /\ P[i] + k = ends[i - 1] + (1 + k)
      <4>1. Len(parts[i]) = 1 + Extra(h, i) /\ Extra(h, i) \in Nat /\ ends[i - 1] \in Nat /\ P[i] = ends[i - 1] + 1
        BY <1>2, <1>8
      <4> QED
        BY <4>1
    <3> QED
      BY <1>2, <1>7, <3>1
  <2> QED
    BY <1>2, <2>3, <2>5, <2>6
<1>11. ASSUME NEW i \in 1 .. n, NEW j \in 1 .. n, i < j
       PROVE  P[i] + Extra(h, i) < P[j]
  <2>1. i <= j - 1 /\ j - 1 \in 0 .. n /\ i \in 0 .. n
    BY <1>1, <1>11
  <2>2. ends[i] <= ends[j - 1]
    BY <1>1, <1>6, <1>9, <2>1, EndsClimb
  <2> QED
    BY <1>8, <2>2
<1>12. ASSUME NEW p \in 1 .. Len(g)
       PROVE  \E i \in 1 .. n : \E k \in 0 .. Extra(h, i) : p = P[i] + k
  <2>1. \E i \in 1 .. n : \E k \in 1 .. Len(parts[i]) : p = ends[i - 1] + k
    BY <1>1, <1>6, <1>9, FlatPlaces
  <2>2. PICK i \in 1 .. n, k \in Nat : k \in 1 .. Len(parts[i]) /\ p = ends[i - 1] + k
    BY <2>1
  <2>3. k - 1 \in 0 .. Extra(h, i) /\ p = P[i] + (k - 1)
    <3>1. P[i] = ends[i - 1] + 1 /\ ends[i - 1] \in Nat
      BY <1>8
    <3>2. Len(parts[i]) = 1 + Extra(h, i) /\ Extra(h, i) \in Nat
      BY <1>2
    <3> QED
      BY <2>2, <3>1, <3>2
  <2> QED
    BY <2>3
<1>13. 1 \in 1 .. n /\ P[1] = 1
  <2>1. 1 \in 1 .. n
    BY <1>1
  <2>2. P[1] = ends[1 - 1] + 1
    BY <1>8, <2>1
  <2> QED
    BY <1>7, <2>1, <2>2
<1>14. P \in [1 .. n -> Nat]
  <2>1. \A i \in 1 .. n : P[i] \in Nat
    BY <1>8
  <2>2. P = [i \in 1 .. n |-> P[i]]
    BY DEF P
  <2> QED
    BY <2>1, <2>2
<1>15. Spread(h, g, P)
  BY <1>5, <1>10, <1>11, <1>12, <1>13, <1>14, Zenon DEF Spread, n
<1> QED
  BY <1>5, <1>15 DEF g

LEMMA SpreadPlaces ==
  ASSUME NEW h \in Seq(Message), Tidy(h), NEW g, NEW P, Spread(h, g, P), NEW i \in 1 .. Len(h)
  PROVE  /\ i \in Nat /\ Len(h) \in Nat /\ Len(g) \in Nat
         /\ h[i] \in Message /\ P[i] \in Nat /\ P[i] \in 1 .. Len(g) /\ Extra(h, i) \in Nat
         /\ P[i] + Extra(h, i) <= Len(g) /\ g[P[i]] = h[i]
         /\ \A j \in 1 .. Len(h) : i < j => P[i] + Extra(h, i) < P[j] /\ P[i] < P[j]
         /\ \A j \in 1 .. Len(h) : P[i] = P[j] => i = j
         /\ ~IsAsk(h[i]) => Extra(h, i) = 0
         /\ h[i].who = "reply" => Extra(h, i) = 0
<1>1. /\ g \in Seq(Message) /\ P \in [1 .. Len(h) -> Nat]
      /\ \A j \in 1 .. Len(h) :
           Extra(h, j) \in Nat /\ P[j] \in 1 .. Len(g) /\ P[j] + Extra(h, j) <= Len(g) /\ g[P[j]] = h[j]
      /\ \A j, l \in 1 .. Len(h) : j < l => P[j] + Extra(h, j) < P[l]
  BY DEF Spread
<1>2. i \in Nat /\ Len(h) \in Nat /\ Len(g) \in Nat /\ h[i] \in Message /\ \A j \in 1 .. Len(h) : j \in Nat
  BY <1>1
<1>3. \A j \in 1 .. Len(h) : P[j] \in Nat
  BY <1>1
<1>4. ~IsAsk(h[i]) => Extra(h, i) = 0
  BY InterruptedTyped
<1>5. h[i].who = "reply" => ~IsAsk(h[i])
  BY DEF IsAsk
<1>6. ASSUME NEW j \in 1 .. Len(h), NEW l \in 1 .. Len(h), j < l
      PROVE  P[j] < P[l]
  BY <1>1, <1>3, <1>6
<1>7. \A j \in 1 .. Len(h) : P[i] = P[j] => i = j
  BY <1>2, <1>3, <1>6
<1> QED
  BY <1>1, <1>2, <1>3, <1>4, <1>5, <1>6, <1>7

(* What a closed ask is followed by: the added replies, then its own.       *)
LEMMA CloseReplies ==
  ASSUME NEW h \in Seq(Message), Tidy(h), NEW g, NEW P, Spread(h, g, P),
         NEW i \in 1 .. Len(h), NEW p
  PROVE  p \in RepliesAfter(g, P[i]) <=>
           \/ \E k \in 1 .. Extra(h, i) : p = P[i] + k
           \/ \E j \in RepliesAfter(h, i) : p = P[j]
<1>1. /\ g \in Seq(Message)
      /\ \A l \in 1 .. Len(h) : \A k \in 1 .. Extra(h, l) : g[P[l] + k] = Interrupted(h, l)[k]
      /\ \A q \in 1 .. Len(g) : \E l \in 1 .. Len(h) : \E k \in 0 .. Extra(h, l) : q = P[l] + k
  BY DEF Spread
<1>2. /\ Len(h) \in Nat /\ Len(g) \in Nat
      /\ \A l \in 1 .. Len(h) :
         /\ l \in Nat /\ h[l] \in Message /\ P[l] \in Nat /\ P[l] \in 1 .. Len(g) /\ Extra(h, l) \in Nat
         /\ P[l] + Extra(h, l) <= Len(g) /\ g[P[l]] = h[l]
         /\ h[l].who = "reply" => Extra(h, l) = 0
  BY SpreadPlaces
<1>3. \A l, j \in 1 .. Len(h) : l < j => P[l] + Extra(h, l) < P[j] /\ P[l] < P[j]
  BY SpreadPlaces
<1>4. ASSUME NEW l \in 1 .. Len(h), NEW k \in 1 .. Extra(h, l)
      PROVE  g[P[l] + k].who = "reply"
  <2>1. Missing(h, l, Interrupted(h, l), Len(h[l].calls)) /\ Interrupted(h, l) \in Seq(Message)
    BY InterruptedTyped
  <2>2. PICK c \in 1 .. Len(h[l].calls) : Interrupted(h, l)[k] = ReplyTo(h[l].turn, h[l].calls[c])
    BY <2>1 DEF Missing, Extra
  <2> QED
    BY <1>1, <2>2 DEF ReplyTo
<1>5. ASSUME NEW q \in P[i] + 1 .. Len(g)
      PROVE  \/ \E k \in 1 .. Extra(h, i) : q = P[i] + k
             \/ \E l \in 1 .. Len(h) : i < l /\ \E k \in 0 .. Extra(h, l) : q = P[l] + k
  <2>1. q \in 1 .. Len(g)
    BY <1>2
  <2>2. PICK l \in 1 .. Len(h), k \in Nat : k \in 0 .. Extra(h, l) /\ q = P[l] + k
    BY <1>1, <1>2, <2>1
  <2>3. CASE l = i
    <3>1. k \in 1 .. Extra(h, i)
      BY <1>2, <2>2, <2>3
    <3> QED
      BY <2>2, <2>3, <3>1
  <2>4. CASE i < l
    BY <2>2, <2>4
  <2>5. CASE l < i
    <3>1. P[l] + Extra(h, l) < P[i]
      BY <1>3, <2>5
    <3>2. k <= Extra(h, l) /\ Extra(h, l) \in Nat /\ P[l] \in Nat /\ P[i] \in Nat
      BY <1>2, <2>2
    <3>3. q >= P[i] + 1 /\ q \in Nat
      BY <1>2
    <3> QED
      BY <2>2, <3>1, <3>2, <3>3
  <2> QED
    BY <1>2, <2>3, <2>4, <2>5
<1>6. ASSUME NEW k \in 1 .. Extra(h, i), p = P[i] + k
      PROVE  p \in RepliesAfter(g, P[i])
  <2>1. p \in P[i] + 1 .. Len(g)
    BY <1>2, <1>6
  <2>2. ASSUME NEW q \in P[i] + 1 .. p PROVE g[q].who = "reply"
    <3>1. q - P[i] \in 1 .. Extra(h, i) /\ q = P[i] + (q - P[i])
      BY <1>2, <1>6
    <3> QED
      BY <1>4, <3>1
  <2> QED
    BY <2>1, <2>2 DEF RepliesAfter
<1>7. ASSUME NEW j \in RepliesAfter(h, i), p = P[j]
      PROVE  p \in RepliesAfter(g, P[i])
  <2>1. j \in i + 1 .. Len(h) /\ \A k \in i + 1 .. j : h[k].who = "reply"
    BY DEF RepliesAfter
  <2>2. j \in 1 .. Len(h) /\ i < j
    BY <1>2, <2>1
  <2>3. p \in P[i] + 1 .. Len(g)
    <3>1. P[i] < P[j] /\ P[i] \in Nat /\ P[j] \in 1 .. Len(g)
      BY <1>2, <1>3, <2>2
    <3> QED
      BY <1>2, <1>7, <3>1
  <2>4. ASSUME NEW q \in P[i] + 1 .. p PROVE g[q].who = "reply"
    <3>1. q \in P[i] + 1 .. Len(g)
      BY <1>2, <2>3
    <3>2. CASE \E k \in 1 .. Extra(h, i) : q = P[i] + k
      BY <1>4, <3>2
    <3>3. CASE \E l \in 1 .. Len(h) : i < l /\ \E k \in 0 .. Extra(h, l) : q = P[l] + k
      <4>1. PICK l \in 1 .. Len(h), k \in Nat : i < l /\ k \in 0 .. Extra(h, l) /\ q = P[l] + k
        BY <1>2, <3>3
      <4>2. l <= j
        <5>1. SUFFICES ASSUME j < l PROVE FALSE
          BY <1>2, <2>2
        <5>2. P[j] < P[l] /\ P[j] \in Nat /\ P[l] \in Nat
          BY <1>2, <1>3, <2>2, <5>1
        <5>3. q <= P[j] /\ q \in Nat
          BY <1>2, <1>7, <2>3
        <5> QED
          BY <4>1, <5>2, <5>3
      <4>3. h[l].who = "reply"
        BY <1>2, <2>1, <2>2, <4>1, <4>2
      <4>4. q = P[l]
        BY <1>2, <4>1, <4>3
      <4> QED
        BY <1>2, <4>3, <4>4
    <3> QED
      BY <1>5, <3>1, <3>2, <3>3
  <2> QED
    BY <2>3, <2>4 DEF RepliesAfter
<1>8. ASSUME p \in RepliesAfter(g, P[i])
      PROVE  \/ \E k \in 1 .. Extra(h, i) : p = P[i] + k
             \/ \E j \in RepliesAfter(h, i) : p = P[j]
  <2>1. p \in P[i] + 1 .. Len(g) /\ \A q \in P[i] + 1 .. p : g[q].who = "reply"
    BY <1>8 DEF RepliesAfter
  <2>2. CASE \E l \in 1 .. Len(h) : i < l /\ \E k \in 0 .. Extra(h, l) : p = P[l] + k
    <3>1. PICK l \in 1 .. Len(h), k \in Nat : i < l /\ k \in 0 .. Extra(h, l) /\ p = P[l] + k
      BY <1>2, <2>2
    <3>2. ASSUME NEW j \in i + 1 .. l PROVE h[j].who = "reply"
      <4>1. j \in 1 .. Len(h) /\ i < j /\ (j = l \/ j < l)
        BY <1>2, <3>1
      <4>2. P[i] < P[j] /\ P[j] <= P[l] /\ P[i] \in Nat /\ P[j] \in Nat /\ P[l] \in Nat
        BY <1>2, <1>3, <4>1
      <4>3. P[j] \in P[i] + 1 .. p
        BY <3>1, <4>2
      <4> QED
        BY <1>2, <2>1, <4>1, <4>3
    <3>3. l \in i + 1 .. Len(h)
      BY <1>2, <3>1
    <3>4. l \in RepliesAfter(h, i)
      BY <3>2, <3>3 DEF RepliesAfter
    <3>5. h[l].who = "reply"
      BY <1>2, <3>2, <3>3
    <3>6. p = P[l]
      BY <1>2, <3>1, <3>5
    <3> QED
      BY <3>4, <3>6
  <2> QED
    BY <1>5, <2>1, <2>2
<1> QED
  BY <1>6, <1>7, <1>8

(* Each message of a closed sequence is one of its own, in its order, or a  *)
(* reply to an ask before it, with the ask's turn.                          *)
LEMMA CloseHolds ==
  ASSUME NEW h \in Seq(Message), Tidy(h), NEW g, NEW P, Spread(h, g, P), NEW p \in 1 .. Len(g)
  PROVE  \/ \E i \in 1 .. Len(h) : p = P[i] /\ g[p] = h[i]
         \/ \E i \in 1 .. Len(h) : \E k \in 1 .. Extra(h, i) : \E c \in 1 .. Len(h[i].calls) :
              /\ p = P[i] + k /\ IsAsk(h[i]) /\ h[i].calls[c].id \notin Answered(h, i)
              /\ g[p] = Interrupted(h, i)[k] /\ g[p] = ReplyTo(h[i].turn, h[i].calls[c])
<1>1. /\ \A l \in 1 .. Len(h) : \A k \in 1 .. Extra(h, l) : g[P[l] + k] = Interrupted(h, l)[k]
      /\ \A q \in 1 .. Len(g) : \E l \in 1 .. Len(h) : \E k \in 0 .. Extra(h, l) : q = P[l] + k
  BY DEF Spread
<1>2. PICK i \in 1 .. Len(h) : \E k \in 0 .. Extra(h, i) : p = P[i] + k
  BY <1>1
<1>3. /\ Extra(h, i) \in Nat /\ P[i] \in Nat /\ g[P[i]] = h[i] /\ (~IsAsk(h[i]) => Extra(h, i) = 0)
  BY SpreadPlaces
<1>4. PICK k \in 0 .. Extra(h, i) : p = P[i] + k
  BY <1>2
<1>5. CASE k = 0
  BY <1>3, <1>4, <1>5
<1>6. CASE k # 0
  <2>1. k \in 1 .. Extra(h, i)
    BY <1>3, <1>6
  <2>2. IsAsk(h[i])
    BY <1>3, <2>1
  <2>3. Missing(h, i, Interrupted(h, i), Len(h[i].calls))
    BY InterruptedTyped
  <2>4. PICK c \in 1 .. Len(h[i].calls) :
          h[i].calls[c].id \notin Answered(h, i) /\ Interrupted(h, i)[k] = ReplyTo(h[i].turn, h[i].calls[c])
    BY <2>1, <2>3 DEF Missing, Extra
  <2>5. g[p] = Interrupted(h, i)[k]
    BY <1>1, <1>4, <2>1
  <2> QED
    BY <1>4, <2>1, <2>2, <2>4, <2>5
<1> QED
  BY <1>5, <1>6

LEMMA CallPlaces ==
  ASSUME NEW h \in Seq(Message), NEW i \in 1 .. Len(h)
  PROVE  /\ h[i].turn \in Turns /\ Len(h[i].calls) \in Nat
         /\ \A k \in 1 .. Len(h[i].calls) : h[i].calls[k] \in [id : Nat, tool : ToolNames]
<1>1. h[i] \in Message
  OBVIOUS
<1>2. h[i].calls \in Seq([id : Nat, tool : ToolNames]) /\ h[i].turn \in Turns
  BY <1>1 DEF Message
<1> QED
  BY <1>2, PlacesOf

(* Closing answers each call once.                                          *)
LEMMA CloseTidy ==
  ASSUME NEW h \in Seq(Message), h # <<>>, Tidy(h)
  PROVE  Close(h) \in Seq(Message) /\ Tidy(Close(h)) /\ AllAnswered(Close(h))
<1> DEFINE g == Close(h)
<1>1. g \in Seq(Message) /\ \E P : Spread(h, g, P)
  BY CloseSpreads
<1> HIDE DEF g
<1>2. PICK P : Spread(h, g, P)
  BY <1>1
<1>3. ASSUME NEW i \in 1 .. Len(h)
      PROVE  /\ i \in Nat /\ P[i] \in Nat /\ Extra(h, i) \in Nat /\ g[P[i]] = h[i]
             /\ \A j \in 1 .. Len(h) : P[i] = P[j] => i = j
             /\ \A j \in RepliesAfter(h, i) : j \in 1 .. Len(h) /\ g[P[j]] = h[j]
             /\ \A k \in 1 .. Extra(h, i) : g[P[i] + k] = Interrupted(h, i)[k]
  <2>1. i \in Nat
    OBVIOUS
  <2>2. \A j \in RepliesAfter(h, i) : j \in 1 .. Len(h)
    BY <2>1, RepliesLie
  <2>3. \A j \in 1 .. Len(h) : g[P[j]] = h[j]
    BY <1>2, SpreadPlaces
  <2>4. \A k \in 1 .. Extra(h, i) : g[P[i] + k] = Interrupted(h, i)[k]
    BY <1>2 DEF Spread
  <2> QED
    BY <1>2, <2>1, <2>2, <2>3, <2>4, SpreadPlaces
<1>4. ASSUME NEW i \in 1 .. Len(h), IsAsk(h[i])
      PROVE  /\ \A p \in RepliesAfter(g, P[i]) : g[p].of \in IdsOf(h[i])
             /\ \A p, q \in RepliesAfter(g, P[i]) : g[p].of = g[q].of => p = q
             /\ \A id \in IdsOf(h[i]) : \E p \in RepliesAfter(g, P[i]) : g[p].of = id
  <2> DEFINE I == Interrupted(h, i)
             E == Extra(h, i)
             R == RepliesAfter(h, i)
             cs == h[i].calls
  <2>1. \A p : p \in RepliesAfter(g, P[i]) <=>
                 (\E k \in 1 .. E : p = P[i] + k) \/ (\E j \in R : p = P[j])
    BY <1>2, CloseReplies
  <2>2. /\ \A p \in 1 .. E : \E k \in 1 .. Len(cs) :
             cs[k].id \notin Answered(h, i) /\ I[p] = ReplyTo(h[i].turn, cs[k])
        /\ \A k \in 1 .. Len(cs) : cs[k].id \notin Answered(h, i) =>
             \E p \in 1 .. E : I[p] = ReplyTo(h[i].turn, cs[k])
        /\ \A p, q \in 1 .. E : I[p].of = I[q].of => p = q
    BY InterruptedTyped DEF Missing, Extra
  <2>3. /\ \A j \in R : h[j].of \in IdsOf(h[i])
        /\ \A j, k \in R : h[j].of = h[k].of => j = k
    BY <1>4, Zenon DEF Tidy
  <2>4. \A k \in 1 .. Len(cs) : ReplyTo(h[i].turn, cs[k]).of = cs[k].id
    BY DEF ReplyTo
  <2>5. \A j \in R : h[j].of \in Answered(h, i) /\ g[P[j]].of = h[j].of /\ j \in 1 .. Len(h)
    BY <1>3 DEF Answered
  <2>6. ASSUME NEW k \in 1 .. E
        PROVE  g[P[i] + k].of = I[k].of /\ I[k].of \notin Answered(h, i) /\ I[k].of \in IdsOf(h[i])
    <3>1. PICK c \in 1 .. Len(cs) : cs[c].id \notin Answered(h, i) /\ I[k] = ReplyTo(h[i].turn, cs[c])
      BY <2>2
    <3>2. I[k].of = cs[c].id /\ cs[c].id \in IdsOf(h[i])
      BY <2>4, <3>1 DEF IdsOf
    <3>3. g[P[i] + k] = I[k]
      BY <1>3
    <3> QED
      BY <3>1, <3>2, <3>3
  <2> HIDE DEF I, E, R, cs
  <2>7. ASSUME NEW p \in RepliesAfter(g, P[i]) PROVE g[p].of \in IdsOf(h[i])
    BY <2>1, <2>3, <2>5, <2>6
  <2>8. ASSUME NEW p \in RepliesAfter(g, P[i]), NEW q \in RepliesAfter(g, P[i]), g[p].of = g[q].of
        PROVE  p = q
    <3>1. CASE (\E k \in 1 .. E : p = P[i] + k) /\ (\E k \in 1 .. E : q = P[i] + k)
      <4>1. PICK k \in 1 .. E, l \in 1 .. E : p = P[i] + k /\ q = P[i] + l
        BY <3>1
      <4>2. I[k].of = I[l].of
        BY <2>6, <2>8, <4>1
      <4> QED
        BY <2>2, <4>1, <4>2
    <3>2. CASE (\E j \in R : p = P[j]) /\ (\E j \in R : q = P[j])
      BY <2>3, <2>5, <2>8, <3>2
    <3>3. CASE (\E k \in 1 .. E : p = P[i] + k) /\ (\E j \in R : q = P[j])
      BY <2>5, <2>6, <2>8, <3>3
    <3>4. CASE (\E j \in R : p = P[j]) /\ (\E k \in 1 .. E : q = P[i] + k)
      BY <2>5, <2>6, <2>8, <3>4
    <3> QED
      BY <2>1, <3>1, <3>2, <3>3, <3>4
  <2>9. ASSUME NEW id \in IdsOf(h[i])
        PROVE  \E p \in RepliesAfter(g, P[i]) : g[p].of = id
    <3>1. PICK k \in 1 .. Len(cs) : id = cs[k].id
      BY DEF IdsOf, cs
    <3>2. CASE cs[k].id \in Answered(h, i)
      <4>1. PICK j \in R : h[j].of = id
        BY <3>1, <3>2 DEF Answered, R
      <4> QED
        BY <2>1, <2>5, <4>1
    <3>3. CASE cs[k].id \notin Answered(h, i)
      <4>1. PICK p \in 1 .. E : I[p] = ReplyTo(h[i].turn, cs[k])
        BY <2>2, <3>3
      <4> QED
        BY <2>1, <2>4, <2>6, <3>1, <4>1
    <3> QED
      BY <3>2, <3>3
  <2> QED
    BY <2>7, <2>8, <2>9
<1>5. ASSUME NEW p \in 1 .. Len(g)
      PROVE  \/ \E i \in 1 .. Len(h) : p = P[i] /\ g[p] = h[i]
             \/ /\ ~IsAsk(g[p]) /\ g[p].calls = <<>>
                /\ \E i \in 1 .. Len(h) : IsAsk(h[i]) /\ \E k \in 1 .. Extra(h, i) : p = P[i] + k
  <2>1. CASE \E i \in 1 .. Len(h) : p = P[i] /\ g[p] = h[i]
    BY <2>1
  <2>2. ASSUME NEW i \in 1 .. Len(h), NEW k \in 1 .. Extra(h, i), NEW c \in 1 .. Len(h[i].calls),
               p = P[i] + k, IsAsk(h[i]), g[p] = ReplyTo(h[i].turn, h[i].calls[c])
        PROVE  /\ ~IsAsk(g[p]) /\ g[p].calls = <<>>
               /\ \E j \in 1 .. Len(h) : IsAsk(h[j]) /\ \E l \in 1 .. Extra(h, j) : p = P[j] + l
    <3>1. ~IsAsk(g[p]) /\ g[p].calls = <<>>
      BY <2>2, CallPlaces, ReplyTyped
    <3> QED
      BY <2>2, <3>1
  <2> QED
    BY <1>2, <2>1, <2>2, CloseHolds
<1>6. ASSUME NEW p \in 1 .. Len(g)
      PROVE  IF IsAsk(g[p])
               THEN /\ IdsDiffer(g[p])
                    /\ \A j \in RepliesAfter(g, p) : g[j].of \in IdsOf(g[p])
                    /\ \A j, k \in RepliesAfter(g, p) : g[j].of = g[k].of => j = k
               ELSE g[p].calls = <<>>
  <2>1. ASSUME NEW i \in 1 .. Len(h), p = P[i], g[p] = h[i]
        PROVE  IF IsAsk(h[i]) THEN IdsDiffer(h[i]) ELSE h[i].calls = <<>>
    BY DEF Tidy
  <2>2. CASE IsAsk(g[p])
    <3>1. PICK i \in 1 .. Len(h) : p = P[i] /\ g[p] = h[i]
      BY <1>5, <2>2
    <3>2. IsAsk(h[i])
      BY <2>2, <3>1
    <3> QED
      BY <1>4, <2>1, <2>2, <3>1, <3>2
  <2>3. CASE ~IsAsk(g[p])
    BY <1>5, <2>1, <2>3
  <2> QED
    BY <2>2, <2>3
<1>7. ASSUME NEW p \in 1 .. Len(g), g[p].who = "reply"
      PROVE  \E a \in 1 .. p - 1 : IsAsk(g[a]) /\ p \in RepliesAfter(g, a)
  <2>1. SUFFICES \E i \in 1 .. Len(h) : IsAsk(h[i]) /\ p \in RepliesAfter(g, P[i])
    <3>1. ASSUME NEW i \in 1 .. Len(h), IsAsk(h[i]), p \in RepliesAfter(g, P[i])
          PROVE  P[i] \in 1 .. p - 1 /\ IsAsk(g[P[i]])
      <4>1. P[i] \in 1 .. Len(g) /\ P[i] \in Nat /\ g[P[i]] = h[i]
        BY <1>2, SpreadPlaces
      <4>2. p > P[i]
        BY <1>1, <3>1, <4>1, RepliesLie
      <4> QED
        BY <3>1, <4>1, <4>2
    <3> QED
      BY <3>1
  <2>2. CASE \E i \in 1 .. Len(h) : p = P[i] /\ g[p] = h[i]
    <3>1. PICK j \in 1 .. Len(h) : p = P[j] /\ g[p] = h[j]
      BY <2>2
    <3>2. PICK i \in 1 .. j - 1 : IsAsk(h[i]) /\ j \in RepliesAfter(h, i)
      BY <1>7, <3>1, Zenon DEF Tidy
    <3>3. i \in 1 .. Len(h)
      BY <1>3
    <3>4. p \in RepliesAfter(g, P[i])
      BY <1>2, <3>1, <3>2, <3>3, CloseReplies
    <3> QED
      BY <3>2, <3>3, <3>4
  <2>3. CASE \E i \in 1 .. Len(h) : IsAsk(h[i]) /\ \E k \in 1 .. Extra(h, i) : p = P[i] + k
    BY <1>2, <2>3, CloseReplies
  <2> QED
    BY <1>5, <2>2, <2>3
<1>8. ASSUME NEW p \in 1 .. Len(g), IsAsk(g[p]), NEW id \in IdsOf(g[p])
      PROVE  \E j \in RepliesAfter(g, p) : g[j].of = id
  <2>1. PICK i \in 1 .. Len(h) : p = P[i] /\ g[p] = h[i]
    BY <1>5, <1>8
  <2>2. IsAsk(h[i]) /\ id \in IdsOf(h[i])
    BY <1>8, <2>1
  <2> QED
    BY <1>4, <2>1, <2>2
<1> QED
  BY <1>1, <1>6, <1>7, <1>8, Zenon DEF Tidy, AllAnswered, g

-----------------------------------------------------------------------------
(* A turn's own messages: its user message, then rounds of distinct calls.  *)
Calls == [id : Nat, tool : ToolNames]
Own(t, g) ==
  /\ g \in Seq(Message) /\ g # <<>> /\ g[1] = User(t) /\ Tidy(g)
  /\ \A k \in 1 .. Len(g) :
       g[k].turn = t /\ (k > 1 => g[k].who \in {"ask", "reply"}) /\ (IsAsk(g[k]) => g[k].calls # <<>>)
  /\ \A i, j \in 1 .. Len(g) : \A a \in 1 .. Len(g[i].calls) : \A b \in 1 .. Len(g[j].calls) :
       g[i].calls[a].id = g[j].calls[b].id => i = j
UpTo(g, n) == \A i \in 1 .. Len(g) : \A a \in 1 .. Len(g[i].calls) : g[i].calls[a].id <= n

LEMMA MessagesTyped ==
  ASSUME NEW t \in Turns
  PROVE  /\ User(t) \in Message /\ Say(t) \in Message
         /\ \A cs \in Seq(Calls) : AskFor(t, cs) \in Message
         /\ \A c \in Calls : ReplyTo(t, c) \in Message
<1>1. <<>> \in Seq([id : Nat, tool : ToolNames])
  OBVIOUS
<1> QED
  BY <1>1 DEF User, Say, AskFor, ReplyTo, Message, Calls

LEMMA SingleTidy ==
  ASSUME NEW m \in Message, m.who # "reply",
         IF IsAsk(m) THEN IdsDiffer(m) ELSE m.calls = <<>>
  PROVE  /\ <<m>> \in Seq(Message) /\ Tidy(<<m>>) /\ <<m>>[1].who # "reply" /\ <<m>> # <<>>
         /\ ~IsAsk(m) => AllAnswered(<<m>>)
<1>1. <<m>> \in Seq(Message) /\ Len(<<m>>) = 1 /\ <<m>>[1] = m /\ <<m>> # <<>>
  OBVIOUS
<1> DEFINE s == <<m>>
<1> HIDE DEF s
<1>2. s \in Seq(Message) /\ Len(s) = 1 /\ s[1] = m /\ s # <<>>
  BY <1>1 DEF s
<1>3. \A i \in 1 .. Len(s) : i = 1 /\ i \in Nat
  BY <1>2
<1>4. RepliesAfter(s, 1) = {}
  BY <1>2 DEF RepliesAfter
<1>5. Tidy(s)
  BY <1>2, <1>3, <1>4 DEF Tidy
<1>6. ~IsAsk(m) => AllAnswered(s)
  BY <1>2, <1>3 DEF AllAnswered
<1> QED
  BY <1>2, <1>5, <1>6 DEF s

LEMMA OwnBegins ==
  ASSUME NEW t \in Turns
  PROVE  Own(t, <<User(t)>>) /\ UpTo(<<User(t)>>, 0)
<1>1. User(t) \in Message /\ ~IsAsk(User(t)) /\ User(t).who # "reply" /\ User(t).calls = <<>> /\ User(t).turn = t
  BY MessagesTyped DEF User, IsAsk
<1> DEFINE s == <<User(t)>>
<1>2. s \in Seq(Message) /\ Len(s) = 1 /\ s[1] = User(t) /\ s # <<>>
  BY <1>1
<1>3. Tidy(s)
  BY <1>1, SingleTidy
<1> HIDE DEF s
<1>4. \A i \in 1 .. Len(s) : i = 1 /\ s[i].calls = <<>> /\ Len(s[i].calls) = 0
  BY <1>1, <1>2
<1>5. \A i \in 1 .. Len(s) : \A a \in 1 .. Len(s[i].calls) : FALSE
  BY <1>4
<1>6. UpTo(s, 0)
  BY <1>5 DEF UpTo
<1>7. \A k \in 1 .. Len(s) :
        s[k].turn = t /\ (k > 1 => s[k].who \in {"ask", "reply"}) /\ (IsAsk(s[k]) => s[k].calls # <<>>)
  BY <1>1, <1>2, <1>4
<1>8. Own(t, s)
  BY <1>2, <1>3, <1>5, <1>7 DEF Own
<1> QED
  BY <1>6, <1>8 DEF s

LEMMA AppendJoins ==
  ASSUME NEW g \in Seq(Message), NEW m \in Message
  PROVE  Append(g, m) = g \o <<m>>
  OBVIOUS

(* A new ask, its calls numbered past the earlier ones.                     *)
LEMMA OwnAsks ==
  ASSUME NEW t \in Turns, NEW g, Own(t, g), NEW n \in Nat, UpTo(g, n), NEW k \in Nat \ {0},
         NEW cs \in Seq(Calls), Len(cs) = k, \A a \in 1 .. k : cs[a].id = n + a
  PROVE  Own(t, Append(g, AskFor(t, cs))) /\ UpTo(Append(g, AskFor(t, cs)), n + k)
<1> DEFINE m == AskFor(t, cs)
           h == Append(g, m)
           d == Len(g)
<1>1. g \in Seq(Message) /\ g # <<>> /\ g[1] = User(t) /\ Tidy(g)
  BY DEF Own
<1>2. m \in Message /\ IsAsk(m) /\ m.who = "ask" /\ m.calls = cs /\ m.turn = t
  BY MessagesTyped DEF AskFor, IsAsk
<1> HIDE DEF m
<1>3. h \in Seq(Message) /\ Len(h) = d + 1 /\ d \in Nat /\ h[d + 1] = m /\ \A i \in 1 .. d : h[i] = g[i]
  BY <1>1, <1>2, AppendIs
<1>4. \A a, b \in 1 .. k : cs[a].id = cs[b].id => a = b
  OBVIOUS
<1>5. IdsDiffer(m)
  BY <1>2, <1>4 DEF IdsDiffer
<1>6. Tidy(h)
  <2>1. Tidy(<<m>>) /\ <<m>> \in Seq(Message) /\ <<m>>[1].who # "reply"
    BY <1>2, <1>5, SingleTidy
  <2>2. Tidy(g \o <<m>>)
    BY <1>1, <2>1, TidyJoin
  <2> QED
    BY <1>1, <1>2, <2>2, AppendJoins
<1> HIDE DEF h, d
<1>7. \A i \in 1 .. Len(h) : i = d + 1 \/ i \in 1 .. d
  BY <1>3
<1>8. d >= 1
  BY <1>1, <1>3 DEF d
<1>9. \A i \in 1 .. d : \A a \in 1 .. Len(g[i].calls) : g[i].calls[a].id <= n /\ g[i].calls[a].id \in Nat
  <2> SUFFICES ASSUME NEW i \in 1 .. d, NEW a \in 1 .. Len(g[i].calls)
               PROVE  g[i].calls[a].id <= n /\ g[i].calls[a].id \in Nat
    OBVIOUS
  <2>1. g[i].calls[a] \in [id : Nat, tool : ToolNames]
    BY <1>1, CallPlaces DEF d
  <2> QED
    BY <2>1 DEF UpTo, d
<1>10. \A a \in 1 .. Len(m.calls) : m.calls[a].id = n + a /\ a \in 1 .. k
  BY <1>2
<1>11. UpTo(h, n + k)
  <2> SUFFICES ASSUME NEW i \in 1 .. Len(h), NEW a \in 1 .. Len(h[i].calls)
               PROVE  h[i].calls[a].id <= n + k
    BY DEF UpTo
  <2>1. CASE i = d + 1
    BY <1>3, <1>10, <2>1
  <2>2. CASE i \in 1 .. d
    <3>1. h[i].calls[a].id <= n /\ h[i].calls[a].id \in Nat
      BY <1>3, <1>9, <2>2
    <3> QED
      BY <3>1
  <2> QED
    BY <1>7, <2>1, <2>2
<1>12. ASSUME NEW i \in 1 .. d, NEW a \in 1 .. Len(g[i].calls), NEW b \in 1 .. Len(m.calls)
       PROVE  g[i].calls[a].id # m.calls[b].id
  <2>1. g[i].calls[a].id <= n /\ g[i].calls[a].id \in Nat
    BY <1>9
  <2>2. m.calls[b].id = n + b /\ b \in 1 .. k
    BY <1>10
  <2> QED
    BY <2>1, <2>2, SMTT(20)
<1>13. ASSUME NEW i \in 1 .. Len(h), NEW j \in 1 .. Len(h),
              NEW a \in 1 .. Len(h[i].calls), NEW b \in 1 .. Len(h[j].calls),
              h[i].calls[a].id = h[j].calls[b].id
       PROVE  i = j
  <2>1. CASE i \in 1 .. d /\ j \in 1 .. d
    <3>1. h[i] = g[i] /\ h[j] = g[j] /\ i \in 1 .. Len(g) /\ j \in 1 .. Len(g)
      BY <1>3, <2>1 DEF d
    <3> QED
      BY <1>13, <3>1 DEF Own
  <2>2. CASE i = d + 1 /\ j = d + 1
    BY <2>2
  <2>3. CASE i \in 1 .. d /\ j = d + 1
    <3>1. h[i] = g[i] /\ h[j] = m
      BY <1>3, <2>3
    <3> QED
      BY <1>12, <1>13, <2>3, <3>1
  <2>4. CASE i = d + 1 /\ j \in 1 .. d
    <3>1. h[j] = g[j] /\ h[i] = m
      BY <1>3, <2>4
    <3> QED
      BY <1>12, <1>13, <2>4, <3>1
  <2> QED
    BY <1>7, <2>1, <2>2, <2>3, <2>4
<1>14. ASSUME NEW i \in 1 .. Len(h)
       PROVE  h[i].turn = t /\ (i > 1 => h[i].who \in {"ask", "reply"}) /\ (IsAsk(h[i]) => h[i].calls # <<>>)
  <2>1. CASE i = d + 1
    <3>1. cs # <<>>
      OBVIOUS
    <3> QED
      BY <1>2, <1>3, <2>1, <3>1
  <2>2. CASE i \in 1 .. d
    BY <1>3, <2>2 DEF Own, d
  <2> QED
    BY <1>7, <2>1, <2>2
<1>15. h[1] = User(t) /\ h # <<>>
  <2>1. 1 \in 1 .. d
    BY <1>3, <1>8
  <2> QED
    BY <1>1, <1>3, <2>1
<1>16. Own(t, h)
  BY <1>3, <1>6, <1>13, <1>14, <1>15, Zenon DEF Own
<1> QED
  BY <1>11, <1>16 DEF h, m

(* The replies to the first calls of the ask that ends it.                  *)
LEMMA OwnReplies ==
  ASSUME NEW t \in Turns, NEW g, Own(t, g), NEW n, UpTo(g, n),
         NEW cs \in Seq(Calls), g[Len(g)] = AskFor(t, cs),
         NEW r \in Seq(Message), Len(r) <= Len(cs),
         \A k \in 1 .. Len(r) : r[k] = ReplyTo(t, cs[k])
  PROVE  Own(t, g \o r) /\ UpTo(g \o r, n)
<1> DEFINE h == g \o r
           d == Len(g)
<1>1. g \in Seq(Message) /\ g # <<>> /\ g[1] = User(t) /\ Tidy(g)
  BY DEF Own
<1>2. /\ h \in Seq(Message) /\ Len(h) = d + Len(r) /\ d \in Nat /\ Len(r) \in Nat
      /\ \A i \in 1 .. d : h[i] = g[i]
      /\ \A i \in 1 .. Len(r) : h[d + i] = r[i]
  BY <1>1, JoinIs
<1>3. d \in 1 .. d /\ 1 \in 1 .. d
  BY <1>1
<1>4. IsAsk(g[d]) /\ g[d].calls = cs /\ g[d].who # "reply"
  BY DEF AskFor, IsAsk
<1> HIDE DEF h, d
<1>5. Len(cs) \in Nat /\ \A k \in 1 .. Len(cs) : cs[k] \in Calls
  OBVIOUS
<1>6. \A a, b \in 1 .. Len(cs) : cs[a].id = cs[b].id => a = b
  BY <1>1, <1>3, <1>4 DEF Tidy, IdsDiffer, d
<1>7. ASSUME NEW i \in d + 1 .. Len(h)
      PROVE  /\ i - d \in 1 .. Len(cs) /\ i - d \in Nat /\ i \in Nat /\ h[i] = ReplyTo(t, cs[i - d])
             /\ h[i].who = "reply" /\ h[i].turn = t /\ h[i].calls = <<>> /\ ~IsAsk(h[i])
             /\ h[i].of = cs[i - d].id
  <2>1. i - d \in 1 .. Len(r) /\ i - d \in 1 .. Len(cs) /\ d + (i - d) = i /\ i - d \in Nat /\ i \in Nat
    BY <1>2, <1>5
  <2>2. h[i] = ReplyTo(t, cs[i - d])
    BY <1>2, <2>1
  <2> QED
    BY <2>1, <2>2 DEF ReplyTo, IsAsk
<1>8. \A i \in 1 .. Len(h) : i \in 1 .. d \/ i \in d + 1 .. Len(h)
  BY <1>2
<1>9. \A i \in 1 .. d : i \in 1 .. Len(g) /\ i \in Nat /\ (i = d \/ i < d)
  BY <1>2 DEF d
<1>10. ASSUME NEW i \in 1 .. d, i < d
       PROVE  RepliesAfter(h, i) = RepliesAfter(g, i) /\ \A j \in RepliesAfter(g, i) : h[j] = g[j]
  <2>1. ASSUME NEW j \in RepliesAfter(h, i) PROVE j \in RepliesAfter(g, i)
    <3>1. j \in i + 1 .. Len(h) /\ \A k \in i + 1 .. j : h[k].who = "reply"
      BY <2>1 DEF RepliesAfter
    <3>2. j < d
      <4>1. SUFFICES ASSUME ~ (j < d) PROVE FALSE
        OBVIOUS
      <4>2. d \in i + 1 .. j
        BY <1>2, <1>10, <3>1, <4>1
      <4> QED
        BY <1>2, <1>3, <1>4, <3>1, <4>2
    <3>3. j \in i + 1 .. Len(g) /\ \A k \in i + 1 .. j : k \in 1 .. d
      BY <1>2, <3>1, <3>2 DEF d
    <3> QED
      BY <1>2, <3>1, <3>3 DEF RepliesAfter
  <2>2. ASSUME NEW j \in RepliesAfter(g, i) PROVE j \in RepliesAfter(h, i) /\ h[j] = g[j]
    <3>1. j \in i + 1 .. d /\ \A k \in i + 1 .. j : g[k].who = "reply"
      BY <2>2 DEF RepliesAfter, d
    <3>2. j \in i + 1 .. Len(h) /\ j \in 1 .. d /\ \A k \in i + 1 .. j : k \in 1 .. d
      BY <1>2, <3>1
    <3> QED
      BY <1>2, <3>1, <3>2 DEF RepliesAfter
  <2> QED
    BY <2>1, <2>2
<1>11. \A j : j \in RepliesAfter(h, d) <=> j \in d + 1 .. Len(h)
  <2> SUFFICES ASSUME NEW j \in d + 1 .. Len(h) PROVE j \in RepliesAfter(h, d)
    BY DEF RepliesAfter
  <2>1. \A k \in d + 1 .. j : k \in d + 1 .. Len(h)
    BY <1>2
  <2> QED
    BY <1>7, <2>1 DEF RepliesAfter
<1>12. ASSUME NEW i \in 1 .. Len(h)
       PROVE  IF IsAsk(h[i])
                THEN /\ IdsDiffer(h[i])
                     /\ \A j \in RepliesAfter(h, i) : h[j].of \in IdsOf(h[i])
                     /\ \A j, k \in RepliesAfter(h, i) : h[j].of = h[k].of => j = k
                ELSE h[i].calls = <<>>
  <2>1. CASE i \in 1 .. d /\ i < d
    <3>1. IF IsAsk(g[i])
            THEN /\ IdsDiffer(g[i])
                 /\ \A j \in RepliesAfter(g, i) : g[j].of \in IdsOf(g[i])
                 /\ \A j, k \in RepliesAfter(g, i) : g[j].of = g[k].of => j = k
            ELSE g[i].calls = <<>>
      BY <1>1, <1>9, <2>1, Zenon DEF Tidy
    <3>2. /\ h[i] = g[i] /\ RepliesAfter(h, i) = RepliesAfter(g, i)
          /\ \A j \in RepliesAfter(g, i) : h[j] = g[j]
      BY <1>2, <1>9, <1>10, <2>1
    <3> QED
      BY <3>1, <3>2, ZenonT(30)
  <2>2. CASE i = d
    <3>1. h[d] = g[d]
      BY <1>2, <1>3
    <3>2. IdsDiffer(h[d]) /\ IsAsk(h[d])
      BY <1>1, <1>3, <1>4, <3>1, Zenon DEF Tidy, d
    <3>3. ASSUME NEW j \in RepliesAfter(h, d) PROVE h[j].of \in IdsOf(h[d])
      <4>1. j - d \in 1 .. Len(cs) /\ h[j].of = cs[j - d].id
        BY <1>7, <1>11
      <4> QED
        BY <1>4, <3>1, <4>1 DEF IdsOf
    <3>4. ASSUME NEW j \in RepliesAfter(h, d), NEW k \in RepliesAfter(h, d), h[j].of = h[k].of
          PROVE  j = k
      <4>1. j \in d + 1 .. Len(h) /\ k \in d + 1 .. Len(h)
        BY <1>11
      <4>2. j - d = k - d /\ j \in Nat /\ k \in Nat
        <5>1. /\ h[j].of = cs[j - d].id /\ h[k].of = cs[k - d].id
              /\ j - d \in 1 .. Len(cs) /\ k - d \in 1 .. Len(cs) /\ j \in Nat /\ k \in Nat
          BY <1>7, <4>1
        <5>2. cs[j - d].id = cs[k - d].id
          BY <3>4, <5>1
        <5> QED
          BY <1>6, <5>1, <5>2, SMTT(20)
      <4> QED
        BY <1>2, <4>2
    <3> QED
      BY <2>2, <3>2, <3>3, <3>4
  <2>3. CASE i \in d + 1 .. Len(h)
    BY <1>7, <2>3
  <2> QED
    BY <1>8, <1>9, <2>1, <2>2, <2>3
<1>13. ASSUME NEW j \in 1 .. Len(h), h[j].who = "reply"
       PROVE  \E i \in 1 .. j - 1 : IsAsk(h[i]) /\ j \in RepliesAfter(h, i)
  <2>1. CASE j \in 1 .. d
    <3>1. PICK i \in 1 .. j - 1 : IsAsk(g[i]) /\ j \in RepliesAfter(g, i)
      BY <1>1, <1>2, <1>9, <1>13, <2>1, Zenon DEF Tidy
    <3>2. i \in 1 .. d /\ i < d
      BY <1>2, <2>1
    <3> QED
      BY <1>2, <1>10, <3>1, <3>2
  <2>2. CASE j \in d + 1 .. Len(h)
    <3>1. d \in 1 .. j - 1
      BY <1>2, <1>3, <2>2
    <3>2. IsAsk(h[d]) /\ j \in RepliesAfter(h, d)
      BY <1>2, <1>3, <1>4, <1>11, <2>2
    <3> QED
      BY <3>1, <3>2
  <2> QED
    BY <1>8, <2>1, <2>2
<1>14. Tidy(h)
  BY <1>12, <1>13, Zenon DEF Tidy
<1>15. ASSUME NEW i \in 1 .. Len(h), NEW a \in 1 .. Len(h[i].calls)
       PROVE  i \in 1 .. d /\ h[i] = g[i]
  <2>1. CASE i \in d + 1 .. Len(h)
    <3>1. Len(h[i].calls) = 0
      BY <1>7, <2>1
    <3> QED
      BY <3>1
  <2> QED
    BY <1>2, <1>8, <2>1
<1>16. UpTo(h, n)
  BY <1>9, <1>15 DEF UpTo
<1>17. ASSUME NEW i \in 1 .. Len(h)
       PROVE  h[i].turn = t /\ (i > 1 => h[i].who \in {"ask", "reply"}) /\ (IsAsk(h[i]) => h[i].calls # <<>>)
  <2>1. CASE i \in 1 .. d
    BY <1>2, <1>9, <2>1 DEF Own
  <2>2. CASE i \in d + 1 .. Len(h)
    BY <1>7, <2>2
  <2> QED
    BY <1>8, <2>1, <2>2
<1>18. ASSUME NEW i \in 1 .. Len(h), NEW j \in 1 .. Len(h),
              NEW a \in 1 .. Len(h[i].calls), NEW b \in 1 .. Len(h[j].calls),
              h[i].calls[a].id = h[j].calls[b].id
       PROVE  i = j
  <2>1. h[i] = g[i] /\ h[j] = g[j] /\ i \in 1 .. Len(g) /\ j \in 1 .. Len(g)
    BY <1>9, <1>15
  <2> QED
    BY <1>18, <2>1 DEF Own
<1>19. h # <<>> /\ h[1] = User(t)
  <2>1. Len(h) # 0
    BY <1>2, <1>3
  <2> QED
    BY <1>1, <1>2, <1>3, <2>1
<1>20. Own(t, h)
  BY <1>2, <1>14, <1>17, <1>18, <1>19, Zenon DEF Own
<1> QED
  BY <1>16, <1>20 DEF h

(* Closing keeps all of them.                                               *)
LEMMA OwnCloses ==
  ASSUME NEW t \in Turns, NEW g, Own(t, g), NEW n, UpTo(g, n)
  PROVE  /\ Own(t, Close(g)) /\ UpTo(Close(g), n)
         /\ \A i \in 1 .. Len(g) : \E p \in 1 .. Len(Close(g)) : Close(g)[p] = g[i]
<1> DEFINE h == Close(g)
<1>1. g \in Seq(Message) /\ g # <<>> /\ g[1] = User(t) /\ Tidy(g)
  BY DEF Own
<1>2. h \in Seq(Message) /\ Tidy(h) /\ \E P : Spread(g, h, P)
  BY <1>1, CloseTidy, CloseSpreads
<1> HIDE DEF h
<1>3. PICK P : Spread(g, h, P)
  BY <1>2
<1>4. \A i \in 1 .. Len(g) : P[i] \in 1 .. Len(h) /\ P[i] \in Nat /\ h[P[i]] = g[i] /\ i \in Nat
  BY <1>1, <1>3, SpreadPlaces
<1>5. ASSUME NEW p \in 1 .. Len(h)
      PROVE  \/ \E i \in 1 .. Len(g) : p = P[i] /\ h[p] = g[i]
             \/ h[p].who = "reply" /\ h[p].turn = t /\ h[p].calls = <<>> /\ ~IsAsk(h[p])
  <2>1. ASSUME NEW i \in 1 .. Len(g), NEW c \in 1 .. Len(g[i].calls), h[p] = ReplyTo(g[i].turn, g[i].calls[c])
        PROVE  h[p].who = "reply" /\ h[p].turn = t /\ h[p].calls = <<>> /\ ~IsAsk(h[p])
    <3>1. g[i].turn = t
      BY DEF Own
    <3> QED
      BY <2>1, <3>1 DEF ReplyTo, IsAsk
  <2> QED
    BY <1>1, <1>3, <2>1, CloseHolds
<1>6. 1 \in 1 .. Len(g) /\ P[1] = 1
  <2>1. 1 \in 1 .. Len(g)
    BY <1>1
  <2> QED
    BY <1>3, <2>1 DEF Spread
<1>7. h # <<>> /\ h[1] = User(t)
  <2>1. 1 \in 1 .. Len(h) /\ h[1] = g[1]
    BY <1>4, <1>6
  <2>2. h # <<>>
    BY <2>1
  <2> QED
    BY <1>1, <2>1, <2>2
<1>8. ASSUME NEW p \in 1 .. Len(h)
      PROVE  h[p].turn = t /\ (p > 1 => h[p].who \in {"ask", "reply"}) /\ (IsAsk(h[p]) => h[p].calls # <<>>)
  <2>1. ASSUME NEW i \in 1 .. Len(g), p = P[i], h[p] = g[i], p > 1
        PROVE  i > 1
    BY <1>4, <1>6, <2>1
  <2> QED
    BY <1>5, <2>1 DEF Own
<1>9. ASSUME NEW p \in 1 .. Len(h), NEW a \in 1 .. Len(h[p].calls)
      PROVE  \E i \in 1 .. Len(g) : p = P[i] /\ h[p] = g[i]
  <2>1. CASE h[p].calls = <<>>
    <3>1. Len(h[p].calls) = 0
      BY <2>1
    <3> QED
      BY <3>1
  <2> QED
    BY <1>5, <2>1
<1>10. UpTo(h, n)
  BY <1>9 DEF UpTo
<1>11. ASSUME NEW p \in 1 .. Len(h), NEW q \in 1 .. Len(h),
              NEW a \in 1 .. Len(h[p].calls), NEW b \in 1 .. Len(h[q].calls),
              h[p].calls[a].id = h[q].calls[b].id
       PROVE  p = q
  <2>1. PICK i \in 1 .. Len(g) : p = P[i] /\ h[p] = g[i]
    BY <1>9
  <2>2. PICK j \in 1 .. Len(g) : q = P[j] /\ h[q] = g[j]
    BY <1>9
  <2>3. i = j
    BY <1>11, <2>1, <2>2 DEF Own
  <2> QED
    BY <2>1, <2>2, <2>3
<1>12. Own(t, h)
  BY <1>2, <1>7, <1>8, <1>11, Zenon DEF Own
<1> QED
  BY <1>4, <1>10, <1>12 DEF h

(* No message stands in it twice.                                           *)
LEMMA OwnDiffer ==
  ASSUME NEW t \in Turns, NEW g, Own(t, g)
  PROVE  \A i, j \in 1 .. Len(g) : i # j => g[i] # g[j]
<1>1. g \in Seq(Message) /\ Tidy(g) /\ g[1] = User(t) /\ g # <<>>
  BY DEF Own
<1>2. SUFFICES ASSUME NEW i \in 1 .. Len(g), NEW j \in 1 .. Len(g), i # j, g[i] = g[j]
               PROVE  FALSE
  OBVIOUS
<1>3. i \in Nat /\ j \in Nat /\ g[1].who = "user"
  BY <1>1 DEF User
<1>4. CASE IsAsk(g[i])
  <2>1. g[i].calls # <<>> /\ Len(g[i].calls) \in Nat
    BY <1>1, <1>4, CallPlaces DEF Own
  <2>2. g[i].calls \in Seq(Calls)
    <3>1. g[i] \in Message
      BY <1>1
    <3> QED
      BY <3>1 DEF Message, Calls
  <2>3. 1 \in 1 .. Len(g[i].calls) /\ 1 \in 1 .. Len(g[j].calls)
    BY <1>2, <2>1, <2>2
  <2> QED
    BY <1>2, <2>3 DEF Own
<1>5. CASE g[i].who = "reply"
  <2>1. PICK a \in 1 .. i - 1 : IsAsk(g[a]) /\ i \in RepliesAfter(g, a)
    BY <1>1, <1>5, Zenon DEF Tidy
  <2>2. PICK b \in 1 .. j - 1 : IsAsk(g[b]) /\ j \in RepliesAfter(g, b)
    BY <1>1, <1>2, <1>5, Zenon DEF Tidy
  <2>3. a \in 1 .. Len(g) /\ b \in 1 .. Len(g)
    BY <1>3
  <2>4. g[i].of \in IdsOf(g[a]) /\ g[i].of \in IdsOf(g[b])
    BY <1>1, <1>2, <2>1, <2>2, <2>3, Zenon DEF Tidy
  <2>5. a = b
    <3>1. PICK c \in 1 .. Len(g[a].calls) : g[i].of = g[a].calls[c].id
      BY <2>4 DEF IdsOf
    <3>2. PICK e \in 1 .. Len(g[b].calls) : g[i].of = g[b].calls[e].id
      BY <2>4 DEF IdsOf
    <3> QED
      <4>1. \A x, y \in 1 .. Len(g) : \A m \in 1 .. Len(g[x].calls) : \A n \in 1 .. Len(g[y].calls) :
               g[x].calls[m].id = g[y].calls[n].id => x = y
        BY DEF Own
      <4>2. g[a].calls[c].id = g[b].calls[e].id
        BY <3>1, <3>2
      <4> QED
        BY <2>3, <4>1, <4>2, ZenonT(30)
  <2>6. i = j
    BY <1>1, <1>2, <2>1, <2>2, <2>3, <2>5, Zenon DEF Tidy
  <2> QED
    BY <1>2, <2>6
<1>6. CASE ~IsAsk(g[i]) /\ g[i].who # "reply"
  <2>1. i = 1 /\ j = 1
    BY <1>2, <1>3, <1>6 DEF Own, IsAsk
  <2> QED
    BY <1>2, <2>1
<1> QED
  BY <1>4, <1>5, <1>6

-----------------------------------------------------------------------------
(* What a thread holds: whole turns, one after the other.                   *)
Past(h) == h \in Seq(Message) /\ Tidy(h) /\ WholeTurns(h)

LEMMA TurnEnds ==
  ASSUME NEW t \in Turns, NEW g, Own(t, g)
  PROVE  LET e == Append(g, Say(t)) IN
         /\ e \in Seq(Message) /\ Tidy(e) /\ Len(e) = Len(g) + 1 /\ Len(g) \in Nat \ {0}
         /\ e[Len(e)] = Say(t) /\ e[1] = User(t) /\ e # <<>>
         /\ \A k \in 1 .. Len(g) : e[k] = g[k]
         /\ \A k \in 1 .. Len(e) : e[k].turn = t
<1> DEFINE e == Append(g, Say(t))
<1>1. g \in Seq(Message) /\ g # <<>> /\ g[1] = User(t) /\ Tidy(g) /\ \A k \in 1 .. Len(g) : g[k].turn = t
  BY DEF Own
<1>2. Say(t) \in Message /\ Say(t).who # "reply" /\ ~IsAsk(Say(t)) /\ Say(t).calls = <<>> /\ Say(t).turn = t
  BY MessagesTyped DEF Say, IsAsk
<1>3. /\ e \in Seq(Message) /\ Len(e) = Len(g) + 1 /\ Len(g) \in Nat /\ e[Len(g) + 1] = Say(t)
      /\ \A k \in 1 .. Len(g) : e[k] = g[k]
  BY <1>1, <1>2, AppendIs
<1>4. Tidy(e)
  <2>1. Tidy(<<Say(t)>>) /\ <<Say(t)>> \in Seq(Message) /\ <<Say(t)>>[1].who # "reply"
    BY <1>2, SingleTidy
  <2>2. Tidy(g \o <<Say(t)>>)
    BY <1>1, <2>1, TidyJoin
  <2> QED
    BY <1>1, <1>2, <2>2, AppendJoins
<1> HIDE DEF e
<1>5. Len(g) \in Nat \ {0} /\ 1 \in 1 .. Len(g)
  BY <1>1
<1>6. \A k \in 1 .. Len(e) : k \in 1 .. Len(g) \/ k = Len(g) + 1
  BY <1>3
<1>7. e # <<>>
  <2>1. Len(e) # 0
    BY <1>3
  <2> QED
    BY <2>1
<1> QED
  BY <1>1, <1>2, <1>3, <1>4, <1>5, <1>6, <1>7 DEF e

LEMMA PastGrows ==
  ASSUME NEW t \in Turns, NEW h, Past(h), NEW g, Own(t, g),
         \A i \in 1 .. Len(h) : h[i].turn # t
  PROVE  Past(h \o Append(g, Say(t)))
<1> DEFINE e == Append(g, Say(t))
           f == h \o e
           d == Len(h)
           n == Len(e)
<1>1. /\ e \in Seq(Message) /\ Tidy(e) /\ n = Len(g) + 1 /\ Len(g) \in Nat \ {0}
      /\ e[n] = Say(t) /\ e[1] = User(t) /\ e # <<>>
      /\ \A k \in 1 .. Len(g) : e[k] = g[k]
      /\ \A k \in 1 .. n : e[k].turn = t
  BY TurnEnds
<1> HIDE DEF e
<1>2. /\ h \in Seq(Message) /\ Tidy(h) /\ DOMAIN h = 1 .. d
      /\ \A i \in 1 .. d : h[i].who = "user" => \E j \in i .. d : Block(h, i, j)
      /\ \A i, j \in 1 .. d : i # j => h[i] # h[j]
      /\ h # <<>> => h[1].who = "user"
      /\ \A i \in 1 .. d - 1 : h[i].who = "say" => h[i + 1].who = "user"
  BY DEF Past, WholeTurns
<1>3. /\ f \in Seq(Message) /\ Len(f) = d + n /\ d \in Nat /\ n \in Nat
      /\ \A i \in 1 .. d : f[i] = h[i]
      /\ \A i \in 1 .. n : f[d + i] = e[i]
  <2>1. h \in Seq(Message) /\ e \in Seq(Message)
    BY <1>1 DEF Past
  <2>2. /\ h \o e \in Seq(Message) /\ Len(h \o e) = Len(h) + Len(e) /\ Len(h) \in Nat /\ Len(e) \in Nat
        /\ \A i \in 1 .. Len(h) : (h \o e)[i] = h[i]
        /\ \A i \in 1 .. Len(e) : (h \o e)[Len(h) + i] = e[i]
    BY <2>1, JoinIs
  <2> QED
    BY <2>2
<1>4. Tidy(f)
  <2>1. e[1].who # "reply"
    BY <1>1 DEF User
  <2> QED
    BY <1>1, <1>2, <2>1, TidyJoin
<1> HIDE DEF f, d, n
<1>5. DOMAIN f = 1 .. Len(f)
  BY <1>3
<1>6. ASSUME NEW i \in 1 .. Len(f)
      PROVE  i \in Nat /\ (i \in 1 .. d \/ (i > d /\ i - d \in 1 .. n /\ i = d + (i - d) /\ f[i] = e[i - d]))
  <2>1. i \notin 1 .. d => i - d \in 1 .. n /\ i = d + (i - d) /\ i > d
    BY <1>3
  <2> QED
    BY <1>3, <2>1
<1>7. ASSUME NEW k \in 1 .. n
      PROVE  /\ k = 1 \/ e[k].who # "user"
             /\ k = n \/ e[k].who # "say"
             /\ k # 1 /\ k # n => e[k].who \in {"ask", "reply"}
  <2>1. CASE k = n
    BY <1>1, <2>1 DEF Say
  <2>2. CASE k # n
    <3>1. k \in 1 .. Len(g) /\ e[k] = g[k]
      BY <1>1, <2>2
    <3>2. k # 1 => g[k].who \in {"ask", "reply"}
      BY <3>1 DEF Own
    <3>3. k = 1 => e[k].who = "user"
      BY <1>1 DEF User
    <3> QED
      BY <2>2, <3>1, <3>2, <3>3
  <2> QED
    BY <2>1, <2>2
<1>8. ASSUME NEW i \in 1 .. Len(f), f[i].who = "user"
      PROVE  \E j \in i .. Len(f) : Block(f, i, j)
  <2>1. CASE i \in 1 .. d
    <3>1. PICK j \in i .. d : Block(h, i, j)
      BY <1>2, <1>3, <1>8, <2>1
    <3>2. j \in 1 .. d /\ \A k \in i + 1 .. j - 1 : k \in 1 .. d
      BY <1>3, <2>1
    <3>3. Block(f, i, j)
      BY <1>3, <2>1, <3>1, <3>2 DEF Block
    <3>4. j \in i .. Len(f)
      BY <1>3, <2>1
    <3> QED
      BY <3>3, <3>4
  <2>2. CASE i \notin 1 .. d
    <3>1. i - d \in 1 .. n /\ f[i] = e[i - d] /\ i = d + (i - d)
      BY <1>6, <2>2
    <3>2. i - d = 1
      BY <1>7, <1>8, <3>1
    <3>3. f[i] = User(t) /\ User(t).turn = t /\ i = d + 1
      BY <1>1, <1>3, <3>1, <3>2 DEF User
    <3>4. n \in 1 .. n /\ f[d + n] = Say(t)
      BY <1>1, <1>3
    <3>5. ASSUME NEW k \in i + 1 .. (d + n) - 1
          PROVE  f[k].turn = t /\ f[k].who \in {"ask", "reply"}
      <4>1. k - d \in 1 .. n /\ k - d # 1 /\ k - d # n /\ k = d + (k - d)
        BY <1>3, <3>3
      <4>2. f[k] = e[k - d]
        BY <1>3, <4>1
      <4> QED
        BY <1>1, <1>7, <4>1, <4>2
    <3>6. Block(f, i, d + n)
      BY <3>3, <3>4, <3>5 DEF Block
    <3>7. d + n \in i .. Len(f)
      BY <1>1, <1>3, <3>3
    <3> QED
      BY <3>6, <3>7
  <2> QED
    BY <2>1, <2>2
<1>9. ASSUME NEW i \in 1 .. n, NEW j \in 1 .. n, i # j
      PROVE  e[i] # e[j]
  <2>1. CASE i = n \/ j = n
    <3>1. e[n].who = "say"
      BY <1>1 DEF Say
    <3> QED
      BY <1>7, <1>9, <2>1, <3>1
  <2>2. CASE i # n /\ j # n
    <3>1. i \in 1 .. Len(g) /\ j \in 1 .. Len(g)
      BY <1>1, <2>2
    <3>2. g[i] # g[j]
      BY <1>9, <3>1, OwnDiffer
    <3> QED
      BY <1>1, <3>1, <3>2
  <2> QED
    BY <2>1, <2>2
<1>10. ASSUME NEW i \in 1 .. Len(f), NEW j \in 1 .. Len(f), i # j
       PROVE  f[i] # f[j]
  <2>1. \A k \in 1 .. d : f[k] = h[k] /\ f[k].turn # t
    BY <1>3 DEF d
  <2>2. CASE i \in 1 .. d /\ j \in 1 .. d
    <3>1. h[i] # h[j]
      <4>1. \A k, l \in 1 .. d : k # l => h[k] # h[l]
        BY <1>2
      <4> QED
        BY <1>10, <2>2, <4>1
    <3> QED
      BY <2>1, <2>2, <3>1
  <2>3. CASE i \notin 1 .. d /\ j \notin 1 .. d
    <3>1. i - d \in 1 .. n /\ j - d \in 1 .. n /\ f[i] = e[i - d] /\ f[j] = e[j - d]
          /\ i = d + (i - d) /\ j = d + (j - d)
      BY <1>6, <2>3
    <3>2. i - d # j - d
      BY <1>10, <3>1
    <3> QED
      BY <1>9, <3>1, <3>2
  <2>4. ASSUME NEW k \in 1 .. Len(f), k \notin 1 .. d
        PROVE  f[k].turn = t
    BY <1>1, <1>6, <2>4
  <2> QED
    BY <2>1, <2>2, <2>3, <2>4
<1>11. f # <<>> => f[1].who = "user"
  <2>1. CASE d = 0
    <3>1. 1 \in 1 .. n /\ f[d + 1] = e[1]
      BY <1>1, <1>3
    <3> QED
      BY <1>1, <2>1, <3>1 DEF User
  <2>2. CASE d # 0
    <3>1. 1 \in 1 .. d
      BY <1>3, <2>2
    <3>2. h # <<>>
      BY <2>2 DEF d
    <3>3. h[1].who = "user"
      BY <1>2, <3>2
    <3> QED
      BY <1>3, <3>1, <3>3
  <2> QED
    BY <2>1, <2>2
<1>12. ASSUME NEW i \in 1 .. Len(f) - 1, f[i].who = "say"
       PROVE  f[i + 1].who = "user"
  <2>1. i \in 1 .. Len(f) /\ i + 1 \in 1 .. Len(f)
    BY <1>3
  <2>2. CASE i \in 1 .. d - 1
    <3>1. i \in 1 .. d /\ i + 1 \in 1 .. d
      BY <1>3, <2>2
    <3>2. f[i] = h[i] /\ f[i + 1] = h[i + 1]
      BY <1>3, <3>1
    <3>3. \A k \in 1 .. d - 1 : h[k].who = "say" => h[k + 1].who = "user"
      BY <1>2
    <3> QED
      BY <1>12, <2>2, <3>2, <3>3
  <2>3. CASE i = d
    <3>1. 1 \in 1 .. n /\ f[i + 1] = e[1]
      BY <1>1, <1>3, <2>3, SMTT(20)
    <3> QED
      BY <1>1, <3>1 DEF User
  <2>4. CASE i > d
    <3>1. i - d \in 1 .. n /\ i - d # n /\ f[i] = e[i - d]
      BY <1>3, <1>6, <2>1, <2>4
    <3> QED
      BY <1>7, <1>12, <3>1
  <2> QED
    BY <1>3, <2>1, <2>2, <2>3, <2>4
<1>13. WholeTurns(f)
  BY <1>5, <1>8, <1>10, <1>11, <1>12, Zenon DEF WholeTurns
<1> QED
  BY <1>3, <1>4, <1>13 DEF Past, f, e

-----------------------------------------------------------------------------
(* Requests.                                                                *)
LEMMA GreatestIs ==
  ASSUME NEW n \in Nat, NEW S \in SUBSET (1 .. n), S # {}
  PROVE  Greatest(S) \in S /\ \A y \in S : y <= Greatest(S)
<1> DEFINE T == {m \in Nat : \A y \in S : y <= m}
<1>1. n \in T
  OBVIOUS
<1>2. PICK m \in T : \A l \in T : m <= l
  <2>1. T \in SUBSET Nat /\ T # {}
    BY <1>1
  <2> HIDE DEF T
  <2> QED
    BY <2>1, LeastOf
<1>3. m \in Nat /\ \A y \in S : y <= m
  BY <1>2
<1>4. m \in S
  <2>1. SUFFICES ASSUME m \notin S PROVE FALSE
    OBVIOUS
  <2>2. \A y \in S : y <= m - 1 /\ y >= 1
    BY <1>3, <2>1
  <2>3. m - 1 \in Nat
    <3>1. PICK y \in S : y <= m - 1 /\ y >= 1
      BY <2>2
    <3>2. y \in Nat
      OBVIOUS
    <3> QED
      BY <1>3, <3>1, <3>2
  <2>4. m - 1 \in T
    BY <2>2, <2>3
  <2> HIDE DEF T
  <2> QED
    BY <1>2, <1>3, <2>4
<1>5. \E x \in S : \A y \in S : y <= x
  BY <1>3, <1>4
<1> QED
  BY <1>5 DEF Greatest

LEMMA RestIs ==
  ASSUME NEW S, NEW r \in Seq(S), NEW i \in 1 .. Len(r)
  PROVE  /\ SubSeq(r, i, Len(r)) \in Seq(S) /\ Len(r) \in Nat /\ i \in Nat
         /\ Len(SubSeq(r, i, Len(r))) = (Len(r) - i) + 1
         /\ \A k \in 1 .. (Len(r) - i) + 1 : SubSeq(r, i, Len(r))[k] = r[(i - 1) + k]
  OBVIOUS

(* Whatever past a thread gives, the turn's own messages after it make a    *)
(* request that providers accept, however it is trimmed.                    *)
LEMMA RequestsAccepted ==
  ASSUME NEW t \in Turns, NEW h \in Seq(Message), Tidy(h), NEW g, Own(t, g),
         NEW s \in Trims(Close(h \o g))
  PROVE  /\ WellFormed(s) /\ \E i \in DOMAIN s : s[i] = User(t)
         /\ s[Len(s)] = Close(h \o g)[Len(Close(h \o g))]
<1> DEFINE x == h \o g
           d == Len(h)
           r == Close(x)
<1>1. g \in Seq(Message) /\ g # <<>> /\ g[1] = User(t) /\ Tidy(g) /\ Len(g) \in Nat /\ 1 \in 1 .. Len(g)
  BY DEF Own
<1>2. g[1].who # "reply" /\ User(t).who = "user" /\ User(t).calls = <<>> /\ ~IsAsk(User(t))
  BY <1>1 DEF User, IsAsk
<1>3. x \in Seq(Message) /\ Tidy(x)
  BY <1>1, <1>2, TidyJoin
<1>4. /\ Len(x) = d + Len(g) /\ d \in Nat
      /\ \A i \in 1 .. d : x[i] = h[i]
      /\ \A i \in 1 .. Len(g) : x[d + i] = g[i]
  BY <1>1, JoinIs
<1> HIDE DEF x
<1>5. d + 1 \in 1 .. Len(x) /\ x[d + 1] = User(t) /\ x # <<>>
  <2>1. d + 1 \in 1 .. Len(x)
    BY <1>1, <1>4
  <2> QED
    BY <1>1, <1>3, <1>4, <2>1
<1>6. r \in Seq(Message) /\ Tidy(r) /\ AllAnswered(r) /\ \E P : Spread(x, r, P)
  BY <1>3, <1>5, CloseTidy, CloseSpreads
<1>7. s \in Trims(r) /\ Len(r) \in Nat /\ DOMAIN r = 1 .. Len(r)
  BY <1>6 DEF x
<1> HIDE DEF r, d
<1>8. PICK P : Spread(x, r, P)
  BY <1>6
<1> DEFINE U == {i \in DOMAIN r : r[i].who = "user"}
           a == Anchor(r)
<1>9. P[d + 1] \in 1 .. Len(r) /\ r[P[d + 1]] = User(t) /\ P[d + 1] \in Nat
  BY <1>3, <1>5, <1>8, SpreadPlaces
<1>10. a \in 1 .. Len(r) /\ a \in Nat /\ r[a].who = "user" /\ P[d + 1] <= a
  <2>1. U \in SUBSET (1 .. Len(r)) /\ P[d + 1] \in U
    BY <1>2, <1>7, <1>9
  <2>2. a = Greatest(U)
    BY DEF Anchor
  <2>3. a \in U /\ \A y \in U : y <= a
    <3> HIDE DEF U, a
    <3> QED
      BY <1>7, <2>1, <2>2, GreatestIs
  <2> QED
    BY <1>7, <2>1, <2>3
<1> HIDE DEF a
<1>11. r[a] = User(t)
  <2>1. ASSUME NEW i \in 1 .. Len(x), NEW c \in 1 .. Len(x[i].calls), r[a] = ReplyTo(x[i].turn, x[i].calls[c])
        PROVE  FALSE
    BY <1>10, <2>1 DEF ReplyTo
  <2>2. PICK i \in 1 .. Len(x) : a = P[i] /\ r[a] = x[i]
    BY <1>3, <1>8, <1>10, <2>1, CloseHolds
  <2>3. i \in Nat /\ ~ (i < d + 1)
    <3>1. i < d + 1 => P[i] < P[d + 1]
      BY <1>3, <1>5, <1>8, SpreadPlaces
    <3>2. i \in Nat /\ P[i] \in Nat
      BY <1>3, <1>8, SpreadPlaces
    <3> QED
      BY <1>9, <1>10, <2>2, <3>1, <3>2
  <2>4. i - d \in 1 .. Len(g) /\ i = d + (i - d)
    BY <1>1, <1>4, <2>3
  <2>5. r[a] = g[i - d]
    BY <1>4, <2>2, <2>4
  <2>6. i - d > 1 => g[i - d].who \in {"ask", "reply"}
    BY <2>4 DEF Own
  <2>7. i - d = 1
    BY <1>10, <2>4, <2>5, <2>6
  <2> QED
    BY <1>1, <2>5, <2>7
<1>12. ASSUME NEW i \in Starts(r)
       PROVE  LET z == SubSeq(r, i, Len(r)) IN
              /\ i \in 1 .. Len(r) /\ i \in Nat /\ z \in Seq(Message) /\ Tidy(z) /\ AllAnswered(z)
              /\ Len(z) = (Len(r) - i) + 1 /\ z[1].who # "reply" /\ z # <<>>
              /\ \A k \in 1 .. (Len(r) - i) + 1 : z[k] = r[(i - 1) + k]
  <2> DEFINE z == SubSeq(r, i, Len(r))
  <2>1. i \in 1 .. Len(r) /\ ~\E b \in 1 .. i - 1 : IsAsk(r[b]) /\ i \in RepliesAfter(r, b)
    BY <1>7 DEF Starts
  <2>2. r[i].who # "reply"
    BY <1>6, <2>1, Zenon DEF Tidy
  <2>3. /\ z \in Seq(Message) /\ i \in Nat
        /\ Len(z) = (Len(r) - i) + 1
        /\ \A k \in 1 .. (Len(r) - i) + 1 : z[k] = r[(i - 1) + k]
    BY <1>6, <2>1, RestIs
  <2> HIDE DEF z
  <2>4. EndsIn(r, i - 1, z)
    BY <1>7, <2>1, <2>3 DEF EndsIn
  <2>5. z[1] = r[i] /\ z # <<>>
    <3>1. 1 \in 1 .. (Len(r) - i) + 1 /\ (i - 1) + 1 = i
      BY <1>7, <2>1
    <3>2. Len(z) # 0
      BY <1>7, <2>1, <2>3
    <3> QED
      BY <2>3, <3>1, <3>2
  <2>6. Tidy(z) /\ AllAnswered(z)
    BY <1>6, <2>2, <2>3, <2>4, <2>5, TidyRest
  <2> QED
    BY <2>1, <2>2, <2>3, <2>5, <2>6 DEF z
<1>13. CASE s = r
  <2>1. WellFormed(s)
    BY <1>6, <1>13, WellFormedIs
  <2> QED
    BY <1>7, <1>10, <1>11, <1>13, <2>1 DEF r, x
<1>14. ASSUME NEW i \in Starts(r), i = a \/ i < a, s = SubSeq(r, i, Len(r))
       PROVE  WellFormed(s) /\ (\E k \in DOMAIN s : s[k] = User(t)) /\ s[Len(s)] = r[Len(r)]
  <2>1. /\ i \in 1 .. Len(r) /\ i \in Nat /\ s \in Seq(Message) /\ Tidy(s) /\ AllAnswered(s)
        /\ Len(s) = (Len(r) - i) + 1
        /\ \A k \in 1 .. (Len(r) - i) + 1 : s[k] = r[(i - 1) + k]
    BY <1>12, <1>14
  <2>2. WellFormed(s)
    BY <2>1, WellFormedIs
  <2>3. DOMAIN s = 1 .. Len(s)
    BY <2>1
  <2>4. (a - i) + 1 \in 1 .. (Len(r) - i) + 1 /\ (i - 1) + ((a - i) + 1) = a
        /\ (Len(r) - i) + 1 \in 1 .. (Len(r) - i) + 1 /\ (i - 1) + ((Len(r) - i) + 1) = Len(r)
    BY <1>7, <1>10, <1>14, <2>1
  <2>5. s[(a - i) + 1] = User(t) /\ s[Len(s)] = r[Len(r)]
    BY <1>11, <2>1, <2>4
  <2> QED
    BY <2>1, <2>2, <2>3, <2>4, <2>5
<1>15. ASSUME NEW i \in Starts(r), s = <<r[a]>> \o SubSeq(r, i, Len(r))
       PROVE  WellFormed(s) /\ (\E k \in DOMAIN s : s[k] = User(t)) /\ s[Len(s)] = r[Len(r)]
  <2> DEFINE z == SubSeq(r, i, Len(r))
             y == <<User(t)>>
  <2>1. /\ i \in 1 .. Len(r) /\ i \in Nat /\ z \in Seq(Message) /\ Tidy(z) /\ AllAnswered(z)
        /\ Len(z) = (Len(r) - i) + 1 /\ z[1].who # "reply"
        /\ \A k \in 1 .. (Len(r) - i) + 1 : z[k] = r[(i - 1) + k]
    BY <1>12
  <2>2. y \in Seq(Message) /\ Tidy(y) /\ AllAnswered(y) /\ Len(y) = 1 /\ y[1] = User(t)
    BY <1>2, MessagesTyped, SingleTidy
  <2>3. s = y \o z
    BY <1>11, <1>15
  <2> HIDE DEF y, z
  <2>4. WellFormed(s) /\ s \in Seq(Message)
    BY <2>1, <2>2, <2>3, TidyJoin, WellFormedIs
  <2>5. /\ Len(s) = 1 + Len(z) /\ s[1] = y[1]
        /\ \A k \in 1 .. Len(z) : s[1 + k] = z[k]
    <3>1. /\ Len(y \o z) = Len(y) + Len(z)
          /\ \A k \in 1 .. Len(y) : (y \o z)[k] = y[k]
          /\ \A k \in 1 .. Len(z) : (y \o z)[Len(y) + k] = z[k]
      <4>1. y \in Seq(Message) /\ z \in Seq(Message)
        BY <2>1, <2>2
      <4> QED
        BY <4>1, JoinIs
    <3> QED
      BY <2>2, <2>3, <3>1
  <2>6. Len(z) \in 1 .. Len(z) /\ (i - 1) + Len(z) = Len(r) /\ Len(z) \in Nat
    BY <1>7, <2>1
  <2>7. 1 \in DOMAIN s
    BY <2>4, <2>5, <2>6
  <2>8. s[Len(s)] = r[Len(r)]
    BY <2>1, <2>5, <2>6
  <2> QED
    BY <2>2, <2>4, <2>5, <2>7, <2>8
<1>16. \/ s = r
       \/ \E i \in Starts(r) : (i = a \/ i < a) /\ s = SubSeq(r, i, Len(r))
       \/ \E i \in Starts(r) : s = <<r[a]>> \o SubSeq(r, i, Len(r))
  BY <1>7 DEF Trims, a
<1> QED
  BY <1>13, <1>14, <1>15, <1>16 DEF r, x

-----------------------------------------------------------------------------
(* What a turn holds, by where it stands.                                   *)
TurnState ==
  [pc : PCs, history : Seq(Message), loaded : {"no", "yes"}, seen : GraphState,
   todo : Seq(Calls), replies : Seq(Message), fails : Nat, ids : Nat, pending : Checkpoint]

Early == {"idle", "start", "load"}
Working == {"model", "calling", "retrying", "tools", "limit", "errors"}
Shown(s, h) == \A call \in s : \E k \in 1 .. Len(h) : call \in Range(h[k].calls)

(* A batch under way: the calls of the last ask, up to where it stands.     *)
InBatch(t, r) ==
  LET g == r.seen.msgs
      cs == g[Len(g)].calls
      n == Len(r.replies)
  IN  /\ g[Len(g)] = AskFor(t, cs) /\ n + Len(r.todo) = Len(cs)
      /\ \A k \in 1 .. n : r.replies[k] = ReplyTo(t, cs[k])
      /\ \A k \in 1 .. Len(r.todo) : r.todo[k] = cs[n + k]

TurnGood(t, r, s) ==
  /\ Tidy(r.history)
  /\ r.pc \in Early => r = [NewTurn EXCEPT !.pc = r.pc] /\ s = {}
  /\ r.pc \in Working => Own(t, r.seen.msgs) /\ UpTo(r.seen.msgs, r.ids) /\ Shown(s, r.seen.msgs)
  /\ r.pc \in {"model", "calling", "retrying"} => r.replies = <<>>
  /\ r.pc = "tools" => InBatch(t, r)
  /\ r.pc \in {"save", "put"} => \E g : Own(t, g) /\ r.seen.msgs = Append(g, Say(t)) /\ Shown(s, g)
TurnsGood == \A t \in Turns : TurnGood(t, turn[t], ran[t])

(* What is saved, or may be yet.                                            *)
Saving == {t \in Turns : turn[t].pc = "put"}
Saves == store \cup late \cup {turn[t].pending : t \in Saving}
Told(c, t) == \A call \in ran[t] : \E m \in Range(c.msgs) : m.turn = t /\ call \in Range(m.calls)
SaveGood(c) ==
  /\ c \in Checkpoint /\ c.id < nextId /\ Past(c.msgs)
  /\ \A t \in Turns : Holds(c, t) => turn[t].pc \in {"put", "record", "answered", "failed"} /\ Told(c, t)
SavesGood ==
  /\ [id |-> 0, msgs |-> <<>>] \in store /\ nextId \in Nat
  /\ \A c \in Saves : SaveGood(c)
  /\ \A c, d \in Saves : c.id = d.id => c = d

(* While nothing ran beside a turn: one turn at a time, saves in the order  *)
(* of their ids, the newest one on top of all that is stored, and each turn *)
(* in a save run with what precedes it in view.                             *)
InView(c, t) == \E i \in DOMAIN c.msgs : c.msgs[i] = User(t) /\ turn[t].history = SubSeq(c.msgs, 1, i - 1)
InOrder ==
  /\ \A t, u \in Turns : UnderWay(t) /\ UnderWay(u) => t = u
  /\ \A c, d \in store : c.id <= d.id => IsPrefix(c.msgs, d.msgs)
  /\ \A c \in Saves : c.id + 1 = nextId => \A d \in store : IsPrefix(d.msgs, c.msgs)
  /\ \A t \in Turns : turn[t].pc \in Working \cup {"save"} /\ turn[t].loaded = "yes" => turn[t].history = Latest.msgs
  /\ \A t \in Saving : turn[t].pending.id + 1 = nextId
  /\ \A c \in Saves : \A t \in Turns : Holds(c, t) => InView(c, t)

ThreadTyped ==
  /\ turn \in [Turns -> TurnState] /\ ran \in [Turns -> SUBSET Calls]
  /\ ledger \in [Windows -> Nat] /\ beside \subseteq {"turn", "save"}
ThreadInv == ThreadTyped /\ TurnsGood /\ SavesGood /\ (beside = {} => InOrder)

(* A step of one turn that neither saves nor leaves a save behind.          *)
Moves(t, r, s) ==
  /\ r \in TurnState /\ s \in SUBSET Calls /\ TurnGood(t, r, s)
  /\ UnderWay(t) /\ turn[t].pc # "put" /\ r.pc # "put"
  /\ turn[t].pc = "record" => r.pc \in {"answered", "failed"} /\ r.history = turn[t].history /\ s = ran[t]
  /\ beside = {} /\ r.pc \in Working \cup {"save"} /\ r.loaded = "yes" => r.history = Latest.msgs
  /\ turn' = [turn EXCEPT ![t] = r] /\ ran' = [ran EXCEPT ![t] = s]
  /\ UNCHANGED <<store, late, nextId, beside>>

LEMMA MovesKeep ==
  ASSUME ThreadInv, NEW t \in Turns, NEW r, NEW s, Moves(t, r, s), ledger' \in [Windows -> Nat]
  PROVE  ThreadInv'
<1>1. /\ r \in TurnState /\ s \in SUBSET Calls /\ TurnGood(t, r, s)
      /\ turn' = [turn EXCEPT ![t] = r] /\ ran' = [ran EXCEPT ![t] = s]
      /\ store' = store /\ late' = late /\ nextId' = nextId /\ beside' = beside
  BY DEF Moves
<1>2. turn \in [Turns -> TurnState] /\ ran \in [Turns -> SUBSET Calls]
  BY DEF ThreadInv, ThreadTyped
<1>3. ThreadTyped'
  BY <1>1, <1>2 DEF ThreadInv, ThreadTyped
<1>4. /\ turn'[t] = r /\ ran'[t] = s
      /\ \A u \in Turns : u # t => turn'[u] = turn[u] /\ ran'[u] = ran[u]
  BY <1>1, <1>2
<1>5. TurnsGood'
  <2>1. \A u \in Turns : TurnGood(u, turn'[u], ran'[u])
    BY <1>1, <1>4 DEF ThreadInv, TurnsGood
  <2> QED
    BY <2>1 DEF TurnsGood
<1>6. /\ turn[t].pc # "put" /\ r.pc # "put" /\ UnderWay(t)
      /\ turn[t].pc = "record" => r.pc \in {"answered", "failed"} /\ r.history = turn[t].history /\ s = ran[t]
      /\ beside = {} /\ r.pc \in Working \cup {"save"} /\ r.loaded = "yes" => r.history = Latest.msgs
  BY DEF Moves
<1>7. Saving' = Saving /\ \A u \in Saving : turn'[u].pending = turn[u].pending
  BY <1>4, <1>6 DEF Saving
<1>8. Saves' = Saves
  <2>1. {turn'[u].pending : u \in Saving} = {turn[u].pending : u \in Saving}
    BY <1>7
  <2> QED
    BY <1>1, <1>7, <2>1 DEF Saves
<1>9. ASSUME NEW c \in Saves, NEW u \in Turns, Holds(c, u)
      PROVE  /\ turn[u].pc \in {"put", "record", "answered", "failed"} /\ Told(c, u)
             /\ turn'[u].pc \in {"put", "record", "answered", "failed"}
             /\ turn'[u].history = turn[u].history /\ ran'[u] = ran[u]
  <2>1. turn[u].pc \in {"put", "record", "answered", "failed"} /\ Told(c, u)
    BY <1>9 DEF ThreadInv, SavesGood, SaveGood
  <2>2. CASE u = t
    <3>1. turn[t].pc = "record"
      BY <1>6, <2>1, <2>2 DEF UnderWay
    <3> QED
      BY <1>4, <1>6, <2>1, <2>2, <3>1
  <2>3. CASE u # t
    BY <1>4, <2>1, <2>3
  <2> QED
    BY <2>2, <2>3
<1>10. SavesGood'
  <2>1. ASSUME NEW c \in Saves PROVE SaveGood(c)'
    <3>1. c \in Checkpoint /\ c.id < nextId /\ Past(c.msgs)
      BY DEF ThreadInv, SavesGood, SaveGood
    <3>2. ASSUME NEW u \in Turns, Holds(c, u)
          PROVE  turn'[u].pc \in {"put", "record", "answered", "failed"} /\ Told(c, u)'
      BY <1>9, <3>2 DEF Told
    <3> QED
      BY <1>1, <3>1, <3>2 DEF SaveGood, Holds
  <2> QED
    BY <1>1, <1>8, <2>1 DEF ThreadInv, SavesGood
<1>11. ASSUME beside' = {} PROVE InOrder'
  <2>1. InOrder /\ beside = {}
    BY <1>1, <1>11 DEF ThreadInv
  <2>2. Latest' = Latest
    BY <1>1 DEF Latest
  <2>3. \A u \in Turns : UnderWay(u)' => UnderWay(u)
    BY <1>4, <1>6 DEF UnderWay
  <2>4. \A u, v \in Turns : UnderWay(u)' /\ UnderWay(v)' => u = v
    BY <2>1, <2>3 DEF InOrder
  <2>5. ASSUME NEW u \in Turns, turn'[u].pc \in Working \cup {"save"}, turn'[u].loaded = "yes"
        PROVE  turn'[u].history = Latest'.msgs
    BY <1>4, <1>6, <2>1, <2>2, <2>5 DEF InOrder
  <2>6. \A u \in Saving : turn'[u].pending.id + 1 = nextId
    BY <1>7, <2>1 DEF InOrder
  <2>7. ASSUME NEW c \in Saves, NEW u \in Turns, Holds(c, u)
        PROVE  InView(c, u)'
    <3>1. InView(c, u)
      BY <2>1, <2>7 DEF InOrder
    <3> QED
      BY <1>9, <2>7, <3>1 DEF InView
  <2>8. /\ \A c, d \in store : c.id <= d.id => IsPrefix(c.msgs, d.msgs)
        /\ \A c \in Saves : c.id + 1 = nextId => \A d \in store : IsPrefix(d.msgs, c.msgs)
    BY <2>1 DEF InOrder
  <2> QED
    BY <1>1, <1>7, <1>8, <2>4, <2>5, <2>6, <2>7, <2>8 DEF InOrder, Holds
<1> QED
  BY <1>3, <1>5, <1>10, <1>11 DEF ThreadInv

LEMMA StateIs ==
  ASSUME ThreadInv, NEW t \in Turns
  PROVE  /\ turn[t] \in TurnState /\ ran[t] \in SUBSET Calls /\ TurnGood(t, turn[t], ran[t])
         /\ turn[t].history \in Seq(Message) /\ Tidy(turn[t].history)
         /\ turn[t].seen \in GraphState /\ turn[t].seen.msgs \in Seq(Message)
         /\ turn[t].seen.usage \in [calls : Nat, known : BOOLEAN]
         /\ turn[t].ids \in Nat /\ turn[t].todo \in Seq(Calls) /\ turn[t].replies \in Seq(Message)
         /\ turn[t].pending \in Checkpoint
         /\ ran = [ran EXCEPT ![t] = ran[t]]
<1>1. turn[t] \in TurnState /\ ran \in [Turns -> SUBSET Calls] /\ TurnGood(t, turn[t], ran[t])
  BY DEF ThreadInv, ThreadTyped, TurnsGood
<1>2. Tidy(turn[t].history)
  BY <1>1 DEF TurnGood
<1>3. turn[t].seen \in GraphState
  BY <1>1 DEF TurnState
<1> QED
  BY <1>1, <1>2, <1>3 DEF TurnState, GraphState

LEMMA LatestIs ==
  ASSUME SavesGood
  PROVE  /\ Latest \in store /\ \A d \in store : d.id <= Latest.id
         /\ Latest \in Saves /\ Past(Latest.msgs) /\ Latest.msgs \in Seq(Message) /\ Tidy(Latest.msgs)
<1>1. /\ store # {} /\ nextId \in Nat
      /\ \A c \in store : c \in Saves /\ c.id \in Nat /\ c.id < nextId /\ Past(c.msgs)
  BY DEF SavesGood, SaveGood, Saves, Checkpoint
<1> DEFINE S == {n \in 1 .. nextId : \E c \in store : n = c.id + 1}
<1>2. S \in SUBSET (1 .. nextId) /\ S # {}
  <2>1. PICK c \in store : TRUE
    BY <1>1
  <2>2. c.id + 1 \in S
    BY <1>1
  <2> QED
    BY <2>2
<1>3. Greatest(S) \in S /\ \A y \in S : y <= Greatest(S)
  <2> HIDE DEF S
  <2> QED
    BY <1>1, <1>2, GreatestIs
<1>4. PICK c \in store : Greatest(S) = c.id + 1
  BY <1>3
<1>5. ASSUME NEW d \in store PROVE d.id <= c.id
  <2>1. d.id + 1 \in S
    BY <1>1
  <2>2. d.id + 1 <= c.id + 1
    <3> HIDE DEF S
    <3> QED
      BY <1>3, <1>4, <2>1
  <2> QED
    BY <1>1, <2>2
<1>6. Latest \in store /\ \A d \in store : d.id <= Latest.id
  BY <1>5 DEF Latest
<1> QED
  BY <1>1, <1>6 DEF Past

LEMMA FinishMoves ==
  ASSUME ThreadInv, NEW t \in Turns, UnderWay(t), turn[t].pc # "put",
         NEW p \in {"answered", "failed"}, Finish(t, p),
         NEW s \in SUBSET Calls, ran' = [ran EXCEPT ![t] = s], turn[t].pc = "record" => s = ran[t],
         UNCHANGED <<store, late, nextId, beside>>
  PROVE  \E r, z : Moves(t, r, z)
<1> DEFINE r == [NewTurn EXCEPT !.pc = p, !.history = turn[t].history]
<1>1. turn[t].history \in Seq(Message) /\ Tidy(turn[t].history)
  BY StateIs
<1>2. <<>> \in Seq(Message) /\ <<>> \in Seq(Calls)
  OBVIOUS
<1>3. r \in TurnState /\ r.pc = p /\ r.history = turn[t].history
  BY <1>1, <1>2 DEF TurnState, NewTurn, NewState, NoUsage, GraphState, Checkpoint, PCs
<1>4. TurnGood(t, r, s)
  BY <1>1, <1>3 DEF TurnGood, Early, Working
<1>5. turn' = [turn EXCEPT ![t] = r]
  BY DEF Finish, Set
<1> HIDE DEF r
<1>6. Moves(t, r, s)
  BY <1>3, <1>4, <1>5 DEF Moves, Working
<1> QED
  BY <1>6

(* The turn goes on where nothing new is asked of its messages.             *)
LEMMA GotoMoves ==
  ASSUME ThreadInv, NEW t \in Turns, NEW p,
         \/ turn[t].pc = "start" /\ p = "load"
         \/ turn[t].pc = "model" /\ p = "calling"
         \/ turn[t].pc = "calling" /\ p = "retrying"
         \/ turn[t].pc = "save" /\ p = "record",
         Goto(t, p), ran' = ran, UNCHANGED <<store, late, nextId, beside>>
  PROVE  \E r, z : Moves(t, r, z)
<1> DEFINE r == [turn[t] EXCEPT !.pc = p]
           s == ran[t]
<1>1. turn[t] \in TurnState /\ s \in SUBSET Calls /\ TurnGood(t, turn[t], s) /\ ran = [ran EXCEPT ![t] = s]
  BY StateIs
<1>2. /\ r \in TurnState /\ r.pc = p /\ r.history = turn[t].history /\ r.seen = turn[t].seen
      /\ r.ids = turn[t].ids /\ r.replies = turn[t].replies /\ r.loaded = turn[t].loaded
  BY <1>1 DEF TurnState, PCs
<1>3. turn[t].pc = "start" => r = [NewTurn EXCEPT !.pc = r.pc] /\ s = {}
  BY <1>1, <1>2 DEF TurnGood, Early, NewTurn
<1>4. TurnGood(t, r, s)
  <2> HIDE DEF r, s
  <2>1. turn[t].pc \in {"model", "calling"} => turn[t].pc \in Working
    BY DEF Working
  <2>2. p \in {"load", "calling", "retrying", "record"}
    OBVIOUS
  <2> QED
    BY <1>1, <1>2, <1>3, <2>1, <2>2 DEF TurnGood, Early, Working
<1>5. turn' = [turn EXCEPT ![t] = r]
  BY DEF Goto, Set
<1> HIDE DEF r, s
<1>6. beside = {} /\ r.pc \in Working \cup {"save"} /\ r.loaded = "yes" => r.history = Latest.msgs
  <2>1. r.pc \in Working \cup {"save"} => turn[t].pc \in Working
    BY <1>2 DEF Working
  <2> QED
    BY <1>2, <2>1 DEF ThreadInv, InOrder
<1>7. UnderWay(t) /\ turn[t].pc # "put" /\ r.pc # "put" /\ turn[t].pc # "record"
  BY <1>2 DEF UnderWay
<1>8. Moves(t, r, s)
  BY <1>1, <1>2, <1>4, <1>5, <1>6, <1>7 DEF Moves
<1> QED
  BY <1>8

LEMMA FirstGateMoves ==
  ASSUME ThreadInv, NEW t \in Turns, FirstGate(t)
  PROVE  (\E r, s : Moves(t, r, s)) /\ UNCHANGED ledger
<1>1. UnderWay(t) /\ turn[t].pc = "start"
  BY DEF FirstGate, UnderWay
<1>2. ran' = ran /\ UNCHANGED <<store, late, nextId, beside, ledger>>
  BY DEF FirstGate
<1>3. CASE Goto(t, "load")
  BY <1>1, <1>2, <1>3, GotoMoves
<1>4. CASE Finish(t, "answered") \/ Finish(t, "failed")
  BY <1>1, <1>2, <1>4, StateIs, FinishMoves
<1> QED
  BY <1>2, <1>3, <1>4 DEF FirstGate, Fail

LEMMA LoadMoves ==
  ASSUME ThreadInv, NEW t \in Turns, Load(t)
  PROVE  (\E r, s : Moves(t, r, s)) /\ UNCHANGED ledger
<1> DEFINE begun == [NewState EXCEPT !.msgs = <<User(t)>>]
           s == ran[t]
<1>1. turn[t].pc = "load" /\ ran' = ran /\ UNCHANGED <<store, late, nextId, beside, ledger>>
  BY DEF Load, Readable
<1>2. /\ turn[t] \in TurnState /\ s \in SUBSET Calls /\ TurnGood(t, turn[t], s) /\ ran = [ran EXCEPT ![t] = s]
      /\ Tidy(turn[t].history)
  BY StateIs
<1>3. turn[t] = [NewTurn EXCEPT !.pc = turn[t].pc] /\ s = {}
  BY <1>1, <1>2 DEF TurnGood, Early
<1>4. turn[t].replies = <<>> /\ turn[t].ids = 0
  BY <1>3 DEF NewTurn
<1>5. Own(t, <<User(t)>>) /\ UpTo(<<User(t)>>, 0) /\ <<User(t)>> \in Seq(Message)
  BY OwnBegins DEF Own
<1>6. begun \in GraphState /\ begun.msgs = <<User(t)>>
  BY <1>5 DEF GraphState, NewState, NoUsage
<1> HIDE DEF begun
<1>7. \E l \in {"yes", "no"}, h \in Seq(Message) :
        /\ turn' = [turn EXCEPT ![t] = [turn[t] EXCEPT !.pc = "model", !.loaded = l, !.history = h, !.seen = begun]]
        /\ Tidy(h) /\ (l = "yes" => h = Latest.msgs)
  <2>1. Latest.msgs \in Seq(Message) /\ Tidy(Latest.msgs)
    BY LatestIs DEF ThreadInv
  <2>2. CASE Set(t, [turn[t] EXCEPT !.pc = "model", !.loaded = "yes", !.history = Latest.msgs, !.seen = begun])
    BY <2>1, <2>2 DEF Set
  <2>3. CASE Set(t, [turn[t] EXCEPT !.pc = "model", !.loaded = NotLoaded, !.seen = begun])
    <3> DEFINE h == turn[t].history
    <3>1. [turn[t] EXCEPT !.pc = "model", !.loaded = NotLoaded, !.seen = begun]
            = [turn[t] EXCEPT !.pc = "model", !.loaded = "no", !.history = h, !.seen = begun]
      BY <1>2 DEF TurnState, NotLoaded
    <3>2. h \in Seq(Message)
      BY <1>2 DEF TurnState
    <3> QED
      BY <1>2, <2>3, <3>1, <3>2 DEF Set
  <2> QED
    BY <2>2, <2>3 DEF Load, begun
<1>8. PICK l \in {"yes", "no"}, h \in Seq(Message) :
        /\ turn' = [turn EXCEPT ![t] = [turn[t] EXCEPT !.pc = "model", !.loaded = l, !.history = h, !.seen = begun]]
        /\ Tidy(h) /\ (l = "yes" => h = Latest.msgs)
  BY <1>7
<1> DEFINE r == [turn[t] EXCEPT !.pc = "model", !.loaded = l, !.history = h, !.seen = begun]
<1>9. /\ r \in TurnState /\ r.pc = "model" /\ r.loaded = l /\ r.history = h /\ r.seen = begun
      /\ r.replies = <<>> /\ r.ids = 0
  BY <1>2, <1>4, <1>6 DEF TurnState, PCs
<1> HIDE DEF r, s
<1>10. TurnGood(t, r, s)
  BY <1>3, <1>5, <1>6, <1>8, <1>9 DEF TurnGood, Early, Working, Shown
<1>11. turn' = [turn EXCEPT ![t] = r]
  BY <1>8 DEF r
<1>12. Moves(t, r, s)
  BY <1>1, <1>2, <1>8, <1>9, <1>10, <1>11 DEF Moves, UnderWay
<1> QED
  BY <1>1, <1>12

LEMMA WorkMoves ==
  ASSUME ThreadInv, NEW t \in Turns, turn[t].pc \in Working,
         NEW r \in TurnState, NEW s \in SUBSET Calls, TurnGood(t, r, s), r.pc \in Working \cup {"save"},
         r.history = turn[t].history, r.loaded = turn[t].loaded,
         turn' = [turn EXCEPT ![t] = r], ran' = [ran EXCEPT ![t] = s],
         UNCHANGED <<store, late, nextId, beside>>
  PROVE  Moves(t, r, s)
<1>1. UnderWay(t) /\ turn[t].pc # "put" /\ turn[t].pc # "record" /\ r.pc # "put"
  BY DEF Working, UnderWay
<1>2. beside = {} /\ r.loaded = "yes" => r.history = Latest.msgs
  BY DEF ThreadInv, InOrder
<1> QED
  BY <1>1, <1>2 DEF Moves

(* What a working turn holds.                                               *)
LEMMA WorkingIs ==
  ASSUME ThreadInv, NEW t \in Turns, turn[t].pc \in Working
  PROVE  /\ Own(t, turn[t].seen.msgs) /\ UpTo(turn[t].seen.msgs, turn[t].ids)
         /\ Shown(ran[t], turn[t].seen.msgs) /\ UnderWay(t)
         /\ turn[t].pc # "put" /\ turn[t].pc # "record"
         /\ turn[t].pc \in {"model", "calling", "retrying"} => turn[t].replies = <<>>
         /\ turn[t].pc = "tools" => InBatch(t, turn[t])
<1>1. TurnGood(t, turn[t], ran[t])
  BY StateIs
<1> QED
  BY <1>1 DEF TurnGood, Working, UnderWay

LEMMA EndMoves ==
  ASSUME ThreadInv, NEW t \in Turns, turn[t].pc \in Working,
         NEW u \in [calls : Nat, known : BOOLEAN], End(t, u), ran' = ran,
         UNCHANGED <<store, late, nextId, beside>>
  PROVE  \E r, z : Moves(t, r, z)
<1> DEFINE g == turn[t].seen.msgs
           r == [turn[t] EXCEPT !.pc = "save", !.seen.msgs = Append(@, Say(t)), !.seen.usage = u]
           s == ran[t]
<1>1. /\ turn[t] \in TurnState /\ s \in SUBSET Calls /\ TurnGood(t, turn[t], s) /\ ran = [ran EXCEPT ![t] = s]
      /\ Tidy(turn[t].history) /\ turn[t].seen \in GraphState
  BY StateIs
<1>2. Own(t, g) /\ Shown(s, g)
  BY WorkingIs
<1>3. Append(g, Say(t)) \in Seq(Message)
  BY <1>2, TurnEnds
<1>4. r.seen = [turn[t].seen EXCEPT !.msgs = Append(g, Say(t)), !.usage = u]
  BY <1>1 DEF TurnState, GraphState
<1>5. r.seen \in GraphState /\ r.seen.msgs = Append(g, Say(t))
  <2> HIDE DEF r, g
  <2> DEFINE a == Append(g, Say(t))
             q == turn[t].seen
             x == [q EXCEPT !.msgs = a, !.usage = u]
  <2>1. q \in GraphState /\ a \in Seq(Message)
    BY <1>1, <1>3
  <2>2. x \in GraphState /\ x.msgs = a
    <3> HIDE DEF q, a
    <3> QED
      BY <2>1 DEF GraphState
  <2>3. r.seen = x
    BY <1>4
  <2> HIDE DEF x, a, q
  <2>4. r.seen \in GraphState /\ r.seen.msgs = a
    BY <2>2, <2>3
  <2> QED
    BY <2>4 DEF a
<1>6. r \in TurnState /\ r.pc = "save" /\ r.history = turn[t].history /\ r.loaded = turn[t].loaded
  BY <1>1, <1>5 DEF TurnState, PCs
<1>7. turn' = [turn EXCEPT ![t] = r]
  BY DEF End, Set
<1> HIDE DEF r, s, g
<1>8. TurnGood(t, r, s)
  BY <1>1, <1>2, <1>5, <1>6 DEF TurnGood, Early, Working
<1>9. Moves(t, r, s)
  BY <1>1, <1>6, <1>7, <1>8, WorkMoves
<1> QED
  BY <1>9

LEMMA UsedTyped ==
  ASSUME NEW u \in [calls : Nat, known : BOOLEAN], NEW k \in BOOLEAN
  PROVE  Used(u, 1, k) \in [calls : Nat, known : BOOLEAN]
  BY DEF Used

LEMMA FailMoves ==
  ASSUME ThreadInv, NEW t \in Turns, turn[t].pc \in Working, Fail(t),
         NEW s \in SUBSET Calls, ran' = [ran EXCEPT ![t] = s],
         UNCHANGED <<store, late, nextId, beside>>
  PROVE  \E r, z : Moves(t, r, z)
<1>1. UnderWay(t) /\ turn[t].pc # "put" /\ turn[t].pc # "record"
  BY WorkingIs
<1> QED
  BY <1>1, FinishMoves DEF Fail

LEMMA GateMoves ==
  ASSUME ThreadInv, NEW t \in Turns, Gate(t)
  PROVE  (\E r, s : Moves(t, r, s)) /\ UNCHANGED ledger
<1> DEFINE u == turn[t].seen.usage
<1>1. /\ turn[t].pc = "model" /\ turn[t].pc \in Working
      /\ ran' = ran /\ UNCHANGED <<store, late, nextId, beside, ledger>>
      /\ u \in [calls : Nat, known : BOOLEAN] /\ ran = [ran EXCEPT ![t] = ran[t]] /\ ran[t] \in SUBSET Calls
  BY StateIs DEF Gate, Working
<1>2. End(t, u) \/ Goto(t, "calling") \/ Fail(t)
  BY DEF Gate
<1> HIDE DEF u
<1>3. CASE End(t, u)
  BY <1>1, <1>3, EndMoves
<1>4. CASE Goto(t, "calling")
  BY <1>1, <1>4, GotoMoves
<1>5. CASE Fail(t)
  BY <1>1, <1>5, FailMoves
<1> QED
  BY <1>1, <1>2, <1>3, <1>4, <1>5

LEMMA StopMoves ==
  ASSUME ThreadInv, NEW t \in Turns, Stop(t)
  PROVE  (\E r, s : Moves(t, r, s)) /\ UNCHANGED ledger
<1> DEFINE u == turn[t].seen.usage
<1>1. /\ turn[t].pc \in Working /\ End(t, u)
      /\ ran' = ran /\ UNCHANGED <<store, late, nextId, beside, ledger>>
      /\ u \in [calls : Nat, known : BOOLEAN]
  BY StateIs DEF Stop, Working
<1> HIDE DEF u
<1> QED
  BY <1>1, EndMoves

(* The model's message: its calls are numbered past all earlier ones, and   *)
(* nothing of them has run.                                                 *)
LEMMA AsksMoves ==
  ASSUME ThreadInv, NEW t \in Turns, turn[t].pc \in {"calling", "retrying"},
         NEW u \in [calls : Nat, known : BOOLEAN], NEW n \in Nat \ {0}, NEW tools \in [1 .. n -> ToolNames],
         Asks(t, u, NumberedCalls(t, tools)), ran' = ran, UNCHANGED <<store, late, nextId, beside>>
  PROVE  \E r, z : Moves(t, r, z)
<1> DEFINE g == turn[t].seen.msgs
           cs == NumberedCalls(t, tools)
           m == AskFor(t, cs)
           q == [turn[t].seen EXCEPT !.msgs = Append(@, m), !.usage = u]
           r == [turn[t] EXCEPT !.pc = Route(q), !.seen = q, !.todo = cs, !.ids = @ + Len(cs)]
           s == ran[t]
<1>1. /\ turn[t] \in TurnState /\ s \in SUBSET Calls /\ TurnGood(t, turn[t], s) /\ ran = [ran EXCEPT ![t] = s]
      /\ Tidy(turn[t].history) /\ turn[t].seen \in GraphState /\ turn[t].ids \in Nat
  BY StateIs
<1>2. turn[t].pc \in Working
  BY DEF Working
<1>3. Own(t, g) /\ UpTo(g, turn[t].ids) /\ Shown(s, g) /\ turn[t].replies = <<>> /\ g \in Seq(Message)
  <2>1. Own(t, g) /\ UpTo(g, turn[t].ids) /\ Shown(s, g) /\ turn[t].replies = <<>>
    BY <1>2, WorkingIs
  <2> HIDE DEF g
  <2> QED
    BY <2>1 DEF Own
<1>4. cs \in Seq(Calls) /\ Len(cs) = n /\ \A a \in 1 .. n : cs[a].id = turn[t].ids + a
  <2>1. DOMAIN tools = 1 .. n
    OBVIOUS
  <2>2. cs = [i \in 1 .. n |-> [id |-> turn[t].ids + i, tool |-> tools[i]]]
    BY <2>1 DEF NumberedCalls
  <2>3. \A i \in 1 .. n : [id |-> turn[t].ids + i, tool |-> tools[i]] \in Calls
    BY <1>1 DEF Calls
  <2>4. cs \in [1 .. n -> Calls]
    BY <2>2, <2>3
  <2> HIDE DEF cs
  <2> QED
    BY <2>2, <2>4
<1>5. turn' = [turn EXCEPT ![t] = r]
  BY DEF Asks, Set
<1>6. m \in Message /\ Append(g, m) \in Seq(Message)
  <2> HIDE DEF cs, g
  <2>1. m \in Message
    BY <1>4, MessagesTyped
  <2> QED
    BY <1>3, <2>1, AppendIs
<1>7. q \in GraphState /\ q.msgs = Append(g, m)
  <2> HIDE DEF cs, m
  <2> QED
    BY <1>1, <1>6 DEF GraphState
<1>8. Route(q) \in {"limit", "tools"}
  BY DEF Route
<1> HIDE DEF q, cs
<1>9. /\ r \in TurnState /\ r.pc \in {"limit", "tools"} /\ r.seen = q /\ r.todo = cs /\ r.replies = <<>>
      /\ r.ids = turn[t].ids + n /\ r.history = turn[t].history /\ r.loaded = turn[t].loaded
  <2> DEFINE p == Route(q)
             n2 == turn[t].ids + n
  <2>1. /\ p \in PCs /\ p \in {"limit", "tools"} /\ n2 \in Nat
        /\ r = [turn[t] EXCEPT !.pc = p, !.seen = q, !.todo = cs, !.ids = n2]
    BY <1>1, <1>4, <1>8 DEF PCs
  <2> HIDE DEF r, p, n2, s, g
  <2>2. /\ r \in TurnState /\ r.pc = p /\ r.seen = q /\ r.todo = cs /\ r.replies = turn[t].replies
        /\ r.ids = n2 /\ r.history = turn[t].history /\ r.loaded = turn[t].loaded
    BY <1>1, <1>4, <1>7, <2>1 DEF TurnState
  <2> QED
    BY <1>3, <2>1, <2>2 DEF n2
<1> HIDE DEF r, s, g
<1>10. Own(t, Append(g, m)) /\ UpTo(Append(g, m), turn[t].ids + n)
  BY <1>1, <1>3, <1>4, OwnAsks
<1>11. /\ Len(Append(g, m)) = Len(g) + 1 /\ Append(g, m)[Len(g) + 1] = m /\ Len(g) \in Nat
       /\ \A i \in 1 .. Len(g) : Append(g, m)[i] = g[i]
  <2> HIDE DEF m
  <2> QED
    BY <1>3, <1>6, AppendIs
<1>12. Shown(s, Append(g, m))
  BY <1>3, <1>11 DEF Shown
<1>13. InBatch(t, r)
  <2>1. r.seen.msgs[Len(r.seen.msgs)] = m /\ m.calls = cs
    BY <1>7, <1>9, <1>11 DEF AskFor
  <2> QED
    BY <1>4, <1>9, <2>1 DEF InBatch
<1> HIDE DEF m
<1>14. TurnGood(t, r, s)
  BY <1>1, <1>7, <1>9, <1>10, <1>12, <1>13 DEF TurnGood, Early, Working
<1>15. Moves(t, r, s)
  <2>1. r.pc \in Working
    BY <1>9 DEF Working
  <2> QED
    BY <1>1, <1>2, <1>5, <1>9, <1>14, <2>1, WorkMoves
<1> QED
  BY <1>15

LEMMA RespondsMoves ==
  ASSUME ThreadInv, NEW t \in Turns, turn[t].pc \in {"calling", "retrying"},
         NEW spent \in [calls : Nat, known : BOOLEAN], Responds(t, spent),
         ran' = ran, UNCHANGED <<store, late, nextId, beside>>
  PROVE  \E r, z : Moves(t, r, z)
<1>1. PICK k \in BOOLEAN :
        \/ End(t, Used(spent, 1, k))
        \/ \E n \in 1 .. Batch[t] : \E tools \in [1 .. n -> Wanted[t]] :
             Asks(t, Used(spent, 1, k), NumberedCalls(t, tools))
  BY DEF Responds
<1>2. Used(spent, 1, k) \in [calls : Nat, known : BOOLEAN] /\ turn[t].pc \in Working
  BY UsedTyped DEF Working
<1>3. CASE End(t, Used(spent, 1, k))
  BY <1>2, <1>3, EndMoves
<1>4. CASE \E n \in 1 .. Batch[t] : \E tools \in [1 .. n -> Wanted[t]] :
             Asks(t, Used(spent, 1, k), NumberedCalls(t, tools))
  <2>1. Batch[t] \in Nat /\ Wanted[t] \subseteq ToolNames
    BY TurnAssumption
  <2>2. PICK n \in 1 .. Batch[t] : \E tools \in [1 .. n -> Wanted[t]] :
             Asks(t, Used(spent, 1, k), NumberedCalls(t, tools))
    BY <1>4
  <2>3. PICK tools \in [1 .. n -> Wanted[t]] : Asks(t, Used(spent, 1, k), NumberedCalls(t, tools))
    BY <2>2
  <2>4. n \in Nat \ {0} /\ tools \in [1 .. n -> ToolNames]
    BY <2>1
  <2> QED
    BY <1>2, <2>3, <2>4, AsksMoves
<1> QED
  BY <1>1, <1>3, <1>4

LEMMA AnswerMoves ==
  ASSUME ThreadInv, NEW t \in Turns, Answer(t) \/ AnswerRetry(t)
  PROVE  (\E r, s : Moves(t, r, s)) /\ UNCHANGED ledger
<1> DEFINE u == turn[t].seen.usage
<1>1. /\ turn[t].pc \in {"calling", "retrying"} /\ turn[t].pc \in Working
      /\ ran' = ran /\ UNCHANGED <<store, late, nextId, beside, ledger>>
      /\ u \in [calls : Nat, known : BOOLEAN] /\ ran = [ran EXCEPT ![t] = ran[t]] /\ ran[t] \in SUBSET Calls
  BY StateIs DEF Answer, AnswerRetry, Working
<1>2. Rejected(t) \in [calls : Nat, known : BOOLEAN]
  BY <1>1, UsedTyped DEF Rejected
<1>3. \/ Responds(t, u) \/ Responds(t, Rejected(t)) \/ Fail(t) \/ End(t, Rejected(t))
      \/ turn[t].pc = "calling" /\ Goto(t, "retrying")
  BY DEF Answer, AnswerRetry
<1> HIDE DEF u
<1>4. CASE Responds(t, u) \/ Responds(t, Rejected(t))
  BY <1>1, <1>2, <1>4, RespondsMoves
<1>5. CASE Fail(t)
  BY <1>1, <1>5, FailMoves
<1>6. CASE End(t, Rejected(t))
  BY <1>1, <1>2, <1>6, EndMoves
<1>7. CASE turn[t].pc = "calling" /\ Goto(t, "retrying")
  BY <1>1, <1>7, GotoMoves
<1> QED
  BY <1>1, <1>3, <1>4, <1>5, <1>6, <1>7

LEMMA HeadIs ==
  ASSUME NEW S, NEW q \in Seq(S), q # <<>>
  PROVE  /\ Head(q) \in S /\ Head(q) = q[1] /\ Tail(q) \in Seq(S) /\ Len(q) \in Nat \ {0}
         /\ Len(Tail(q)) = Len(q) - 1 /\ \A k \in 1 .. Len(q) - 1 : Tail(q)[k] = q[k + 1]
  OBVIOUS

(* p answers the first calls of cs, q is the rest of them.                  *)
Answers(t, cs, p, q) ==
  /\ cs \in Seq(Calls) /\ q \in Seq(Calls) /\ p \in Seq(Message)
  /\ Len(p) + Len(q) = Len(cs)
  /\ \A k \in 1 .. Len(p) : p[k] = ReplyTo(t, cs[k])
  /\ \A k \in 1 .. Len(q) : q[k] = cs[Len(p) + k]

LEMMA NextCall ==
  ASSUME NEW t \in Turns, NEW cs, NEW p, NEW q, Answers(t, cs, p, q), q # <<>>
  PROVE  /\ Answers(t, cs, Append(p, ReplyTo(t, Head(q))), Tail(q))
         /\ Head(q) \in Range(cs) /\ Head(q) \in Calls
<1> DEFINE c == Head(q)
           m == ReplyTo(t, c)
           e == Append(p, m)
           y == Tail(q)
<1>0. /\ cs \in Seq(Calls) /\ q \in Seq(Calls) /\ p \in Seq(Message)
      /\ Len(p) + Len(q) = Len(cs)
      /\ \A k \in 1 .. Len(p) : p[k] = ReplyTo(t, cs[k])
      /\ \A k \in 1 .. Len(q) : q[k] = cs[Len(p) + k]
  BY DEF Answers
<1>1. /\ c \in Calls /\ c = q[1] /\ Tail(q) \in Seq(Calls) /\ Len(q) \in Nat \ {0}
      /\ Len(Tail(q)) = Len(q) - 1 /\ \A k \in 1 .. Len(q) - 1 : Tail(q)[k] = q[k + 1]
  BY <1>0, HeadIs
<1>2. m \in Message
  BY <1>1, MessagesTyped
<1>3. Len(p) \in Nat /\ Len(cs) \in Nat /\ m = ReplyTo(t, c) /\ e = Append(p, m)
  BY <1>0
<1> HIDE DEF c, m, e
<1>5. /\ e \in Seq(Message) /\ Len(e) = Len(p) + 1 /\ e[Len(p) + 1] = m
      /\ \A k \in 1 .. Len(p) : e[k] = p[k]
  BY <1>0, <1>2, <1>3, AppendIs
<1>6. c = cs[Len(p) + 1] /\ Len(p) + 1 \in 1 .. Len(cs)
  <2>1. 1 \in 1 .. Len(q)
    BY <1>1
  <2>2. q[1] = cs[Len(p) + 1]
    BY <1>0, <2>1
  <2>3. Len(p) + 1 \in 1 .. Len(cs)
    BY <1>0, <1>1, <1>3
  <2> QED
    BY <1>1, <2>2, <2>3
<1>7. ASSUME NEW k \in 1 .. Len(e) PROVE e[k] = ReplyTo(t, cs[k])
  <2>1. k \in 1 .. Len(p) \/ k = Len(p) + 1
    BY <1>3, <1>5
  <2>2. CASE k \in 1 .. Len(p)
    BY <1>0, <1>5, <2>2
  <2>3. CASE k = Len(p) + 1
    BY <1>3, <1>5, <1>6, <2>3
  <2> QED
    BY <2>1, <2>2, <2>3
<1>8. ASSUME NEW k \in 1 .. Len(Tail(q)) PROVE Tail(q)[k] = cs[Len(e) + k]
  <2>1. k \in 1 .. Len(q) - 1 /\ k + 1 \in 1 .. Len(q)
    BY <1>1
  <2>2. Len(p) + (k + 1) = Len(e) + k
    BY <1>3, <1>5
  <2>3. Tail(q)[k] = q[k + 1] /\ q[k + 1] = cs[Len(p) + (k + 1)]
    BY <1>0, <1>1, <2>1
  <2> QED
    BY <2>2, <2>3
<1>9. Len(e) + Len(Tail(q)) = Len(cs)
  BY <1>0, <1>1, <1>3, <1>5
<1>10. c \in Range(cs)
  BY <1>0, <1>6 DEF Range
<1>11. Answers(t, cs, e, y)
  <2> HIDE DEF y
  <2> QED
    BY <1>0, <1>1, <1>5, <1>7, <1>8, <1>9 DEF Answers, y
<1> QED
  BY <1>1, <1>10, <1>11 DEF c, m, e

(* One call of a batch is answered; it may have run.                        *)
LEMMA RepliedMoves ==
  ASSUME ThreadInv, NEW t \in Turns, turn[t].pc = "tools", turn[t].todo # <<>>,
         NEW f \in {0, 1}, Replied(t, f), NEW s,
         s = ran[t] \/ s = ran[t] \cup {Head(turn[t].todo)},
         ran' = [ran EXCEPT ![t] = s], UNCHANGED <<store, late, nextId, beside>>
  PROVE  \E r, z : Moves(t, r, z)
<1> DEFINE c == Head(turn[t].todo)
           g == turn[t].seen.msgs
           cs == g[Len(g)].calls
           p == turn[t].replies
           d == turn[t].todo
           e == Append(turn[t].replies, ReplyTo(t, c))
           q == Tail(turn[t].todo)
           x == turn[t].fails + f
           r == [turn[t] EXCEPT !.todo = Tail(@), !.replies = Append(@, ReplyTo(t, c)), !.fails = @ + f]
<1>1. /\ turn[t] \in TurnState /\ ran[t] \in SUBSET Calls /\ TurnGood(t, turn[t], ran[t])
      /\ Tidy(turn[t].history) /\ turn[t].seen \in GraphState /\ turn[t].replies \in Seq(Message)
      /\ turn[t].todo \in Seq(Calls)
  BY StateIs
<1>2. turn[t].pc \in Working
  BY DEF Working
<1>3. Own(t, g) /\ UpTo(g, turn[t].ids) /\ Shown(ran[t], g) /\ InBatch(t, turn[t]) /\ g \in Seq(Message)
  BY <1>2, WorkingIs DEF Own
<1>4. /\ Len(g) \in 1 .. Len(g) /\ cs \in Seq(Calls) /\ g[Len(g)] = AskFor(t, cs)
      /\ Len(p) + Len(d) = Len(cs)
      /\ \A k \in 1 .. Len(p) : p[k] = ReplyTo(t, cs[k])
      /\ \A k \in 1 .. Len(d) : d[k] = cs[Len(p) + k]
  <2>1. g # <<>> /\ g \in Seq(Message)
    BY <1>3 DEF Own
  <2>2. Len(g) \in 1 .. Len(g) /\ g[Len(g)] \in Message
    <3> HIDE DEF g
    <3> QED
      BY <2>1
  <2>3. cs \in Seq(Calls)
    BY <2>2 DEF Message, Calls
  <2> QED
    BY <1>3, <2>2, <2>3 DEF InBatch
<1>5. Answers(t, cs, e, q) /\ c \in Range(cs) /\ c \in Calls
  <2>1. Answers(t, cs, p, d)
    <3> HIDE DEF g, cs, p, d
    <3> QED
      BY <1>1, <1>4 DEF Answers, p, d
  <2>2. d # <<>>
    OBVIOUS
  <2> HIDE DEF g, cs, r
  <2> QED
    BY <2>1, <2>2, NextCall
<1>6. /\ e \in Seq(Message) /\ Len(e) + Len(q) = Len(cs) /\ q \in Seq(Calls)
      /\ \A k \in 1 .. Len(e) : e[k] = ReplyTo(t, cs[k])
      /\ \A k \in 1 .. Len(q) : q[k] = cs[Len(e) + k]
  <2> HIDE DEF g, cs, e, q
  <2> QED
    BY <1>5 DEF Answers
<1> HIDE DEF g, cs
<1>7. turn' = [turn EXCEPT ![t] = r]
  BY DEF Replied, Set
<1>8. x \in Nat /\ r = [turn[t] EXCEPT !.todo = q, !.replies = e, !.fails = x]
  BY <1>1 DEF TurnState
<1> HIDE DEF r, e, q, x, c
<1>9. /\ r \in TurnState /\ r.pc = "tools" /\ r.seen = turn[t].seen /\ r.todo = q
      /\ r.replies = e /\ r.ids = turn[t].ids /\ r.history = turn[t].history /\ r.loaded = turn[t].loaded
  BY <1>1, <1>6, <1>8 DEF TurnState
<1>10. s \in SUBSET Calls
  BY <1>1, <1>5 DEF c
<1>11. Shown(s, g)
  <2>1. c \in Range(g[Len(g)].calls)
    BY <1>5 DEF cs
  <2> QED
    BY <1>3, <1>4, <2>1 DEF Shown, c
<1>12. InBatch(t, r)
  <2>1. g[Len(g)] = AskFor(t, g[Len(g)].calls) /\ cs = g[Len(g)].calls /\ r.seen.msgs = g
    BY <1>4, <1>9 DEF cs, g
  <2> QED
    BY <1>6, <1>9, <2>1 DEF InBatch
<1>13. TurnGood(t, r, s)
  BY <1>1, <1>3, <1>9, <1>11, <1>12 DEF TurnGood, Early, Working, g
<1>14. Moves(t, r, s)
  BY <1>2, <1>7, <1>9, <1>10, <1>13, WorkMoves
<1> QED
  BY <1>14

LEMMA ToolCallMoves ==
  ASSUME ThreadInv, NEW t \in Turns, ToolCall(t)
  PROVE  (\E r, s : Moves(t, r, s)) /\ UNCHANGED ledger
<1> DEFINE c == Head(turn[t].todo)
           z == ran[t] \cup {c}
<1>1. /\ turn[t].pc = "tools" /\ turn[t].pc \in Working /\ turn[t].todo # <<>>
      /\ UNCHANGED <<store, late, nextId, beside, ledger>>
      /\ ran = [ran EXCEPT ![t] = ran[t]] /\ ran[t] \in SUBSET Calls /\ turn[t].todo \in Seq(Calls)
  BY StateIs DEF ToolCall, Working
<1>2. z \in SUBSET Calls
  BY <1>1, HeadIs
<1>3. CASE Blocked(t)
  BY <1>1, <1>3, RepliedMoves DEF Blocked
<1>4. CASE Execute(t)
  <2>1. ran' = [ran EXCEPT ![t] = z]
    BY <1>4 DEF Execute
  <2>2. Replied(t, 0) \/ Replied(t, 1) \/ Fail(t)
    BY <1>4 DEF Execute
  <2>3. CASE Replied(t, 0) \/ Replied(t, 1)
    BY <1>1, <2>1, <2>3, RepliedMoves
  <2>4. CASE Fail(t)
    <3> HIDE DEF z
    <3> QED
      BY <1>1, <1>2, <2>1, <2>4, FailMoves
  <2> QED
    BY <1>1, <2>2, <2>3, <2>4
<1>5. CASE Fail(t) /\ UNCHANGED ran
  BY <1>1, <1>5, FailMoves
<1> QED
  BY <1>1, <1>3, <1>4, <1>5 DEF ToolCall

(* The whole batch is answered: its replies join the turn's messages.       *)
LEMMA ToolsDoneMoves ==
  ASSUME ThreadInv, NEW t \in Turns, ToolsDone(t)
  PROVE  (\E r, s : Moves(t, r, s)) /\ UNCHANGED ledger
<1> DEFINE g == turn[t].seen.msgs
           cs == g[Len(g)].calls
           p == turn[t].replies
           q == [turn[t].seen EXCEPT !.msgs = @ \o turn[t].replies,
                 !.count = @ + Len(turn[t].replies), !.errors = @ + turn[t].fails]
           d == IF q.errors >= MaxToolErrors THEN "errors" ELSE "model"
           r == [turn[t] EXCEPT !.seen = q, !.replies = <<>>, !.fails = 0, !.pc = d]
           s == ran[t]
<1>1. /\ turn[t] \in TurnState /\ s \in SUBSET Calls /\ TurnGood(t, turn[t], s) /\ ran = [ran EXCEPT ![t] = s]
      /\ Tidy(turn[t].history) /\ turn[t].seen \in GraphState /\ p \in Seq(Message)
  BY StateIs
<1>2. /\ turn[t].pc = "tools" /\ turn[t].pc \in Working /\ turn[t].todo = <<>>
      /\ ran' = ran /\ UNCHANGED <<store, late, nextId, beside, ledger>>
  BY DEF ToolsDone, Working
<1>3. Own(t, g) /\ UpTo(g, turn[t].ids) /\ Shown(s, g) /\ InBatch(t, turn[t]) /\ g \in Seq(Message)
  BY <1>2, WorkingIs DEF Own
<1>4. CASE Fail(t)
  BY <1>1, <1>2, <1>4, FailMoves
<1>5. CASE Set(t, r)
  <2> DEFINE w == turn[t].todo
  <2>1. /\ g[Len(g)] = AskFor(t, cs) /\ Len(p) + Len(w) = Len(cs) /\ cs \in Seq(Calls)
        /\ \A k \in 1 .. Len(p) : p[k] = ReplyTo(t, cs[k])
    <3>1. g # <<>> /\ g \in Seq(Message)
      BY <1>3 DEF Own
    <3>2. g[Len(g)] \in Message
      <4> HIDE DEF g
      <4> QED
        BY <3>1
    <3>3. cs \in Seq(Calls)
      BY <3>2 DEF Message, Calls
    <3> QED
      BY <1>3, <3>3 DEF InBatch
  <2> HIDE DEF g, cs, p
  <2>2. Len(turn[t].todo) = 0 /\ Len(p) \in Nat
    BY <1>1, <1>2
  <2>3. Len(p) <= Len(cs)
    BY <2>1, <2>2
  <2>4. /\ g \o p \in Seq(Message) /\ \A i \in 1 .. Len(g) : (g \o p)[i] = g[i]
        /\ Len(g \o p) = Len(g) + Len(p) /\ Len(g) \in Nat
    BY <1>1, <1>3, JoinIs
  <2>5. Own(t, g \o p) /\ UpTo(g \o p, turn[t].ids)
    BY <1>1, <1>3, <2>1, <2>3, OwnReplies
  <2>6. q \in GraphState /\ q.msgs = g \o p
    <3>1. turn[t].seen.count + Len(p) \in Nat /\ turn[t].seen.errors + turn[t].fails \in Nat
      BY <1>1, <2>2, SMTT(30) DEF GraphState, TurnState
    <3> DEFINE x == turn[t].seen.count + Len(p)
               y == turn[t].seen.errors + turn[t].fails
               m == g \o p
    <3>2. q = [turn[t].seen EXCEPT !.msgs = m, !.count = x, !.errors = y]
      BY <1>1 DEF p, g
    <3> HIDE DEF q, x, y, m
    <3>3. q \in GraphState /\ q.msgs = m
      BY <1>1, <2>4, <3>1, <3>2 DEF GraphState, x, y, m
    <3> QED
      BY <3>3 DEF m
  <2>7. d \in {"errors", "model"} /\ d \in PCs /\ d \in Working
    BY DEF PCs, Working
  <2> HIDE DEF q, d
  <2>8. <<>> \in Seq(Message)
    OBVIOUS
  <2>9. /\ r \in TurnState /\ r.pc = d /\ r.seen = q /\ r.replies = <<>>
        /\ r.ids = turn[t].ids /\ r.history = turn[t].history /\ r.loaded = turn[t].loaded
    BY <1>1, <2>6, <2>7, <2>8 DEF TurnState
  <2>10. turn' = [turn EXCEPT ![t] = r]
    BY <1>5 DEF Set
  <2> HIDE DEF r, s, g, p, cs
  <2>11. Shown(s, g \o p)
    <3>1. \A i \in 1 .. Len(g) : i \in 1 .. Len(g \o p)
      BY <2>2, <2>4
    <3> QED
      BY <1>3, <2>4, <3>1 DEF Shown
  <2>12. TurnGood(t, r, s)
    BY <1>1, <2>5, <2>6, <2>7, <2>9, <2>11 DEF TurnGood, Early, Working
  <2>13. Moves(t, r, s)
    BY <1>1, <1>2, <2>7, <2>9, <2>10, <2>12, WorkMoves
  <2> QED
    BY <1>2, <2>13
<1> QED
  <2>1. Fail(t) \/ Set(t, r)
    BY DEF ToolsDone
  <2> QED
    BY <1>2, <1>4, <1>5, <2>1

(* The deadline: the open calls are closed, what ran stays in view.         *)
LEMMA TimeoutMoves ==
  ASSUME ThreadInv, NEW t \in Turns, Timeout(t)
  PROVE  (\E r, s : Moves(t, r, s)) /\ UNCHANGED ledger
<1> DEFINE g == turn[t].seen.msgs
           e == Append(Close(g), Say(t))
           q == [turn[t].seen EXCEPT !.msgs = e]
           r == [turn[t] EXCEPT !.pc = "save", !.todo = <<>>, !.replies = <<>>, !.fails = 0, !.seen = q]
           s == ran[t]
<1>1. /\ turn[t] \in TurnState /\ s \in SUBSET Calls /\ TurnGood(t, turn[t], s) /\ ran = [ran EXCEPT ![t] = s]
      /\ Tidy(turn[t].history) /\ turn[t].seen \in GraphState
  BY StateIs
<1>2. /\ turn[t].pc \in Working
      /\ ran' = ran /\ UNCHANGED <<store, late, nextId, beside, ledger>>
  BY DEF Timeout, Working
<1>3. Own(t, g) /\ UpTo(g, turn[t].ids) /\ Shown(s, g) /\ g \in Seq(Message)
  BY <1>2, WorkingIs DEF Own
<1>4. /\ Own(t, Close(g)) /\ \A i \in 1 .. Len(g) : \E p \in 1 .. Len(Close(g)) : Close(g)[p] = g[i]
  <2> HIDE DEF g
  <2> QED
    BY <1>3, OwnCloses
<1>5. e \in Seq(Message)
  BY <1>4, TurnEnds
<1>6. turn' = [turn EXCEPT ![t] = r]
  <2>1. [Progress(t) EXCEPT !.msgs = Append(Close(@), Say(t))] = q
    BY <1>1 DEF Progress, GraphState
  <2> HIDE DEF q
  <2> QED
    BY <2>1 DEF Timeout, Set
<1> HIDE DEF e
<1>7. q \in GraphState /\ q.msgs = e
  BY <1>1, <1>5 DEF GraphState
<1>8. <<>> \in Seq(Message) /\ <<>> \in Seq(Calls)
  OBVIOUS
<1> HIDE DEF q
<1>9. r \in TurnState /\ r.pc = "save" /\ r.seen = q /\ r.history = turn[t].history /\ r.loaded = turn[t].loaded
  BY <1>1, <1>7, <1>8 DEF TurnState, PCs
<1> HIDE DEF r, s, g
<1>10. Shown(s, Close(g))
  <2> SUFFICES ASSUME NEW call \in s PROVE \E k \in 1 .. Len(Close(g)) : call \in Range(Close(g)[k].calls)
    BY DEF Shown
  <2>1. PICK k \in 1 .. Len(g) : call \in Range(g[k].calls)
    BY <1>3 DEF Shown
  <2> QED
    BY <1>4, <2>1
<1>11. TurnGood(t, r, s)
  BY <1>1, <1>4, <1>7, <1>9, <1>10 DEF TurnGood, Early, Working, e
<1>12. Moves(t, r, s)
  BY <1>1, <1>2, <1>6, <1>9, <1>11, WorkMoves
<1> QED
  BY <1>2, <1>12

LEMMA RecordMoves ==
  ASSUME ThreadInv, NEW t \in Turns, Record(t)
  PROVE  (\E r, s : Moves(t, r, s)) /\ ledger' \in [Windows -> Nat]
<1>1. /\ UnderWay(t) /\ turn[t].pc = "record" /\ ran' = ran
      /\ UNCHANGED <<store, late, nextId, beside>> /\ Finish(t, "answered")
  BY DEF Record, UnderWay
<1>2. /\ turn[t].seen.usage \in [calls : Nat, known : BOOLEAN] /\ ran[t] \in SUBSET Calls
      /\ ran = [ran EXCEPT ![t] = ran[t]]
  BY StateIs
<1>3. Tokens(turn[t].seen.usage) \in Nat
  BY <1>2 DEF Tokens
<1>4. ledger' \in [Windows -> Nat]
  BY <1>3 DEF Record, Recorded, ThreadInv, ThreadTyped
<1> QED
  BY <1>1, <1>2, <1>4, FinishMoves

LEMMA CrashMoves ==
  ASSUME ThreadInv, NEW t \in Turns, Crash(t), turn[t].pc # "put"
  PROVE  (\E r, s : Moves(t, r, s)) /\ UNCHANGED ledger
<1>1. /\ UnderWay(t) /\ ran' = ran /\ UNCHANGED <<store, late, nextId, beside, ledger>> /\ Finish(t, "failed")
  BY DEF Crash, Fail
<1>2. ran[t] \in SUBSET Calls /\ ran = [ran EXCEPT ![t] = ran[t]]
  BY StateIs
<1> QED
  BY <1>1, <1>2, FinishMoves
-----------------------------------------------------------------------------
(* Steps that save.                                                         *)
LEMMA PrefixIs ==
  ASSUME NEW S, NEW s \in Seq(S), NEW r \in Seq(S)
  PROVE  IsPrefix(s, r) <=> Len(s) <= Len(r) /\ \A i \in 1 .. Len(s) : s[i] = r[i]
<1>1. ASSUME IsPrefix(s, r) PROVE Len(s) <= Len(r) /\ \A i \in 1 .. Len(s) : s[i] = r[i]
  <2>1. Len(s) <= Len(r) /\ SubSeq(s, 1, Len(s)) = SubSeq(r, 1, Len(s))
    BY <1>1 DEF IsPrefix
  <2>2. ASSUME NEW i \in 1 .. Len(s) PROVE s[i] = r[i]
    <3>1. SubSeq(s, 1, Len(s))[i] = s[i] /\ SubSeq(r, 1, Len(s))[i] = r[i]
      BY <2>1
    <3> QED
      BY <2>1, <3>1
  <2> QED
    BY <2>1, <2>2
<1>2. ASSUME Len(s) <= Len(r), \A i \in 1 .. Len(s) : s[i] = r[i] PROVE IsPrefix(s, r)
  <2> DEFINE x == SubSeq(s, 1, Len(s))
             y == SubSeq(r, 1, Len(s))
  <2>1. /\ x \in Seq(S) /\ y \in Seq(S) /\ Len(x) = Len(s) /\ Len(y) = Len(s) /\ Len(s) \in Nat
        /\ \A i \in 1 .. Len(s) : x[i] = s[i] /\ y[i] = r[i]
    BY <1>2
  <2> HIDE DEF x, y
  <2>2. x = y
    BY <1>2, <2>1
  <2> QED
    BY <1>2, <2>2 DEF IsPrefix, x, y
<1> QED
  BY <1>1, <1>2

LEMMA PrefixOrder ==
  ASSUME NEW S, NEW s \in Seq(S), NEW r \in Seq(S), NEW y \in Seq(S)
  PROVE  /\ IsPrefix(s, s) /\ IsPrefix(r, r \o y)
         /\ IsPrefix(s, r) => IsPrefix(s, r \o y)
<1>1. Len(s) \in Nat /\ Len(r) \in Nat /\ Len(y) \in Nat
  OBVIOUS
<1>2. IsPrefix(s, s)
  BY <1>1, PrefixIs
<1>3. /\ r \o y \in Seq(S) /\ Len(r \o y) = Len(r) + Len(y)
      /\ \A i \in 1 .. Len(r) : (r \o y)[i] = r[i]
  BY JoinIs
<1> DEFINE j == r \o y
<1> HIDE DEF j
<1>4. j \in Seq(S) /\ Len(j) = Len(r) + Len(y) /\ \A i \in 1 .. Len(r) : j[i] = r[i]
  BY <1>3 DEF j
<1>5. IsPrefix(r, j)
  BY <1>1, <1>4, PrefixIs
<1>6. ASSUME IsPrefix(s, r) PROVE IsPrefix(s, j)
  <2>1. Len(s) <= Len(r) /\ \A i \in 1 .. Len(s) : s[i] = r[i]
    BY <1>6, PrefixIs
  <2>2. Len(s) <= Len(j) /\ \A i \in 1 .. Len(s) : s[i] = j[i]
    BY <1>1, <1>4, <2>1
  <2> QED
    BY <1>4, <2>2, PrefixIs
<1> QED
  BY <1>2, <1>5, <1>6 DEF j

LEMMA BeginKeeps ==
  ASSUME ThreadInv, NEW t \in Turns, Begin(t)
  PROVE  ThreadInv'
<1> DEFINE r == [turn[t] EXCEPT !.pc = "start"]
<1>1. /\ turn[t].pc = "idle" /\ turn' = [turn EXCEPT ![t] = r]
      /\ store' = store /\ late' = late /\ nextId' = nextId /\ ledger' = ledger /\ ran' = ran
      /\ beside' = beside \cup {k \in {"turn"} : \E u \in Turns : UnderWay(u)}
  BY DEF Begin, Goto, Set
<1>2. turn[t] \in TurnState /\ TurnGood(t, turn[t], ran[t])
  BY StateIs
<1>3. turn[t] = [NewTurn EXCEPT !.pc = turn[t].pc] /\ ran[t] = {} /\ Tidy(turn[t].history)
  BY <1>1, <1>2 DEF TurnGood, Early
<1>4. r \in TurnState /\ r = [NewTurn EXCEPT !.pc = r.pc] /\ r.pc = "start" /\ r.history = turn[t].history
  BY <1>2, <1>3 DEF TurnState, PCs, NewTurn
<1>5. turn \in [Turns -> TurnState]
  BY DEF ThreadInv, ThreadTyped
<1> HIDE DEF r
<1>6. turn'[t] = r /\ \A u \in Turns : u # t => turn'[u] = turn[u]
  BY <1>1, <1>5
<1>7. ThreadTyped'
  <2>1. beside' \subseteq {"turn", "save"}
    BY <1>1 DEF ThreadInv, ThreadTyped
  <2> QED
    BY <1>1, <1>4, <1>5, <2>1 DEF ThreadInv, ThreadTyped
<1>8. TurnsGood'
  <2>1. TurnGood(t, r, ran[t])
    BY <1>3, <1>4 DEF TurnGood, Early, Working
  <2>2. \A u \in Turns : TurnGood(u, turn'[u], ran[u])
    BY <1>6, <2>1 DEF ThreadInv, TurnsGood
  <2> QED
    BY <1>1, <2>2 DEF TurnsGood
<1>9. Saving' = Saving /\ \A u \in Saving : u # t /\ turn'[u] = turn[u]
  BY <1>1, <1>4, <1>6 DEF Saving
<1>10. Saves' = Saves
  <2>1. {turn'[u].pending : u \in Saving} = {turn[u].pending : u \in Saving}
    BY <1>9
  <2> QED
    BY <1>1, <1>9, <2>1 DEF Saves
<1>11. ASSUME NEW c \in Saves, NEW u \in Turns, Holds(c, u)
       PROVE  /\ turn[u].pc \in {"put", "record", "answered", "failed"} /\ Told(c, u)
              /\ turn'[u] = turn[u]
  <2>1. turn[u].pc \in {"put", "record", "answered", "failed"} /\ Told(c, u)
    BY <1>11 DEF ThreadInv, SavesGood, SaveGood
  <2>2. u # t
    BY <1>1, <2>1
  <2> QED
    BY <1>6, <2>1, <2>2
<1>12. SavesGood'
  <2>1. ASSUME NEW c \in Saves PROVE SaveGood(c)'
    <3>1. c \in Checkpoint /\ c.id < nextId /\ Past(c.msgs)
      BY DEF ThreadInv, SavesGood, SaveGood
    <3>2. ASSUME NEW u \in Turns, Holds(c, u)
          PROVE  turn'[u].pc \in {"put", "record", "answered", "failed"} /\ Told(c, u)'
      BY <1>1, <1>11, <3>2 DEF Told
    <3> QED
      BY <1>1, <3>1, <3>2 DEF SaveGood, Holds
  <2> QED
    BY <1>1, <1>10, <2>1 DEF ThreadInv, SavesGood
<1>13. ASSUME beside' = {} PROVE InOrder'
  <2>1. InOrder /\ \A u \in Turns : ~UnderWay(u)
    BY <1>1, <1>13 DEF ThreadInv
  <2>2. \A u \in Turns : UnderWay(u)' => u = t
    BY <1>6, <2>1 DEF UnderWay
  <2>3. \A u \in Turns : turn'[u].pc \notin Working \cup {"save"}
    BY <1>4, <1>6, <2>1 DEF UnderWay, Working
  <2>4. Saving = {}
    BY <2>1 DEF Saving, UnderWay
  <2>5. ASSUME NEW c \in Saves, NEW u \in Turns, Holds(c, u)
        PROVE  InView(c, u)'
    <3>1. InView(c, u)
      BY <2>1, <2>5 DEF InOrder
    <3> QED
      BY <1>11, <2>5, <3>1 DEF InView
  <2>6. /\ \A c, d \in store : c.id <= d.id => IsPrefix(c.msgs, d.msgs)
        /\ \A c \in Saves : c.id + 1 = nextId => \A d \in store : IsPrefix(d.msgs, c.msgs)
    BY <2>1 DEF InOrder
  <2> QED
    BY <1>1, <1>9, <1>10, <2>2, <2>3, <2>4, <2>5, <2>6 DEF InOrder, Holds
<1> QED
  BY <1>7, <1>8, <1>12, <1>13 DEF ThreadInv

LEMMA WindowKeeps ==
  ASSUME ThreadInv, \/ \E w \in Windows : NewWindow(w)
                    \/ UNCHANGED vars
  PROVE  ThreadInv'
<1>1. /\ turn' = turn /\ store' = store /\ late' = late /\ nextId' = nextId /\ ran' = ran /\ beside' = beside
      /\ ledger' \in [Windows -> Nat]
  BY DEF NewWindow, vars, ThreadInv, ThreadTyped
<1>2. ThreadTyped' /\ TurnsGood'
  BY <1>1 DEF ThreadInv, ThreadTyped, TurnsGood
<1>3. Saving' = Saving /\ Saves' = Saves /\ Latest' = Latest
  BY <1>1 DEF Saving, Saves, Latest
<1>4. SavesGood'
  BY <1>1, <1>3 DEF ThreadInv, SavesGood, SaveGood, Holds, Told
<1>5. InOrder => InOrder'
  BY <1>1, <1>3 DEF InOrder, UnderWay, Holds, InView
<1> QED
  BY <1>1, <1>2, <1>4, <1>5 DEF ThreadInv

LEMMA RangeIs ==
  ASSUME NEW S, NEW s \in Seq(S)
  PROVE  Range(s) = {s[i] : i \in 1 .. Len(s)}
  BY DEF Range

LEMMA JoinRange ==
  ASSUME NEW x \in Seq(Message), NEW y \in Seq(Message)
  PROVE  Range(x \o y) = Range(x) \cup Range(y)
<1>1. /\ x \o y \in Seq(Message) /\ Len(x \o y) = Len(x) + Len(y) /\ Len(x) \in Nat /\ Len(y) \in Nat
      /\ \A i \in 1 .. Len(x) : (x \o y)[i] = x[i]
      /\ \A i \in 1 .. Len(y) : (x \o y)[Len(x) + i] = y[i]
  BY JoinIs
<1> DEFINE j == x \o y
<1>2. Range(x) = {x[i] : i \in 1 .. Len(x)} /\ Range(y) = {y[i] : i \in 1 .. Len(y)}
  BY RangeIs
<1> HIDE DEF j
<1>3. /\ j \in Seq(Message) /\ Len(j) = Len(x) + Len(y)
      /\ \A i \in 1 .. Len(x) : j[i] = x[i]
      /\ \A i \in 1 .. Len(y) : j[Len(x) + i] = y[i]
  BY <1>1 DEF j
<1>4. Range(j) = {j[i] : i \in 1 .. Len(j)}
  BY <1>3, RangeIs
<1>5. ASSUME NEW m, m \in Range(x) \/ m \in Range(y) PROVE m \in Range(j)
  <2>1. CASE m \in Range(x)
    <3>1. PICK i \in 1 .. Len(x) : m = x[i]
      BY <1>2, <2>1
    <3>2. i \in 1 .. Len(j) /\ m = j[i]
      BY <1>1, <1>3, <3>1
    <3> QED
      BY <1>4, <3>2
  <2>2. CASE m \in Range(y)
    <3>1. PICK i \in 1 .. Len(y) : m = y[i]
      BY <1>2, <2>2
    <3>2. Len(x) + i \in 1 .. Len(j) /\ m = j[Len(x) + i]
      BY <1>1, <1>3, <3>1
    <3> QED
      BY <1>4, <3>2
  <2> QED
    BY <1>5, <2>1, <2>2
<1>6. ASSUME NEW m \in Range(j) PROVE m \in Range(x) \/ m \in Range(y)
  <2>1. PICK i \in 1 .. Len(j) : m = j[i]
    BY <1>4
  <2>2. CASE i <= Len(x)
    <3>1. i \in 1 .. Len(x) /\ m = x[i]
      BY <1>1, <1>3, <2>1, <2>2
    <3> QED
      BY <1>2, <3>1
  <2>3. CASE ~(i <= Len(x))
    <3>1. i - Len(x) \in 1 .. Len(y) /\ i = Len(x) + (i - Len(x))
      BY <1>1, <1>3, <2>1, <2>3
    <3>2. m = y[i - Len(x)]
      BY <1>3, <2>1, <3>1
    <3> QED
      BY <1>2, <3>1, <3>2
  <2> QED
    BY <2>2, <2>3
<1> QED
  BY <1>5, <1>6 DEF j

(* The checkpoint made from the latest one and the turn's own messages.     *)
LEMMA NewSave ==
  ASSUME ThreadInv, NEW t \in Turns, turn[t].pc = "save"
  PROVE  LET p == [id |-> nextId, msgs |-> Extended(t)] IN
         /\ p \in Checkpoint /\ Past(p.msgs)
         /\ \A u \in Turns : Holds(p, u) => u = t \/ Holds(Latest, u)
         /\ Told(p, t)
         /\ \A u \in Turns : Told(Latest, u) => Told(p, u)
         /\ \A c \in store : IsPrefix(c.msgs, Latest.msgs) => IsPrefix(c.msgs, p.msgs)
         /\ \A u \in Turns : InView(Latest, u) => InView(p, u)
         /\ turn[t].history = Latest.msgs => InView(p, t)
<1> DEFINE h == Latest.msgs
           p == [id |-> nextId, msgs |-> Extended(t)]
<1>1. Latest \in Saves /\ Past(h) /\ h \in Seq(Message) /\ Tidy(h) /\ nextId \in Nat /\ SaveGood(Latest)
  BY LatestIs DEF ThreadInv, SavesGood
<1>2. PICK g : Own(t, g) /\ turn[t].seen.msgs = Append(g, Say(t)) /\ Shown(ran[t], g)
  <2>1. TurnGood(t, turn[t], ran[t])
    BY StateIs
  <2> QED
    BY <2>1 DEF TurnGood
<1> DEFINE e == Append(g, Say(t))
<1>3. /\ e \in Seq(Message) /\ Len(e) = Len(g) + 1 /\ Len(g) \in Nat \ {0}
      /\ e[1] = User(t) /\ \A k \in 1 .. Len(g) : e[k] = g[k]
      /\ \A k \in 1 .. Len(e) : e[k].turn = t
  BY <1>2, TurnEnds
<1>4. p.id = nextId /\ p.msgs = h \o e
  BY <1>2 DEF Extended
<1>5. ~Holds(Latest, t)
  BY <1>1 DEF SaveGood
<1> HIDE DEF e, p, h
<1>6. \A i \in 1 .. Len(h) : h[i].turn # t
  BY <1>1, <1>5 DEF Holds, Range, h
<1>7. Past(h \o e)
  BY <1>1, <1>2, <1>6, PastGrows DEF e
<1>8. h \o e \in Seq(Message)
  BY <1>7 DEF Past
<1>9. p \in Checkpoint /\ Past(p.msgs)
  BY <1>1, <1>4, <1>7, <1>8 DEF Checkpoint, p
<1>10. /\ \A m : m \in Range(h) \/ m \in Range(e) => m \in Range(p.msgs)
       /\ \A u \in Turns : Holds(p, u) => \/ \E m \in Range(h) : m.turn = u
                                          \/ \E m \in Range(e) : m.turn = u
  <2>1. h \in Seq(Message) /\ e \in Seq(Message)
    BY <1>1, <1>3
  <2>2. Range(h \o e) = Range(h) \cup Range(e)
    BY <2>1, JoinRange
  <2>3. Range(p.msgs) = Range(h) \cup Range(e)
    BY <1>4, <2>2
  <2> QED
    BY <2>3 DEF Holds
<1>11. Range(e) = {e[k] : k \in 1 .. Len(e)}
  BY <1>3, RangeIs
<1>12. \A u \in Turns : Holds(p, u) => u = t \/ Holds(Latest, u)
  <2>1. \A m \in Range(e) : m.turn = t
    BY <1>3, <1>11
  <2> QED
    BY <1>10, <2>1 DEF Holds, h
<1>13. Told(p, t)
  <2> SUFFICES ASSUME NEW call \in ran[t]
               PROVE  \E m \in Range(p.msgs) : m.turn = t /\ call \in Range(m.calls)
    BY DEF Told
  <2>1. PICK k \in 1 .. Len(g) : call \in Range(g[k].calls)
    BY <1>2 DEF Shown
  <2>2. k \in 1 .. Len(e) /\ e[k] = g[k]
    BY <1>3
  <2>3. e[k] \in Range(p.msgs) /\ e[k].turn = t /\ call \in Range(e[k].calls)
    BY <1>3, <1>10, <1>11, <2>1, <2>2
  <2> QED
    BY <2>3
<1>14. \A u \in Turns : Told(Latest, u) => Told(p, u)
  <2> SUFFICES ASSUME NEW u \in Turns, Told(Latest, u), NEW call \in ran[u]
               PROVE  \E m \in Range(p.msgs) : m.turn = u /\ call \in Range(m.calls)
    BY DEF Told
  <2>1. PICK m \in Range(h) : m.turn = u /\ call \in Range(m.calls)
    BY DEF Told, h
  <2> QED
    BY <1>10, <2>1
<1>15. ASSUME NEW c \in store, IsPrefix(c.msgs, h) PROVE IsPrefix(c.msgs, p.msgs)
  <2>1. c.msgs \in Seq(Message)
    BY DEF ThreadInv, SavesGood, SaveGood, Saves, Checkpoint
  <2> QED
    BY <1>1, <1>3, <1>4, <1>15, <2>1, PrefixOrder
<1>16. /\ Len(h \o e) = Len(h) + Len(e) /\ Len(h) \in Nat /\ Len(e) \in Nat
       /\ \A i \in 1 .. Len(h) : (h \o e)[i] = h[i]
       /\ \A i \in 1 .. Len(e) : (h \o e)[Len(h) + i] = e[i]
  <2>1. h \in Seq(Message) /\ e \in Seq(Message)
    BY <1>1, <1>3
  <2> QED
    BY ONLY <2>1, JoinIs
<1> DEFINE j == h \o e
<1> HIDE DEF j
<1>17. /\ j \in Seq(Message) /\ p.msgs = j /\ Len(j) = Len(h) + Len(e) /\ Len(h) \in Nat /\ Len(e) \in Nat
       /\ \A i \in 1 .. Len(h) : j[i] = h[i]
       /\ \A i \in 1 .. Len(e) : j[Len(h) + i] = e[i]
  BY <1>4, <1>8, <1>16 DEF j
<1>18. ASSUME NEW i \in 1 .. Len(h) + 1 PROVE SubSeq(j, 1, i - 1) = SubSeq(h, 1, i - 1)
  <2> DEFINE x == SubSeq(j, 1, i - 1)
             y == SubSeq(h, 1, i - 1)
  <2>1. /\ x \in Seq(Message) /\ y \in Seq(Message) /\ Len(x) = i - 1 /\ Len(y) = i - 1 /\ i - 1 \in Nat
        /\ \A k \in 1 .. i - 1 : x[k] = j[k] /\ y[k] = h[k]
    BY <1>1, <1>17
  <2>2. \A k \in 1 .. i - 1 : j[k] = h[k]
    BY <1>17
  <2> HIDE DEF x, y
  <2>3. x = y
    BY <2>1, <2>2
  <2> QED
    BY <2>3 DEF x, y
<1>19. ASSUME NEW u \in Turns, InView(Latest, u) PROVE InView(p, u)
  <2>1. PICK i \in DOMAIN h : h[i] = User(u) /\ turn[u].history = SubSeq(h, 1, i - 1)
    BY <1>19 DEF InView, h
  <2>2. i \in 1 .. Len(h)
    BY <1>1
  <2>3. i \in DOMAIN j /\ j[i] = User(u) /\ i \in 1 .. Len(h) + 1
    BY <1>17, <2>1, <2>2
  <2>4. turn[u].history = SubSeq(j, 1, i - 1)
    BY <1>18, <2>1, <2>3
  <2> QED
    BY <1>17, <2>3, <2>4 DEF InView
<1>20. ASSUME turn[t].history = h PROVE InView(p, t)
  <2> DEFINE i == Len(h) + 1
  <2>1. i \in DOMAIN j /\ i \in 1 .. Len(h) + 1
    BY <1>3, <1>17
  <2>2. j[i] = User(t)
    <3>1. 1 \in 1 .. Len(e)
      BY <1>3
    <3> QED
      BY <1>3, <1>17, <3>1
  <2>3. SubSeq(h, 1, i - 1) = h
    BY <1>1
  <2>4. turn[t].history = SubSeq(j, 1, i - 1)
    BY <1>18, <1>20, <2>1, <2>3
  <2> QED
    BY <1>17, <2>1, <2>2, <2>4 DEF InView
<1> QED
  BY <1>9, <1>12, <1>13, <1>14, <1>15, <1>19, <1>20 DEF p, h

LEMMA SaveKeeps ==
  ASSUME ThreadInv, NEW t \in Turns, turn[t].pc = "save", MaySave(t),
         Set(t, [turn[t] EXCEPT !.pc = "put", !.pending = [id |-> nextId, msgs |-> Extended(t)]]),
         nextId' = nextId + 1, UNCHANGED <<store, late, ledger, ran, beside>>
  PROVE  ThreadInv'
<1>0. PICK p : p = [id |-> nextId, msgs |-> Extended(t)]
  OBVIOUS
<1> DEFINE r == [turn[t] EXCEPT !.pc = "put", !.pending = p]
<1>1. /\ p \in Checkpoint /\ Past(p.msgs) /\ p.id = nextId
      /\ \A u \in Turns : Holds(p, u) => u = t \/ Holds(Latest, u)
      /\ Told(p, t)
      /\ \A u \in Turns : Told(Latest, u) => Told(p, u)
      /\ \A c \in store : IsPrefix(c.msgs, Latest.msgs) => IsPrefix(c.msgs, p.msgs)
      /\ \A u \in Turns : InView(Latest, u) => InView(p, u)
      /\ turn[t].history = Latest.msgs => InView(p, t)
  BY <1>0, NewSave
<1>2. turn' = [turn EXCEPT ![t] = r]
  BY <1>0 DEF Set
<1>3. turn[t] \in TurnState /\ TurnGood(t, turn[t], ran[t]) /\ Tidy(turn[t].history)
  BY StateIs
<1>4. /\ r \in TurnState /\ r.pc = "put" /\ r.pending = p /\ r.seen = turn[t].seen
      /\ r.history = turn[t].history
  BY <1>1, <1>3 DEF TurnState, PCs
<1> HIDE DEF r
<1>5. TurnGood(t, r, ran[t])
  BY <1>3, <1>4 DEF TurnGood, Early, Working
<1>6. /\ turn \in [Turns -> TurnState] /\ ran \in [Turns -> SUBSET Calls]
      /\ store' = store /\ late' = late /\ ledger' = ledger /\ ran' = ran /\ beside' = beside
  BY DEF ThreadInv, ThreadTyped
<1>7. turn'[t] = r /\ \A u \in Turns : u # t => turn'[u] = turn[u]
  BY <1>2, <1>6
<1>8. ThreadTyped'
  BY <1>2, <1>4, <1>6 DEF ThreadInv, ThreadTyped
<1>9. TurnsGood'
  <2>1. \A u \in Turns : TurnGood(u, turn'[u], ran[u])
    BY <1>5, <1>7 DEF ThreadInv, TurnsGood
  <2> QED
    BY <1>6, <2>1 DEF TurnsGood
<1>10. t \notin Saving /\ Saving' = Saving \cup {t} /\ Latest' = Latest
  BY <1>4, <1>6, <1>7 DEF Saving, Latest
<1>11. Saves' = Saves \cup {p}
  <2>1. {turn'[u].pending : u \in Saving'} = {turn[u].pending : u \in Saving} \cup {p}
    <3>1. \A u \in Saving : u \in Turns /\ u # t
      BY <1>10 DEF Saving
    <3>2. \A u \in Saving : turn'[u].pending = turn[u].pending
      BY <1>7, <3>1
    <3>3. turn'[t].pending = p
      BY <1>4, <1>7
    <3> QED
      BY <1>10, <3>2, <3>3
  <2>2. Saves' = store \cup late \cup {turn'[u].pending : u \in Saving'}
    BY <1>6 DEF Saves
  <2>3. Saves = store \cup late \cup {turn[u].pending : u \in Saving}
    BY DEF Saves
  <2> QED
    BY <2>1, <2>2, <2>3
<1>12. \A c \in Saves : SaveGood(c) /\ c.id \in Nat /\ c.id < nextId
  BY DEF ThreadInv, SavesGood, SaveGood, Checkpoint
<1>13. nextId \in Nat /\ Latest \in Saves /\ \A d \in store : d.id <= Latest.id
  BY LatestIs DEF ThreadInv, SavesGood
<1>14. ASSUME NEW c \in Saves, NEW u \in Turns, Holds(c, u)
       PROVE  /\ turn[u].pc \in {"put", "record", "answered", "failed"} /\ Told(c, u)
              /\ turn'[u] = turn[u]
  <2>1. turn[u].pc \in {"put", "record", "answered", "failed"} /\ Told(c, u)
    BY <1>12, <1>14 DEF SaveGood
  <2>2. u # t
    BY <2>1
  <2> QED
    BY <1>7, <2>1, <2>2
<1>15. ASSUME NEW c \in Saves PROVE SaveGood(c)'
  <2>1. c \in Checkpoint /\ c.id < nextId + 1 /\ Past(c.msgs)
    BY <1>12, <1>13 DEF SaveGood
  <2>2. ASSUME NEW u \in Turns, Holds(c, u)
        PROVE  turn'[u].pc \in {"put", "record", "answered", "failed"} /\ Told(c, u)'
    BY <1>6, <1>14, <2>2 DEF Told
  <2> QED
    BY <2>1, <2>2 DEF SaveGood, Holds
<1>16. SaveGood(p)'
  <2>1. p.id < nextId + 1
    BY <1>1, <1>13
  <2>2. ASSUME NEW u \in Turns, Holds(p, u)
        PROVE  turn'[u].pc \in {"put", "record", "answered", "failed"} /\ Told(p, u)
    <3>1. CASE u = t
      BY <1>1, <1>4, <1>7, <3>1
    <3>2. CASE u # t
      <4>1. Holds(Latest, u)
        BY <1>1, <2>2, <3>2
      <4>2. turn'[u].pc \in {"put", "record", "answered", "failed"} /\ Told(Latest, u)
        BY <1>13, <1>14, <4>1
      <4> QED
        BY <1>1, <4>2
    <3> QED
      BY <3>1, <3>2
  <2> QED
    BY <1>1, <1>6, <2>1, <2>2 DEF SaveGood, Holds, Told
<1>17. SavesGood'
  <2>1. \A c \in Saves' : SaveGood(c)'
    BY <1>11, <1>15, <1>16
  <2>2. \A c, d \in Saves' : c.id = d.id => c = d
    <3>1. \A c, d \in Saves : c.id = d.id => c = d
      BY DEF ThreadInv, SavesGood
    <3>2. \A c \in Saves : c.id # p.id
      BY <1>1, <1>12, <1>13
    <3> QED
      BY <1>11, <3>1, <3>2
  <2>3. nextId' \in Nat /\ [id |-> 0, msgs |-> <<>>] \in store'
    BY <1>6, <1>13 DEF ThreadInv, SavesGood
  <2> QED
    BY <2>1, <2>2, <2>3 DEF SavesGood
<1>18. ASSUME beside' = {} PROVE InOrder'
  <2>1. InOrder
    BY <1>6, <1>18 DEF ThreadInv
  <2>2. \A u \in Turns : UnderWay(u)' => UnderWay(u)
    BY <1>7 DEF UnderWay
  <2>3. \A u, v \in Turns : UnderWay(u)' /\ UnderWay(v)' => u = v
    BY <2>1, <2>2 DEF InOrder
  <2>4. \A c, d \in store : c.id <= d.id => IsPrefix(c.msgs, d.msgs)
    BY <2>1 DEF InOrder
  <2>5. ASSUME NEW c \in Saves', c.id + 1 = nextId + 1, NEW d \in store PROVE IsPrefix(d.msgs, c.msgs)
    <3>1. c = p
      BY <1>11, <1>12, <1>13, <2>5
    <3>2. d.id <= Latest.id /\ Latest \in store
      BY LatestIs DEF ThreadInv
    <3>3. IsPrefix(d.msgs, Latest.msgs)
      BY <2>4, <3>2
    <3> QED
      BY <1>1, <3>1, <3>3
  <2>6. ASSUME NEW u \in Turns, turn'[u].pc \in Working \cup {"save"}, turn'[u].loaded = "yes"
        PROVE  turn'[u].history = Latest.msgs
    <3>1. u # t
      BY <1>4, <1>7, <2>6 DEF Working
    <3> QED
      BY <1>7, <2>1, <2>6, <3>1 DEF InOrder
  <2>7. ASSUME NEW u \in Saving' PROVE turn'[u].pending.id + 1 = nextId + 1
    <3>1. u = t
      <4>1. \A v \in Saving \cup {t} : v \in Turns /\ UnderWay(v)
        BY DEF Saving, UnderWay
      <4> QED
        BY <1>10, <2>1, <4>1 DEF InOrder
    <3> QED
      BY <1>1, <1>4, <1>7, <3>1
  <2>8. ASSUME NEW c \in Saves', NEW u \in Turns, Holds(c, u)
        PROVE  InView(c, u)'
    <3>1. turn'[u].history = turn[u].history
      BY <1>4, <1>7
    <3>2. InView(c, u)
      <4>1. CASE c \in Saves
        BY <2>1, <2>8, <4>1 DEF InOrder
      <4>2. CASE c = p /\ u = t
        <5>1. turn[t].history = Latest.msgs
          BY <2>1 DEF InOrder, MaySave
        <5> QED
          BY <1>1, <4>2, <5>1
      <4>3. CASE c = p /\ u # t
        <5>1. Holds(Latest, u)
          BY <1>1, <2>8, <4>3
        <5>2. InView(Latest, u)
          BY <1>13, <2>1, <5>1 DEF InOrder
        <5> QED
          BY <1>1, <4>3, <5>2
      <4> QED
        BY <1>11, <4>1, <4>2, <4>3
    <3> QED
      BY <3>1, <3>2 DEF InView
  <2> QED
    BY <1>6, <1>10, <2>3, <2>4, <2>5, <2>6, <2>7, <2>8 DEF InOrder, Holds
<1> QED
  BY <1>8, <1>9, <1>17, <1>18 DEF ThreadInv

(* A save is stored, left to land, or lost.                                 *)
LEMMA PutEnds ==
  ASSUME ThreadInv, NEW t \in Turns, turn[t].pc = "put",
         NEW r \in TurnState, r.pc \in {"record", "failed"}, r.history = turn[t].history,
         turn' = [turn EXCEPT ![t] = r],
         \/ store' = store \cup {turn[t].pending} /\ late' = late
         \/ late' = late \cup {turn[t].pending} /\ store' = store
         \/ UNCHANGED <<store, late>>,
         UNCHANGED <<nextId, ledger, ran, beside>>
  PROVE  ThreadInv'
<1> DEFINE p == turn[t].pending
<1>1. Tidy(turn[t].history) /\ p \in Checkpoint
  BY StateIs
<1>2. TurnGood(t, r, ran[t])
  BY <1>1 DEF TurnGood, Early, Working
<1>3. /\ turn \in [Turns -> TurnState] /\ ran \in [Turns -> SUBSET Calls]
      /\ nextId' = nextId /\ ledger' = ledger /\ ran' = ran /\ beside' = beside
  BY DEF ThreadInv, ThreadTyped
<1>4. turn'[t] = r /\ \A u \in Turns : u # t => turn'[u] = turn[u]
  BY <1>3
<1>5. ThreadTyped'
  BY <1>3 DEF ThreadInv, ThreadTyped
<1>6. TurnsGood'
  <2>1. \A u \in Turns : TurnGood(u, turn'[u], ran[u])
    BY <1>2, <1>4 DEF ThreadInv, TurnsGood
  <2> QED
    BY <1>3, <2>1 DEF TurnsGood
<1>7. t \in Saving /\ Saving' = Saving \ {t} /\ p \in Saves
  BY <1>4 DEF Saving, Saves
<1>8. \A c \in Saves' : c \in Saves
  <2>1. \A u \in Saving' : u \in Saving /\ turn'[u].pending = turn[u].pending
    BY <1>4, <1>7 DEF Saving
  <2>2. \A c \in store' \cup late' : c \in Saves
    BY <1>7 DEF Saves
  <2> QED
    BY <2>1, <2>2 DEF Saves
<1>9. /\ \A c \in Saves : SaveGood(c) /\ c.id \in Nat /\ c.id < nextId
      /\ \A c, d \in Saves : c.id = d.id => c = d
      /\ nextId \in Nat /\ [id |-> 0, msgs |-> <<>>] \in store
  BY DEF ThreadInv, SavesGood, SaveGood, Checkpoint
<1>10. SavesGood'
  <2>1. ASSUME NEW c \in Saves PROVE SaveGood(c)'
    <3>1. c \in Checkpoint /\ c.id < nextId /\ Past(c.msgs)
      BY <1>9 DEF SaveGood
    <3>2. ASSUME NEW u \in Turns, Holds(c, u)
          PROVE  turn'[u].pc \in {"put", "record", "answered", "failed"} /\ Told(c, u)'
      BY <1>3, <1>4, <1>9, <3>2 DEF Told, SaveGood
    <3> QED
      BY <1>3, <3>1, <3>2 DEF SaveGood, Holds
  <2>2. \A c, d \in Saves' : c.id = d.id => c = d
    BY <1>8, <1>9
  <2>3. nextId' \in Nat /\ [id |-> 0, msgs |-> <<>>] \in store'
    BY <1>3, <1>9
  <2> QED
    BY <1>8, <2>1, <2>2, <2>3 DEF SavesGood
<1>11. ASSUME beside' = {} PROVE InOrder'
  <2>1. InOrder
    BY <1>3, <1>11 DEF ThreadInv
  <2>2. \A u \in Turns : UnderWay(u) => u = t
    BY <2>1 DEF InOrder, UnderWay
  <2>3. \A u \in Turns : UnderWay(u)' => u = t
    BY <1>4, <2>2 DEF UnderWay
  <2>4. \A u \in Turns : turn'[u].pc \notin Working \cup {"save"}
    BY <1>4, <2>2 DEF UnderWay, Working
  <2>5. Saving' = {}
    BY <1>4, <2>2 DEF Saving, UnderWay
  <2>6. /\ p.id + 1 = nextId /\ \A d \in store : IsPrefix(d.msgs, p.msgs)
        /\ \A c, d \in store : c.id <= d.id => IsPrefix(c.msgs, d.msgs)
        /\ \A c \in Saves : c.id + 1 = nextId => \A d \in store : IsPrefix(d.msgs, c.msgs)
    BY <1>7, <2>1 DEF InOrder
  <2>7. store' \subseteq store \cup {p} /\ store \subseteq Saves
    BY DEF Saves
  <2>8. \A c \in Saves : c.id <= p.id /\ (c.id = p.id => c = p)
    BY <1>7, <1>9, <2>6
  <2>9. IsPrefix(p.msgs, p.msgs)
    <3>1. p.msgs \in Seq(Message)
      BY <1>1 DEF Checkpoint
    <3> QED
      BY <3>1, PrefixOrder
  <2>10. ASSUME NEW c \in store', NEW d \in store', c.id <= d.id PROVE IsPrefix(c.msgs, d.msgs)
    <3>1. CASE c = p
      <4>1. d = p
        BY <1>1, <1>9, <2>7, <2>8, <2>10, <3>1 DEF Checkpoint
      <4> QED
        BY <2>9, <3>1, <4>1
    <3>2. CASE c \in store
      BY <2>6, <2>7, <2>10, <3>2
    <3> QED
      BY <2>7, <3>1, <3>2
  <2>11. ASSUME NEW c \in Saves', c.id + 1 = nextId, NEW d \in store' PROVE IsPrefix(d.msgs, c.msgs)
    <3>1. c = p
      BY <1>7, <1>8, <1>9, <2>6, <2>11
    <3> QED
      BY <2>6, <2>7, <2>9, <3>1
  <2>12. ASSUME NEW c \in Saves', NEW u \in Turns, Holds(c, u)
         PROVE  InView(c, u)'
    <3>1. InView(c, u)
      BY <1>8, <2>1, <2>12 DEF InOrder
    <3>2. turn'[u].history = turn[u].history
      BY <1>4
    <3> QED
      BY <3>1, <3>2 DEF InView
  <2> QED
    BY <1>3, <2>3, <2>4, <2>5, <2>10, <2>11, <2>12 DEF InOrder, Holds
<1> QED
  BY <1>5, <1>6, <1>10, <1>11 DEF ThreadInv

LEMMA SaveStep ==
  ASSUME ThreadInv, NEW t \in Turns, Save(t)
  PROVE  ThreadInv'
<1>1. turn[t].pc = "save" /\ UNCHANGED <<store, late, ledger, ran, beside>>
  BY DEF Save
<1>2. CASE MaySave(t) /\ nextId' = nextId + 1
             /\ Set(t, [turn[t] EXCEPT !.pc = "put", !.pending = [id |-> nextId, msgs |-> Extended(t)]])
  BY <1>1, <1>2, SaveKeeps
<1>3. CASE Goto(t, "record") /\ UNCHANGED nextId
  <2>1. \E r, z : Moves(t, r, z)
    BY <1>1, <1>3, GotoMoves
  <2>2. ledger' \in [Windows -> Nat]
    BY <1>1 DEF ThreadInv, ThreadTyped
  <2> QED
    BY <2>1, <2>2, MovesKeep
<1> QED
  BY <1>2, <1>3 DEF Save

LEMMA PutStep ==
  ASSUME ThreadInv, NEW t \in Turns, Put(t)
  PROVE  ThreadInv'
<1> DEFINE r == [turn[t] EXCEPT !.pc = "record"]
<1>1. turn[t] \in TurnState
  BY StateIs
<1>2. r \in TurnState /\ r.pc \in {"record", "failed"} /\ r.history = turn[t].history
  BY <1>1 DEF TurnState, PCs
<1>3. /\ turn[t].pc = "put" /\ turn' = [turn EXCEPT ![t] = r] /\ UNCHANGED <<nextId, ledger, ran, beside>>
      /\ \/ store' = store \cup {turn[t].pending} /\ late' = late
         \/ late' = late \cup {turn[t].pending} /\ store' = store
         \/ UNCHANGED <<store, late>>
  BY DEF Put, Goto, Set
<1> HIDE DEF r
<1> QED
  BY <1>2, <1>3, PutEnds

LEMMA CrashStep ==
  ASSUME ThreadInv, NEW t \in Turns, Crash(t)
  PROVE  ThreadInv'
<1>1. CASE turn[t].pc = "put"
  <2> DEFINE r == [NewTurn EXCEPT !.pc = "failed", !.history = turn[t].history]
  <2>1. turn[t].history \in Seq(Message)
    BY StateIs
  <2>2. <<>> \in Seq(Message) /\ <<>> \in Seq(Calls)
    OBVIOUS
  <2>3. r \in TurnState /\ r.pc \in {"record", "failed"} /\ r.history = turn[t].history
    BY <2>1, <2>2 DEF TurnState, NewTurn, NewState, NoUsage, GraphState, Checkpoint, PCs
  <2>4. /\ turn' = [turn EXCEPT ![t] = r] /\ UNCHANGED <<nextId, ledger, ran, beside>>
        /\ \/ late' = late \cup {turn[t].pending} /\ store' = store
           \/ UNCHANGED <<store, late>>
    BY DEF Crash, Fail, Finish, Set
  <2> HIDE DEF r
  <2> QED
    BY <1>1, <2>3, <2>4, PutEnds
<1>2. CASE turn[t].pc # "put"
  <2>1. (\E r, s : Moves(t, r, s)) /\ UNCHANGED ledger
    BY <1>2, CrashMoves
  <2>2. ledger' \in [Windows -> Nat]
    BY <2>1 DEF ThreadInv, ThreadTyped
  <2> QED
    BY <2>1, <2>2, MovesKeep
<1> QED
  BY <1>1, <1>2

(* A save that was given up lands.                                          *)
LEMMA LandKeeps ==
  ASSUME ThreadInv, NEW p \in late, Land(p)
  PROVE  ThreadInv'
<1>1. /\ store' = store \cup {p} /\ late' = late \ {p}
      /\ beside' = beside \cup {k \in {"save"} : p.id + 1 < nextId \/ \E u \in Turns : UnderWay(u)}
      /\ turn' = turn /\ nextId' = nextId /\ ledger' = ledger /\ ran' = ran
  BY DEF Land
<1>2. ThreadTyped' /\ TurnsGood'
  <2>1. beside' \subseteq {"turn", "save"}
    BY <1>1 DEF ThreadInv, ThreadTyped
  <2> QED
    BY <1>1, <2>1 DEF ThreadInv, ThreadTyped, TurnsGood
<1>3. Saving' = Saving
  BY <1>1 DEF Saving
<1>4. Saves' = Saves /\ p \in Saves /\ store \subseteq Saves
  BY <1>1, <1>3 DEF Saves
<1>5. /\ \A c \in Saves : SaveGood(c) /\ c \in Checkpoint /\ c.id \in Nat /\ c.id < nextId
      /\ \A c, d \in Saves : c.id = d.id => c = d
      /\ nextId \in Nat /\ [id |-> 0, msgs |-> <<>>] \in store
  BY DEF ThreadInv, SavesGood, SaveGood, Checkpoint
<1>6. SavesGood'
  <2>1. ASSUME NEW c \in Saves PROVE SaveGood(c)'
    BY <1>1, <1>5 DEF SaveGood, Holds, Told
  <2> QED
    BY <1>1, <1>4, <1>5, <2>1 DEF SavesGood
<1>7. ASSUME beside' = {} PROVE InOrder'
  <2>1. InOrder /\ ~(p.id + 1 < nextId) /\ \A u \in Turns : ~UnderWay(u)
    BY <1>1, <1>7 DEF ThreadInv
  <2>2. p.id + 1 = nextId
    BY <1>4, <1>5, <2>1
  <2>3. \A u \in Turns : turn[u].pc \notin Working \cup {"save", "put"}
    BY <2>1 DEF UnderWay, Working
  <2>4. /\ \A d \in store : IsPrefix(d.msgs, p.msgs)
        /\ \A c, d \in store : c.id <= d.id => IsPrefix(c.msgs, d.msgs)
        /\ \A c \in Saves : c.id + 1 = nextId => \A d \in store : IsPrefix(d.msgs, c.msgs)
    BY <1>4, <2>1, <2>2 DEF InOrder
  <2>5. IsPrefix(p.msgs, p.msgs)
    <3>1. p.msgs \in Seq(Message)
      BY <1>4, <1>5 DEF Checkpoint
    <3> QED
      BY <3>1, PrefixOrder
  <2>6. ASSUME NEW c \in store', NEW d \in store', c.id <= d.id PROVE IsPrefix(c.msgs, d.msgs)
    <3>1. CASE c = p
      <4>1. d = p
        BY <1>1, <1>4, <1>5, <2>2, <2>6, <3>1
      <4> QED
        BY <2>5, <3>1, <4>1
    <3>2. CASE c \in store
      BY <1>1, <2>4, <2>6, <3>2
    <3> QED
      BY <1>1, <3>1, <3>2
  <2>7. ASSUME NEW c \in Saves, c.id + 1 = nextId, NEW d \in store' PROVE IsPrefix(d.msgs, c.msgs)
    <3>1. c = p
      BY <1>4, <1>5, <2>2, <2>7
    <3> QED
      BY <1>1, <2>4, <2>5, <3>1
  <2>8. ASSUME NEW c \in Saves, NEW u \in Turns, Holds(c, u) PROVE InView(c, u)'
    BY <1>1, <2>1, <2>8 DEF InOrder, InView
  <2>9. Saving = {}
    BY <2>3 DEF Saving
  <2> QED
    BY <1>1, <1>3, <1>4, <2>1, <2>3, <2>6, <2>7, <2>8, <2>9 DEF InOrder, Holds, UnderWay
<1> QED
  BY <1>2, <1>6, <1>7 DEF ThreadInv

LEMMA ThreadInit == Init => ThreadInv
<1> SUFFICES ASSUME Init PROVE ThreadInv
  OBVIOUS
<1> DEFINE e == [id |-> 0, msgs |-> <<>>]
<1>1. <<>> \in Seq(Message) /\ <<>> \in Seq(Calls)
  OBVIOUS
<1>2. NewTurn \in TurnState
  BY <1>1 DEF TurnState, NewTurn, NewState, NoUsage, GraphState, Checkpoint, PCs
<1>3. /\ \A t \in Turns : turn[t] = NewTurn /\ turn[t].pc = "idle" /\ ran[t] = {}
      /\ turn = [t \in Turns |-> NewTurn] /\ ran = [t \in Turns |-> {}]
      /\ store = {e} /\ late = {} /\ nextId = 1 /\ ledger = [w \in Windows |-> 0] /\ beside = {}
  BY DEF Init, NewTurn
<1>4. ThreadTyped
  BY <1>2, <1>3 DEF ThreadTyped
<1>5. Tidy(<<>>) /\ WholeTurns(<<>>)
  <2>1. Len(<<>>) = 0 /\ DOMAIN <<>> = {} /\ 1 .. 0 = {}
    OBVIOUS
  <2> QED
    BY <2>1 DEF Tidy, WholeTurns
<1>6. TurnsGood
  <2> SUFFICES ASSUME NEW t \in Turns PROVE TurnGood(t, NewTurn, {})
    BY <1>3 DEF TurnsGood
  <2>1. NewTurn.pc = "idle" /\ NewTurn.history = <<>> /\ NewTurn = [NewTurn EXCEPT !.pc = "idle"]
    BY DEF NewTurn
  <2> QED
    BY <1>5, <2>1 DEF TurnGood, Early, Working
<1>7. Saving = {} /\ Saves = {e}
  BY <1>3 DEF Saving, Saves
<1>8. e \in Checkpoint /\ e.id = 0 /\ e.msgs = <<>> /\ Past(e.msgs)
  BY <1>1, <1>5 DEF Checkpoint, Past
<1>9. \A t \in Turns : ~Holds(e, t)
  BY DEF Holds, Range
<1> HIDE DEF e
<1>10. SavesGood
  <2>1. SaveGood(e)
    BY <1>3, <1>8, <1>9 DEF SaveGood
  <2> QED
    BY <1>3, <1>7, <2>1 DEF SavesGood, e
<1>11. InOrder
  <2>1. IsPrefix(e.msgs, e.msgs)
    BY <1>1, <1>8, PrefixOrder
  <2> QED
    BY <1>3, <1>7, <1>9, <2>1 DEF InOrder, UnderWay, Working
<1> QED
  BY <1>4, <1>6, <1>10, <1>11 DEF ThreadInv

LEMMA ThreadStep == ThreadInv /\ [Next]_vars => ThreadInv'
<1> SUFFICES ASSUME ThreadInv, [Next]_vars PROVE ThreadInv'
  OBVIOUS
<1>1. ASSUME NEW t \in Turns, (\E r, s : Moves(t, r, s)) /\ UNCHANGED ledger PROVE ThreadInv'
  <2>1. ledger' \in [Windows -> Nat]
    BY <1>1 DEF ThreadInv, ThreadTyped
  <2> QED
    BY <1>1, <2>1, MovesKeep
<1>2. ASSUME NEW t \in Turns, Step(t) PROVE ThreadInv'
  <2>1. CASE FirstGate(t)
    BY <1>1, <2>1, FirstGateMoves
  <2>2. CASE Load(t)
    BY <1>1, <2>2, LoadMoves
  <2>3. CASE Gate(t)
    BY <1>1, <2>3, GateMoves
  <2>4. CASE Answer(t) \/ AnswerRetry(t)
    BY <1>1, <2>4, AnswerMoves
  <2>5. CASE ToolCall(t)
    BY <1>1, <2>5, ToolCallMoves
  <2>6. CASE ToolsDone(t)
    BY <1>1, <2>6, ToolsDoneMoves
  <2>7. CASE Stop(t)
    BY <1>1, <2>7, StopMoves
  <2>8. CASE Timeout(t)
    BY <1>1, <2>8, TimeoutMoves
  <2>9. CASE Save(t)
    BY <2>9, SaveStep
  <2>10. CASE Put(t)
    BY <2>10, PutStep
  <2>11. CASE Record(t)
    <3>1. (\E r, s : Moves(t, r, s)) /\ ledger' \in [Windows -> Nat]
      BY <2>11, RecordMoves
    <3> QED
      BY <3>1, MovesKeep
  <2> QED
    BY <1>2, <2>1, <2>2, <2>3, <2>4, <2>5, <2>6, <2>7, <2>8, <2>9, <2>10, <2>11 DEF Step
<1>3. ASSUME NEW t \in Turns, Begin(t) PROVE ThreadInv'
  BY <1>3, BeginKeeps
<1>4. ASSUME NEW t \in Turns, Crash(t) PROVE ThreadInv'
  BY <1>4, CrashStep
<1>5. ASSUME NEW c \in late, Land(c) PROVE ThreadInv'
  BY <1>5, LandKeeps
<1>6. ASSUME (\E w \in Windows : NewWindow(w)) \/ UNCHANGED vars PROVE ThreadInv'
  BY <1>6, WindowKeeps
<1> QED
  BY <1>2, <1>3, <1>4, <1>5, <1>6 DEF Next

LEMMA ThreadAlways == Spec => []ThreadInv
<1> QED
  BY ThreadInit, ThreadStep, PTL DEF Spec

(* Every turn, thread, save and ledger is of its type.                      *)
THEOREM TurnsTyped == Spec => []TypeOK
<1>1. ThreadInv => TypeOK
  <2> SUFFICES ASSUME ThreadInv PROVE TypeOK
    OBVIOUS
  <2>1. \A c \in Saves : c \in Checkpoint
    BY DEF ThreadInv, SavesGood, SaveGood
  <2>2. store \subseteq Checkpoint /\ late \subseteq Checkpoint
    BY <2>1 DEF Saves
  <2> QED
    BY <2>2 DEF ThreadInv, ThreadTyped, SavesGood, TypeOK, TurnState, Calls
<1> QED
  BY <1>1, ThreadAlways, PTL

(* _call_model: whatever earlier turns left in the thread and whatever       *)
(* trim_history drops, each request is one that providers accept, it holds  *)
(* the user's message and ends with the newest tool round.                  *)
THEOREM RequestsWellFormed == Spec => []ModelInputWellFormed
<1>1. ThreadInv => ModelInputWellFormed
  <2> SUFFICES ASSUME ThreadInv, NEW t \in Turns, turn[t].pc \in {"calling", "retrying"},
                      NEW h \in Trims(Prompt(t))
               PROVE  /\ WellFormed(h) /\ \E i \in DOMAIN h : h[i] = User(t)
                      /\ h[Len(h)] = Prompt(t)[Len(Prompt(t))]
    BY DEF ModelInputWellFormed
  <2> DEFINE x == turn[t].history
             g == turn[t].seen.msgs
  <2>1. x \in Seq(Message) /\ Tidy(x)
    BY StateIs
  <2>2. Own(t, g)
    BY WorkingIs DEF Working
  <2>3. Prompt(t) = Close(x \o g)
    BY DEF Prompt
  <2> HIDE DEF x, g
  <2> QED
    BY <2>1, <2>2, <2>3, RequestsAccepted
<1> QED
  BY <1>1, ThreadAlways, PTL

(* _Thread.save, whatever overlaps, crashes, times out or lands late: a     *)
(* thread only ever holds whole turns, with every call that ran; and while  *)
(* nothing ran beside a turn it forgets none, each run with the earlier     *)
(* ones in view.                                                            *)
THEOREM ThreadsTrue == Spec => []ThreadIsTrue
<1>1. ThreadInv => ThreadIsTrue
  <2> SUFFICES ASSUME ThreadInv PROVE ThreadIsTrue
    OBVIOUS
  <2>1. /\ Latest \in store /\ \A d \in store : d.id <= Latest.id
        /\ Latest \in Saves
    BY LatestIs DEF ThreadInv
  <2>2. \A c \in store : c \in Saves /\ SaveGood(c)
    BY DEF ThreadInv, SavesGood, Saves
  <2>3. ThreadHoldsWholeTurns
    BY <2>2 DEF ThreadHoldsWholeTurns, SaveGood, Past
  <2>4. RunsAreVisible
    BY <2>2 DEF RunsAreVisible, SaveGood, Told
  <2>5. NeverForgets
    BY <2>1 DEF NeverForgets, ThreadInv, InOrder
  <2>6. SavedInContext
    BY <2>1 DEF SavedInContext, ThreadInv, InOrder, InView
  <2> QED
    BY <2>3, <2>4, <2>5, <2>6 DEF ThreadIsTrue
<1> QED
  BY <1>1, ThreadAlways, PTL
=============================================================================

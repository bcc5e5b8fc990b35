----------------------------- MODULE AgentTurn -----------------------------
(***************************************************************************)
(* Turns of one conversation thread (agent/graph.py): the budget is         *)
(* checked, the thread read, the model and the tools called in turn under   *)
(* three ceilings and a deadline, the turn's messages saved once, its usage *)
(* recorded.  Turns overlap when their callers let them.                    *)
(*                                                                          *)
(* A message is [who, turn, calls, of]: "user"; "ask", the model's message  *)
(* with tool calls; "reply", the result of call `of'; "say", a text that    *)
(* ends a turn.  A call is [id, tool]; a model call costs one token.        *)
(***************************************************************************)
EXTENDS ToolGate, Sequences, SequencesExt

CONSTANTS
  Turns,
  Batch, Wanted,   \* bounds: how many calls one model message makes, and of what
  MaxToolCalls, MaxToolErrors, \* execution_limits
  Windows, Cap,    \* the subject's budget: a token cap for each window of time
  EndsWith,        \* the windows that end when one does: a month's end is a day's
  Current          \* the permissions passed with each turn

ASSUME TurnAssumption ==
  /\ Batch \in [Turns -> Nat] /\ Wanted \in [Turns -> SUBSET ToolNames]
  /\ MaxToolCalls \in Nat /\ MaxToolErrors \in Nat \ {0}
  /\ Cap \in [Windows -> Nat] /\ EndsWith \in [Windows -> SUBSET Windows]
  /\ IsFiniteSet(Turns)
  /\ Current \in [Turns -> SUBSET Permissions]

VARIABLES
  turn,      \* each turn's state
  store,     \* the thread's checkpoints, [id, msgs]: the highest id is read
  late,      \* abandoned saves that can still land
  nextId,    \* checkpoint ids are ordered by creation
  ledger,    \* tokens recorded for the subject since each window began
  ran,       \* the calls that ran, per turn
  beside     \* whether turns, or a late save and a turn, ever ran side by side

vars == <<turn, store, late, nextId, ledger, ran, beside>>

PCs == {"idle", "start", "load", "model", "calling", "retrying", "tools", "limit",
        "errors", "save", "put", "record", "answered", "failed"}

User(t) == [who |-> "user", turn |-> t, calls |-> <<>>, of |-> 0]
Say(t) == [who |-> "say", turn |-> t, calls |-> <<>>, of |-> 0]
AskFor(t, cs) == [who |-> "ask", turn |-> t, calls |-> cs, of |-> 0]
ReplyTo(t, c) == [who |-> "reply", turn |-> t, calls |-> <<>>, of |-> c.id]

(* One call without a report leaves the whole turn's tokens unknown, and    *)
(* unknown tokens count as none.                                            *)
NoUsage == [calls |-> 0, known |-> TRUE]
Used(u, n, known) == [calls |-> u.calls + n, known |-> u.known /\ known]
Tokens(u) == IF u.known THEN u.calls ELSE 0

(* `seen' is the graph's state after the last completed step, `msgs' its    *)
(* messages past the history, `todo' the calls of the step under way.       *)
NewState == [msgs |-> <<>>, usage |-> NoUsage, count |-> 0, errors |-> 0]
NewTurn == [pc |-> "idle", history |-> <<>>, loaded |-> "no", seen |-> NewState,
            todo |-> <<>>, replies |-> <<>>, fails |-> 0, ids |-> 0,
            pending |-> [id |-> 0, msgs |-> <<>>]]

Init ==
  /\ turn = [t \in Turns |-> NewTurn]
  /\ store = {[id |-> 0, msgs |-> <<>>]}
  /\ late = {}
  /\ nextId = 1
  /\ ledger = [w \in Windows |-> 0]
  /\ ran = [t \in Turns |-> {}]
  /\ beside = {}

-----------------------------------------------------------------------------
(* Messages.                                                                *)
IsAsk(m) == m.who = "ask"

(* The positions of the replies that follow message i without a break.      *)
RepliesAfter(h, i) ==
  {j \in i + 1 .. Len(h) : \A k \in i + 1 .. j : h[k].who = "reply"}
Answered(h, i) == {h[j].of : j \in RepliesAfter(h, i)}

(* _close_unanswered_tool_calls.                                            *)
Interrupted(h, i) ==
  LET R[n \in 0 .. Len(h[i].calls)] ==
        IF n = 0 THEN <<>>
        ELSE IF h[i].calls[n].id \in Answered(h, i) THEN R[n - 1]
        ELSE Append(R[n - 1], ReplyTo(h[i].turn, h[i].calls[n]))
  IN  R[Len(h[i].calls)]
CloseNothing(h) == h
Close(h) == FlattenSeq([i \in DOMAIN h |-> <<h[i]>> \o Interrupted(h, i)])

(* trim_history.  An ask and the replies right after it are one unit; the   *)
(* latest user message and the newest unit after it always stay; whole      *)
(* units go, oldest first, and earlier history starts on a user message.    *)
(* Which units fit is the token estimate's business.                        *)
Starts(h) == {i \in DOMAIN h : ~\E a \in 1 .. i - 1 : IsAsk(h[a]) /\ i \in RepliesAfter(h, a)}
Greatest(S) == CHOOSE x \in S : \A y \in S : y <= x
Anchor(h) == Greatest({i \in DOMAIN h : h[i].who = "user"})
Trims(h) ==
  LET a == Anchor(h)
      heads == {i \in Starts(h) : i = a \/ (i < a /\ h[i].who = "user")}
      tails == {i \in Starts(h) : i > a}
  IN  {h} \cup {SubSeq(h, i, Len(h)) : i \in heads}
          \cup {<<h[a]>> \o SubSeq(h, i, Len(h)) : i \in tails}

(* A request every provider accepts: each reply belongs to the ask before   *)
(* it, and each call of an ask is answered right after it, once.            *)
WellFormed(h) ==
  /\ \A i \in DOMAIN h : IsAsk(h[i]) =>
       /\ Answered(h, i) = {c.id : c \in Range(h[i].calls)}
       /\ Cardinality(RepliesAfter(h, i)) = Len(h[i].calls)
  /\ \A j \in DOMAIN h : h[j].who = "reply" =>
       \E i \in 1 .. j - 1 : IsAsk(h[i]) /\ j \in RepliesAfter(h, i)

-----------------------------------------------------------------------------
(* Usage and the budget gate: the ledger is only written when a turn ends,  *)
(* so what the turn has used so far is added to its totals.                 *)
Reached(u) == \E w \in Windows : ledger[w] + Tokens(u) >= Cap[w]
Recorded(u) == [w \in Windows |-> ledger[w] + Tokens(u)]

(* A UTC day or month ends: the totals of the new one start at nothing.     *)
NewWindow(w) ==
  /\ ledger[w] > 0
  /\ ledger' = [v \in Windows |-> IF v \in EndsWith[w] THEN 0 ELSE ledger[v]]
  /\ UNCHANGED <<turn, store, late, nextId, ran, beside>>

Set(t, r) == turn' = [turn EXCEPT ![t] = r]
Goto(t, pc) == Set(t, [turn[t] EXCEPT !.pc = pc])
UnderWay(t) == turn[t].pc \notin {"idle", "answered", "failed"}
Finish(t, pc) == Set(t, [NewTurn EXCEPT !.pc = pc, !.history = turn[t].history])
Fail(t) == Finish(t, "failed")

Begin(t) ==
  /\ turn[t].pc = "idle"
  /\ Goto(t, "start")
  /\ beside' = beside \cup {k \in {"turn"} : \E u \in Turns : UnderWay(u)}
  /\ UNCHANGED <<store, late, nextId, ledger, ran>>

(* The gate before the graph: a refusal is neither saved nor recorded, and  *)
(* a ledger that cannot be read fails the turn.                             *)
FirstGate(t) ==
  /\ turn[t].pc = "start"
  /\ \/ Reached(NoUsage) /\ Finish(t, "answered")
     \/ ~Reached(NoUsage) /\ Goto(t, "load")
     \/ Fail(t)
  /\ UNCHANGED <<store, late, nextId, ledger, ran, beside>>

(* _Thread.load: the latest checkpoint, or nothing when it cannot be read,  *)
(* which is also what a turn without a thread has.                          *)
Latest == CHOOSE c \in store : \A d \in store : d.id <= c.id
ReadAsEmpty == "yes"
NotLoaded == "no"
ReadableWhenSettled(t) == turn[t].pc = "load" /\ late = {}
Readable(t) == turn[t].pc = "load"
Load(t) ==
  /\ Readable(t)
  /\ LET begun == [NewState EXCEPT !.msgs = <<User(t)>>] IN
       \/ Set(t, [turn[t] EXCEPT !.pc = "model", !.loaded = "yes",
                                 !.history = Latest.msgs, !.seen = begun])
       \/ Set(t, [turn[t] EXCEPT !.pc = "model", !.loaded = NotLoaded, !.seen = begun])
  /\ UNCHANGED <<store, late, nextId, ledger, ran, beside>>

-----------------------------------------------------------------------------
(* _call_model.                                                             *)
Prompt(t) == Close(turn[t].history \o turn[t].seen.msgs)

(* The reply ends the turn without another step.                            *)
End(t, u) ==
  Set(t, [turn[t] EXCEPT !.pc = "save", !.seen.msgs = Append(@, Say(t)), !.seen.usage = u])

NoGate(u) == FALSE
GateAgain(u) == u.calls > 0 /\ Reached(u)

Gate(t) ==
  /\ turn[t].pc = "model"
  /\ LET u == turn[t].seen.usage IN
       \/ GateAgain(u) /\ End(t, u)
       \/ ~GateAgain(u) /\ Goto(t, "calling")
       \/ u.calls > 0 /\ Fail(t)
  /\ UNCHANGED <<store, late, nextId, ledger, ran, beside>>

(* _route, after a model message.                                           *)
RouteToTools(s) == "tools"
RouteMisnamed(s) == IF s.count >= MaxToolCalls THEN "limit_reached" ELSE "tools"
Route(s) == IF s.count >= MaxToolCalls THEN "limit" ELSE "tools"

NumberedCalls(t, tools) ==
  [i \in DOMAIN tools |-> [id |-> turn[t].ids + i, tool |-> tools[i]]]
Asks(t, u, calls) ==
  LET s == [turn[t].seen EXCEPT !.msgs = Append(@, AskFor(t, calls)), !.usage = u]
  IN  Set(t, [turn[t] EXCEPT !.pc = Route(s), !.seen = s, !.todo = calls,
                             !.ids = @ + Len(calls)])
Responds(t, spent) ==
  \E known \in BOOLEAN :
    LET u == Used(spent, 1, known) IN
      \/ End(t, u)
      \/ \E n \in 1 .. Batch[t] : \E tools \in [1 .. n -> Wanted[t]] :
           Asks(t, u, NumberedCalls(t, tools))

(* The provider answers, fails, or rejects a malformed tool call: the       *)
(* request is then sent again without tools, past the gate once more.       *)
Rejected(t) == Used(turn[t].seen.usage, 1, FALSE)
Answer(t) ==
  /\ turn[t].pc = "calling"
  /\ \/ Responds(t, turn[t].seen.usage)
     \/ Fail(t)
     \/ LET u == Rejected(t) IN
          \/ Reached(u) /\ End(t, u)
          \/ ~Reached(u) /\ Goto(t, "retrying")
  /\ UNCHANGED <<store, late, nextId, ledger, ran, beside>>

AnswerRetry(t) ==
  /\ turn[t].pc = "retrying"
  /\ \/ Responds(t, Rejected(t))
     \/ Fail(t)
  /\ UNCHANGED <<store, late, nextId, ledger, ran, beside>>

-----------------------------------------------------------------------------
(* _execute_tools: one call after the other; their replies are the graph's  *)
(* only when the last is done.  The database session around them may fail.  *)
Replied(t, failed) ==
  Set(t, [turn[t] EXCEPT !.todo = Tail(@), !.replies = Append(@, ReplyTo(t, Head(turn[t].todo))),
                         !.fails = @ + failed])

Blocked(t) ==
  /\ ~Allowed(Head(turn[t].todo).tool, Current[t], TRUE, TRUE)
  /\ Replied(t, 0)
  /\ UNCHANGED ran

(* It returns, raises or outlives its timeout, or raises what aborts turns. *)
Execute(t) ==
  /\ Allowed(Head(turn[t].todo).tool, Current[t], TRUE, TRUE)
  /\ ran' = [ran EXCEPT ![t] = @ \cup {Head(turn[t].todo)}]
  /\ \/ Replied(t, 0)
     \/ Replied(t, 1)
     \/ Fail(t)

ToolCall(t) ==
  /\ turn[t].pc = "tools" /\ turn[t].todo # <<>>
  /\ \/ Blocked(t)
     \/ Execute(t)
     \/ Fail(t) /\ UNCHANGED ran
  /\ UNCHANGED <<store, late, nextId, ledger, beside>>

ToolsDone(t) ==
  /\ turn[t].pc = "tools" /\ turn[t].todo = <<>>
  /\ LET s == [turn[t].seen EXCEPT !.msgs = @ \o turn[t].replies,
                 !.count = @ + Len(turn[t].replies), !.errors = @ + turn[t].fails]
     IN  \/ Fail(t)
         \/ Set(t, [turn[t] EXCEPT !.seen = s, !.replies = <<>>, !.fails = 0,
                   !.pc = IF s.errors >= MaxToolErrors THEN "errors" ELSE "model"])
  /\ UNCHANGED <<store, late, nextId, ledger, ran, beside>>

(* _limit_reached leaves the calls it refuses unanswered;                   *)
(* _tool_errors_reached has none.                                           *)
Stop(t) ==
  /\ turn[t].pc \in {"limit", "errors"}
  /\ End(t, turn[t].seen.usage)
  /\ UNCHANGED <<store, late, nextId, ledger, ran, beside>>

(* The deadline: what the graph had completed is kept, its open calls       *)
(* closed.                                                                  *)
NoProgress(t) == [NewState EXCEPT !.msgs = <<User(t)>>]
Progress(t) == turn[t].seen
Timeout(t) ==
  /\ turn[t].pc \in {"model", "calling", "retrying", "tools", "limit", "errors"}
  /\ Set(t, [turn[t] EXCEPT !.pc = "save", !.todo = <<>>, !.replies = <<>>, !.fails = 0,
               !.seen = [Progress(t) EXCEPT !.msgs = Append(Close(@), Say(t))]])
  /\ UNCHANGED <<store, late, nextId, ledger, ran, beside>>

-----------------------------------------------------------------------------
(* _Thread.save: aupdate_state reads the latest checkpoint, makes one that  *)
(* adds the turn's messages to it, and puts it.                             *)
NewOnly(t) == turn[t].seen.msgs
HistoryTwice(t) == Latest.msgs \o turn[t].history \o turn[t].seen.msgs
Extended(t) == Latest.msgs \o turn[t].seen.msgs
MaySave(t) == turn[t].loaded = "yes"
Save(t) ==
  /\ turn[t].pc = "save"
  /\ \/ /\ MaySave(t)
        /\ Set(t, [turn[t] EXCEPT !.pc = "put",
             !.pending = [id |-> nextId, msgs |-> Extended(t)]])
        /\ nextId' = nextId + 1
     \/ Goto(t, "record") /\ UNCHANGED nextId
  /\ UNCHANGED <<store, late, ledger, ran, beside>>

(* It is stored, or fails, or is abandoned at its timeout and may land yet. *)
Put(t) ==
  /\ turn[t].pc = "put"
  /\ \/ store' = store \cup {turn[t].pending} /\ UNCHANGED late
     \/ late' = late \cup {turn[t].pending} /\ UNCHANGED store
     \/ UNCHANGED <<store, late>>
  /\ Goto(t, "record")
  /\ UNCHANGED <<nextId, ledger, ran, beside>>

Land(c) ==
  /\ c \in late
  /\ store' = store \cup {c}
  /\ late' = late \ {c}
  /\ beside' = beside \cup {k \in {"save"} : c.id + 1 < nextId \/ \E u \in Turns : UnderWay(u)}
  /\ UNCHANGED <<turn, nextId, ledger, ran>>

(* _record_usage: a ledger that fails is logged and the answer stands.      *)
Record(t) ==
  /\ turn[t].pc = "record"
  /\ \/ ledger' = Recorded(turn[t].seen.usage)
     \/ UNCHANGED ledger
  /\ Finish(t, "answered")
  /\ UNCHANGED <<store, late, nextId, ran, beside>>

(* The process dies, or the caller is cancelled; a save under way may land. *)
Crash(t) ==
  /\ UnderWay(t)
  /\ \/ turn[t].pc = "put" /\ late' = late \cup {turn[t].pending}
     \/ UNCHANGED late
  /\ Fail(t)
  /\ UNCHANGED <<store, nextId, ledger, ran, beside>>

Step(t) ==
  \/ FirstGate(t) \/ Load(t) \/ Gate(t) \/ Answer(t) \/ AnswerRetry(t) \/ ToolCall(t)
  \/ ToolsDone(t) \/ Stop(t) \/ Timeout(t) \/ Save(t) \/ Put(t) \/ Record(t)

Next ==
  \/ \E t \in Turns : Begin(t) \/ Step(t) \/ Crash(t)
  \/ \E c \in late : Land(c)
  \/ \E w \in Windows : NewWindow(w)

Spec == Init /\ [][Next]_vars

(* A turn that is not cancelled goes on: model calls, tools and the         *)
(* thread's reads and saves are bounded by timeouts, and the ledger's       *)
(* database answers or fails.                                               *)
FairSpec == Spec /\ \A t \in Turns : WF_vars(Step(t))
-----------------------------------------------------------------------------
Message == [who : {"user", "ask", "reply", "say"}, turn : Turns,
            calls : Seq([id : Nat, tool : ToolNames]), of : Nat]
Checkpoint == [id : Nat, msgs : Seq(Message)]
GraphState == [msgs : Seq(Message), usage : [calls : Nat, known : BOOLEAN], count : Nat, errors : Nat]

(* Type correctness of the turns, the thread and the ledger.                *)
TypeOK ==
  /\ turn \in [Turns -> [pc : PCs, history : Seq(Message), loaded : {"no", "yes"},
       seen : GraphState, todo : Seq([id : Nat, tool : ToolNames]),
       replies : Seq(Message), fails : Nat, ids : Nat,
       pending : Checkpoint]]
  /\ store \subseteq Checkpoint /\ late \subseteq Checkpoint
  /\ nextId \in Nat /\ ledger \in [Windows -> Nat] /\ beside \subseteq {"turn", "save"}
  /\ \A t \in Turns : ran[t] \subseteq [id : Nat, tool : ToolNames]

(* Whatever earlier turns left in the thread (a turn stopped at its         *)
(* ceiling leaves calls unanswered) and whatever trimming drops, the        *)
(* request is one that providers accept, it holds the turn's own message    *)
(* and the newest tool round of the turn.                                   *)
ModelInputWellFormed ==
  \A t \in Turns : turn[t].pc \in {"calling", "retrying"} =>
    \A h \in Trims(Prompt(t)) :
      /\ WellFormed(h)
      /\ \E i \in DOMAIN h : h[i] = User(t)
      /\ h[Len(h)] = Prompt(t)[Len(Prompt(t))]

(* "A thread only ever holds whole turns": each from its user message to    *)
(* the text that ended it, none twice, none cut short or mixed with others. *)
Block(h, i, j) ==
  /\ h[i] = User(h[i].turn) /\ h[j] = Say(h[i].turn)
  /\ \A k \in i + 1 .. j - 1 : h[k].turn = h[i].turn /\ h[k].who \in {"ask", "reply"}
WholeTurns(h) ==
  /\ \A i \in DOMAIN h : h[i].who = "user" => \E j \in i .. Len(h) : Block(h, i, j)
  /\ \A i, j \in DOMAIN h : i # j => h[i] # h[j]
  /\ h # <<>> => h[1].who = "user"
  /\ \A i \in 1 .. Len(h) - 1 : h[i].who = "say" => h[i + 1].who = "user"
ThreadHoldsWholeTurns == \A c \in store : WholeTurns(c.msgs)

(* A call that ran is visible, answered or not, in the turn that is kept.   *)
Holds(c, t) == \E m \in Range(c.msgs) : m.turn = t
RunsAreVisible ==
  \A c \in store : \A t \in Turns : Holds(c, t) =>
    \A call \in ran[t] : \E m \in Range(c.msgs) : m.turn = t /\ call \in Range(m.calls)

(* "A thread that could not be read is never overwritten by one that lacks  *)
(* its earlier turns".  While nothing ran beside a turn, the thread only    *)
(* grows, and each turn in it was run with all the earlier ones in view.    *)
NeverForgets ==
  beside = {} => \A c \in store : IsPrefix(c.msgs, Latest.msgs)
SavedInContext ==
  beside = {} => \A t \in Turns : Holds(Latest, t) =>
    \E i \in DOMAIN Latest.msgs :
      Latest.msgs[i] = User(t) /\ turn[t].history = SubSeq(Latest.msgs, 1, i - 1)

(* What the thread tells later turns is what happened, and all of it.       *)
ThreadIsTrue == ThreadHoldsWholeTurns /\ RunsAreVisible /\ NeverForgets /\ SavedInContext

(* max_tool_calls may be passed by the last batch only.                     *)
CallsBounded ==
  \A t \in Turns : Cardinality(ran[t]) <= MaxToolCalls + Batch[t] - 1

(* No call runs that the deployment's grants, the caller's permissions and  *)
(* the role's declaration do not all allow.                                 *)
RanWithinGrants ==
  \A t \in Turns : \A c \in ran[t] : RunIsCovered(c.tool, Current[t])

(* "A tool loop overshoots a cap by at most the one call already in flight",*)
(* while the subject's turns do not overlap, whenever a day or a month ends.*)
SpendBounded == "turn" \notin beside => \A w \in Windows : ledger[w] <= Cap[w]

(* Every turn ends: answered, or failed where its caller sees the error.    *)
EveryTurnEnds == \A t \in Turns : (turn[t].pc = "start") ~> ~UnderWay(t)

(* "The thread then holds this turn, whole, exactly as if the save had      *)
(* answered in time": a save that landed late is in the thread.             *)
LateSaveIsKept ==
  "turn" \notin beside => \A c \in store : Range(c.msgs) \subseteq Range(Latest.msgs)
=============================================================================

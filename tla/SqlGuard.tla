----------------------------- MODULE SqlGuard ------------------------------
(***************************************************************************)
(* The application-side guard of the SQL tool (services/sql_guard.py): the *)
(* token scan that bounds the parser's work before it runs, token by token *)
(* as the source's loop, and the checks on the parsed statement and on the *)
(* guard's own rendering of it.                                            *)
(***************************************************************************)
EXTENDS Naturals, Sequences, FiniteSets

CONSTANTS
    Relations,   \* policy.allowed_relations: pairs <<schema, name>>
    MaxTokens, MaxDepth, MaxTypeNesting, MaxSquareBrackets,  \* the caps
    MaxScanned   \* bound: tokens of a scanned text

ASSUME GuardAssumption ==
    {MaxTokens, MaxDepth, MaxTypeNesting, MaxSquareBrackets, MaxScanned} \subseteq Nat

-----------------------------------------------------------------------------
(* Tokens, told apart as the scan tells them apart.                         *)

Openers == {"(", "[", "case"}
ClosedBy == [o \in Openers |-> CASE o = "(" -> ")" [] o = "[" -> "]" [] o = "case" -> "end"]
Closers == {")", "]", "end"}
Tokens == Openers \cup Closers \cup {"type", "as", "other"}

VARIABLES
    text,      \* the tokens scanned so far (history)
    levels,    \* open_levels: opener, opened by a type keyword, depth
    closedDepth, reads, squares,
    verdict    \* "scanning", "too_complex" or "unparseable"

scanVars == <<text, levels, closedDepth, reads, squares, verdict>>

Previous == IF text = <<>> THEN "none" ELSE text[Len(text)]
TypeNesting(ls) == Cardinality({i \in DOMAIN ls : ls[i].typed})

ScanInit ==
    /\ text = <<>> /\ levels = <<>> /\ closedDepth = 0 /\ reads = 0 /\ squares = 0
    /\ verdict = "scanning"

Count(ls) ==
    /\ reads' = reads + 2^TypeNesting(ls)
    /\ verdict' = IF reads' > MaxTokens THEN "too_complex" ELSE verdict

\* x[1][2] subscripts the value just closed: a chain nests like brackets.
OpenedDepth(t) ==
    IF t = "[" /\ Previous = "]" THEN closedDepth + 1
    ELSE (IF levels = <<>> THEN 0 ELSE levels[Len(levels)].depth) + 1

OpenLevel(t) ==
    LET ls == Append(levels, [by |-> t, typed |-> t /= "case" /\ Previous = "type",
                              depth |-> OpenedDepth(t)])
        square == squares + (IF t = "[" THEN 1 ELSE 0)
    IN /\ t \in Openers
       /\ levels' = ls /\ squares' = square
       /\ IF OpenedDepth(t) > MaxDepth \/ TypeNesting(ls) > MaxTypeNesting
             \/ square > MaxSquareBrackets
            THEN verdict' = "too_complex" /\ UNCHANGED reads
            ELSE Count(ls)
       /\ UNCHANGED closedDepth

NoLabels(t) == FALSE
IsLabel(t) == t = "end" /\ Previous = "as"

\* Every level is closed by its own token.
ClosesIt(t) == levels /= <<>> /\ ClosedBy[levels[Len(levels)].by] = t

CloseLevel(t) ==
    /\ t \in Closers /\ ~IsLabel(t)
    /\ IF ClosesIt(t)
         THEN /\ levels' = SubSeq(levels, 1, Len(levels) - 1)
              /\ closedDepth' = levels[Len(levels)].depth
              /\ Count(levels')
         ELSE verdict' = "unparseable" /\ UNCHANGED <<levels, closedDepth, reads>>
    /\ UNCHANGED squares

Plain(t) ==
    /\ t \notin Openers /\ (t \in Closers => IsLabel(t))
    /\ Count(levels)
    /\ UNCHANGED <<levels, closedDepth, squares>>

ScanStep ==
    /\ verdict = "scanning" /\ Len(text) < MaxScanned
    /\ \E t \in Tokens : /\ OpenLevel(t) \/ CloseLevel(t) \/ Plain(t)
                         /\ text' = Append(text, t)

ScanSpec == ScanInit /\ [][ScanStep]_scanVars

-----------------------------------------------------------------------------
(* What the scan stands for, said of the text as a whole.  A stretch is     *)
(* closed when it splits into plain tokens and brackets with closed insides. *)

PlainAt(s, i) == s[i] \notin Openers /\
                 (s[i] \in Closers => s[i] = "end" /\ i > 1 /\ s[i - 1] = "as")

Matches(s, i, k) == s[i] \in Openers /\ s[k] = ClosedBy[s[i]] /\ ~PlainAt(s, k)

\* C tells by length where the closed stretches begin.
Begins(s, C, i, j) ==
    \/ j < i
    \/ PlainAt(s, i) /\ i + 1 \in C[j - i]
    \/ \E k \in (i + 1)..j : Matches(s, i, k) /\ i + 1 \in C[k - i - 1] /\ k + 1 \in C[j - k]

Closed(s) ==
    LET C[n \in 0..Len(s)] == {i \in 1..(Len(s) + 1 - n) : Begins(s, C, i, i + n - 1)}
    IN C

\* The openers before or at p whose level is open there.
OpenAt(s, p) ==
    LET C == Closed(s)
    IN {i \in 1..p : /\ s[i] \in Openers
                     /\ ~\E k \in (i + 1)..p : Matches(s, i, k) /\ i + 1 \in C[k - i - 1]}
TypedAt(s, i) == s[i] \in {"(", "["} /\ i > 1 /\ s[i - 1] = "type"

ReadsOf(s) ==
    LET R[p \in 0..Len(s)] ==
            IF p = 0 THEN 0
            ELSE R[p - 1] + 2^Cardinality({i \in OpenAt(s, p) : TypedAt(s, i)})
    IN R[Len(s)]

(* No text opens a level the scan forgets: while it goes on, the levels it  *)
(* holds are those open in the text, each as deep as the levels around it   *)
(* at least, and the reads it counted are the parser's, level by level.     *)
ScanCountsAll ==
    verdict = "scanning" =>
        LET open == OpenAt(text, Len(text))
        IN /\ Len(levels) = Cardinality(open)
           /\ TypeNesting(levels) = Cardinality({i \in open : TypedAt(text, i)})
           /\ \A i \in DOMAIN levels : levels[i].depth >= i /\ levels[i].depth <= MaxDepth
           /\ reads = ReadsOf(text) /\ ~(reads > MaxTokens)

-----------------------------------------------------------------------------
(* A statement: how many of them, what its root is, what the tree holds     *)
(* that is refused anywhere, and its table references.                      *)

Refused == {"write or lock", "parameter", "literal", "operator", "user type",
            "qualified call", "function", "reg type", "too large"}

\* A name visible as a CTE in its own scope, or a table function, is no relation.
IsRelation(t) == ~t.call /\ ~(t.cte /\ t.schema = "" /\ ~t.catalog)
Candidates(t) == {r \in Relations : r[2] = t.name /\ (t.schema = "" \/ r[1] = t.schema)}
Resolves(t) == ~t.catalog /\ Cardinality(Candidates(t)) = 1
RelationsOf(s) == UNION {Candidates(t) : t \in {u \in s.tables : IsRelation(u)}}

Valid(s) ==
    /\ s.count = 1
    /\ s.root = "select"
    /\ s.holds \cap Refused = {}
    /\ \A t \in s.tables : /\ IsRelation(t) => Resolves(t)
                           /\ t.call => t.schema = "" /\ ~t.catalog

\* Fixed point: the rendering is what runs, so it must pass every check
\* itself and render back to the same text.
FixedPoint(q) == Valid(q.rendering) /\ q.again = q.rendering
Guarded(q) == q.short /\ Valid(q.read) /\ FixedPoint(q)
=============================================================================

---------------------------- MODULE PolicyParser ----------------------------
(***************************************************************************)
(* The recursive-descent parser of the routing-policy language             *)
(* (sdk/go/policy/parser.go) as a machine over the tokens the lexer made.  *)
(*                                                                         *)
(* The Go call stack is the sequence stack, its first element the frame    *)
(* that runs next; pos is parser.pos (1-based); val is the dynamic type of *)
(* the Expr returned last.  A step runs one function from one recursive    *)
(* call or loop test to the next.  A step that returns an error ends the   *)
(* parse with outcome "error" (every caller passes it on) and leaves pos   *)
(* where the step began; an index beyond the tokens is outcome "panic".    *)
(*                                                                         *)
(* Abstracted: the texts of names, literals and messages, the values of    *)
(* numbers (only whether ParseFloat takes them), expression trees down to  *)
(* their root's type.                                                      *)
(***************************************************************************)
EXTENDS Naturals, Sequences

CONSTANTS
  Inputs,     \* the token sequences to parse
  Malformed   \* texts the lexer calls numbers and ParseFloat rejects: 1.2.3

TokenKinds == {"ident", "number", "string", "punct", "eof"}

\* What Parse hands to the parser: tokens up to and including one tokEOF,
\* which has no text.
WellLexed(t) ==
  /\ t \in Seq([kind : TokenKinds, text : STRING])
  /\ Len(t) > 0
  /\ \A i \in 1 .. Len(t) : t[i].kind = "eof" <=> i = Len(t)
  /\ t[Len(t)].text = ""
ASSUME InputsEndInEOF == \A t \in Inputs : WellLexed(t)

VARIABLES
  toks,     \* the tokens, never changed
  pos,      \* index of the next token
  stack,    \* the frames still to run, innermost first
  val,      \* type of the expression returned last
  from,     \* where the clause being parsed, or the next one, starts
  opt,      \* the *Optimize under construction
  pol,      \* the *Policy under construction
  outcome   \* "running", "ok", "error" or "panic"

vars == <<toks, pos, stack, val, from, opt, pol, outcome>>

Frames == {"header", "clauses", "require", "lexicographic", "dimWeights",
           "or", "orMore", "and", "andMore", "cmp", "compared", "operand",
           "negated", "items", "item", "args", "arg", "path"}

Values == {"none", "literal", "path", "call", "not", "compare", "in", "and", "or"}

Dims == {"quality", "latency", "tcos", "reliability", "energy", "capacity"}

CmpOps == {"==", "!=", ">=", "<=", ">", "<"}

NoOptimize == [lexicographic |-> FALSE, order |-> <<>>, weights |-> {}]

\* A parser that has not looked at its tokens yet.
Fresh ==
  /\ pos = 1
  /\ stack = <<"header">>
  /\ val = "none"
  /\ from = 1
  /\ opt = NoOptimize
  /\ pol = [requires |-> <<>>, prefers |-> 0, optimize |-> <<>>,
            fallback |-> <<>>, switch |-> <<>>]
  /\ outcome = "running"

Init == toks \in Inputs /\ Fresh

-----------------------------------------------------------------------------
(* Tokens.  peek().text is compared without looking at the kind, so a string
   or an identifier with the text of a bracket or keyword passes for it. *)

Peek == toks[pos]

IsIdent(i) == toks[i].kind = "ident"
IsPunct(i, text) == toks[i].kind = "punct" /\ toks[i].text = text
IsFloat(i) == toks[i].kind = "number" /\ toks[i].text \notin Malformed

\* expectIdent with its error dropped: the zero token has no text.
IdentOrZero(i) == IF IsIdent(i) THEN toks[i].text ELSE ""

-----------------------------------------------------------------------------
(* How a step ends. *)

Running(frame) == outcome = "running" /\ stack # <<>> /\ Head(stack) = frame

\* The frame goes on as the frames fs, after n tokens were taken.
Go(n, fs) ==
  /\ pos' = pos + n
  /\ stack' = fs \o Tail(stack)
  /\ UNCHANGED <<toks, outcome>>

Fail ==
  /\ outcome' = "error"
  /\ UNCHANGED <<toks, pos, stack, val, from, opt, pol>>

Panic ==
  /\ outcome' = "panic"
  /\ UNCHANGED <<toks, pos, stack, val, from, opt, pol>>

\* In an expression only the position, the frames and the value change.
Continue(n, fs, v) ==
  /\ Go(n, fs)
  /\ val' = v
  /\ UNCHANGED <<from, opt, pol>>

\* A clause read in one piece: pol gets the value p.
Clause(n, p) ==
  /\ Go(n, <<"clauses">>)
  /\ pol' = p
  /\ UNCHANGED <<val, from, opt>>

-----------------------------------------------------------------------------
(* parsePolicy.  The word policy itself is not compared with anything. *)

Header ==
  /\ Running("header")
  /\ IF IsIdent(pos) /\ IsIdent(pos + 1) /\ IsPunct(pos + 2, "{")
       THEN /\ Go(3, <<"clauses">>)
            /\ from' = pos + 3
            /\ UNCHANGED <<val, opt, pol>>
       ELSE Fail

AtEnd == Peek.kind = "eof" \/ Peek.text = "}"

\* Only what precedes the closing brace is parsed; the rest is not looked at.
Close ==
  /\ Running("clauses")
  /\ AtEnd
  /\ IF IsPunct(pos, "}")
       THEN /\ outcome' = "ok"
            /\ pos' = pos + 1
            /\ stack' = Tail(stack)
            /\ UNCHANGED <<toks, val, from, opt, pol>>
       ELSE Fail

Keyword(text) ==
  /\ Running("clauses")
  /\ ~AtEnd
  /\ IsIdent(pos) /\ Peek.text = text

NoClause ==
  /\ Running("clauses")
  /\ ~AtEnd
  /\ \/ ~IsIdent(pos)
     \/ Peek.text \notin {"require", "prefer", "optimize", "fallback", "switch"}
  /\ Fail

StartRequire ==
  /\ Keyword("require")
  /\ Go(1, <<"operand", "cmp", "and", "or", "require", "clauses">>)
  /\ from' = pos
  /\ UNCHANGED <<val, opt, pol>>

\* Mutant of EndRequire: the last gate replaces those before it.
EndRequireLastWins ==
  /\ Running("require")
  /\ IF val \in {"compare", "in"}
       THEN /\ Go(0, <<>>)
            /\ pol' = [pol EXCEPT !.requires =
                         <<[form |-> val, from |-> from, to |-> pos - 1]>>]
            /\ from' = pos
            /\ UNCHANGED <<val, opt>>
       ELSE Fail

\* A gate is a comparison or a membership, never a combination of them.
EndRequire ==
  /\ Running("require")
  /\ IF val \in {"compare", "in"}
       THEN /\ Go(0, <<>>)
            /\ pol' = [pol EXCEPT !.requires =
                         Append(@, [form |-> val, from |-> from, to |-> pos - 1])]
            /\ from' = pos
            /\ UNCHANGED <<val, opt>>
       ELSE Fail

\* Mutant of PreferClause: the error of the first expectIdent is dropped.
PreferClauseNoError ==
  /\ Keyword("prefer")
  /\ IF pos + 2 > Len(toks) THEN Panic
     ELSE IF IsIdent(pos + 2) /\ IsFloat(pos + 3)
       THEN Clause(4, [pol EXCEPT !.prefers = @ + 1])
     ELSE Fail

\* The second identifier, weight in the grammar, may be any word.
PreferClause ==
  /\ Keyword("prefer")
  /\ IF IsIdent(pos + 1) /\ IsIdent(pos + 2) /\ IsFloat(pos + 3)
       THEN Clause(4, [pol EXCEPT !.prefers = @ + 1])
       ELSE Fail

\* The error of expectIdent is dropped, even at tokEOF: the number is then
\* looked for beyond the last token.
StartOptimize ==
  /\ Keyword("optimize")
  /\ IF IdentOrZero(pos + 1) = "lexicographic"
       THEN /\ Go(2, <<"lexicographic", "clauses">>)
            /\ opt' = [NoOptimize EXCEPT !.lexicographic = TRUE]
            /\ UNCHANGED <<val, from, pol>>
     ELSE IF pos + 2 > Len(toks) THEN Panic
     ELSE IF IsFloat(pos + 2)
       THEN /\ Go(3, <<"dimWeights", "clauses">>)
            /\ opt' = [NoOptimize EXCEPT !.weights = {IdentOrZero(pos + 1)}]
            /\ UNCHANGED <<val, from, pol>>
     ELSE Fail

EndOptimize ==
  /\ Go(0, <<>>)
  /\ pol' = [pol EXCEPT !.optimize = <<opt>>]
  /\ UNCHANGED <<val, from, opt>>

\* Mutant of LexicographicOrder: the loop does not test for the end.
LexicographicOrderNoEOF ==
  /\ Running("lexicographic")
  /\ IF Peek.text \in {"}", "fallback", "switch", "require", "prefer"}
       THEN EndOptimize
       ELSE /\ Go(1, <<"lexicographic">>)
            /\ opt' = [opt EXCEPT !.order = Append(@, IdentOrZero(pos))]
            /\ UNCHANGED <<val, from, pol>>

\* Mutant of LexicographicOrder: the loop does not test for the closing brace.
LexicographicOrderPastBrace ==
  /\ Running("lexicographic")
  /\ IF Peek.kind = "eof" \/ Peek.text \in {"fallback", "switch", "require", "prefer"}
       THEN EndOptimize
       ELSE /\ Go(1, <<"lexicographic">>)
            /\ opt' = [opt EXCEPT !.order = Append(@, IdentOrZero(pos))]
            /\ UNCHANGED <<val, from, pol>>

\* Every token up to the next clause, or the end, becomes a dimension.
LexicographicOrder ==
  /\ Running("lexicographic")
  /\ IF AtEnd \/ Peek.text \in {"fallback", "switch", "require", "prefer"}
       THEN EndOptimize
       ELSE /\ Go(1, <<"lexicographic">>)
            /\ opt' = [opt EXCEPT !.order = Append(@, IdentOrZero(pos))]
            /\ UNCHANGED <<val, from, pol>>

\* Mutant of DimWeights: the dimension is looked at and not taken.
DimWeightsNoTake ==
  /\ Running("dimWeights")
  /\ IF Peek.text \notin Dims THEN EndOptimize
     ELSE IF IsFloat(pos + 1)
       THEN /\ Go(0, <<"dimWeights">>)
            /\ opt' = [opt EXCEPT !.weights = @ \cup {IdentOrZero(pos)}]
            /\ UNCHANGED <<val, from, pol>>
     ELSE Fail

DimWeights ==
  /\ Running("dimWeights")
  /\ IF Peek.text \notin Dims THEN EndOptimize
     ELSE IF IsFloat(pos + 1)
       THEN /\ Go(2, <<"dimWeights">>)
            /\ opt' = [opt EXCEPT !.weights = @ \cup {IdentOrZero(pos)}]
            /\ UNCHANGED <<val, from, pol>>
     ELSE Fail

\* An optional word and a number at i: how many tokens it takes.
OptionLength(i, word) == IF toks[i].text = word THEN 2 ELSE 0
OptionFits(i, word) == toks[i].text = word => IsFloat(i + 1)

FallbackClause ==
  /\ Keyword("fallback")
  /\ IF IsIdent(pos + 1) /\ OptionFits(pos + 2, "max_attempts")
       THEN Clause(2 + OptionLength(pos + 2, "max_attempts"),
                   [pol EXCEPT !.fallback = <<pos>>])
       ELSE Fail

SwitchClause ==
  /\ Keyword("switch")
  /\ IF /\ IsIdent(pos + 1) /\ IsIdent(pos + 2)
        /\ IsPunct(pos + 3, ">=") /\ IsFloat(pos + 4)
        /\ OptionFits(pos + 5, "min_hold_seconds")
       THEN Clause(5 + OptionLength(pos + 5, "min_hold_seconds"),
                   [pol EXCEPT !.switch = <<pos>>])
       ELSE Fail

-----------------------------------------------------------------------------
(* Expressions. *)

\* Mutant of Chain: the word between two operands is looked at and not taken.
ChainNoTake(first, more, word, operand) ==
  \E frame \in {first, more} :
    /\ Running(frame)
    /\ IF Peek.text = word
         THEN Continue(0, operand \o <<more>>, val)
         ELSE Continue(0, <<>>, IF frame = more THEN word ELSE val)

\* parseOr and parseAnd: more operands as long as the word follows.
Chain(first, more, word, operand) ==
  \E frame \in {first, more} :
    /\ Running(frame)
    /\ IF Peek.text = word
         THEN Continue(1, operand \o <<more>>, val)
         ELSE Continue(0, <<>>, IF frame = more THEN word ELSE val)

OrChain == Chain("or", "orMore", "or", <<"operand", "cmp", "and">>)
AndChain == Chain("and", "andMore", "and", <<"operand", "cmp">>)

\* parseCmp, its left operand parsed.
Cmp ==
  /\ Running("cmp")
  /\ IF IsIdent(pos) /\ Peek.text = "in"
       THEN IF IsPunct(pos + 1, "[") THEN Continue(2, <<"items">>, val) ELSE Fail
     ELSE IF Peek.kind = "punct" /\ Peek.text \in CmpOps
       THEN Continue(1, <<"operand", "compared">>, val)
     ELSE Continue(0, <<>>, val)

Compared == Running("compared") /\ Continue(0, <<>>, "compare")

Comma == IF Peek.text = "," THEN 1 ELSE 0

\* The list of an in expression: literals, with or without commas.
Items ==
  /\ Running("items")
  /\ IF Peek.text = "]"
       THEN Continue(1, <<>>, "in")
       ELSE Continue(0, <<"operand", "item">>, val)

Item ==
  /\ Running("item")
  /\ IF val = "literal" THEN Continue(Comma, <<"items">>, val) ELSE Fail

\* The arguments of a call: anything but a literal is parsed and dropped.
Args ==
  /\ Running("args")
  /\ IF Peek.text = ")"
       THEN Continue(1, <<>>, "call")
       ELSE Continue(0, <<"operand", "arg">>, val)

Arg == Running("arg") /\ Continue(Comma, <<"args">>, val)

Negated == Running("negated") /\ Continue(0, <<>>, "not")

Operand ==
  /\ Running("operand")
  /\ \/ /\ \/ Peek.kind \in {"string", "number"}
           \/ IsIdent(pos) /\ Peek.text \in {"true", "false"}
        /\ Continue(1, <<>>, "literal")
     \/ /\ IsIdent(pos) /\ Peek.text = "not"
        /\ Continue(1, <<"operand", "negated">>, val)
     \/ /\ IsIdent(pos) /\ Peek.text \notin {"true", "false", "not"}
        /\ IF toks[pos + 1].text = "." /\ IsIdent(pos + 2)
             THEN IF toks[pos + 3].text = "("
                    THEN Continue(4, <<"args">>, val)
                    ELSE Continue(3, <<"path">>, val)
             ELSE Fail
     \/ Peek.kind \in {"punct", "eof"} /\ Fail

Path ==
  /\ Running("path")
  /\ IF Peek.text # "." THEN Continue(0, <<>>, "path")
     ELSE IF IsIdent(pos + 1) THEN Continue(2, <<"path">>, val)
     ELSE Fail

-----------------------------------------------------------------------------

Policy ==
  \/ Header \/ Close \/ NoClause \/ StartRequire \/ EndRequire \/ PreferClause
  \/ StartOptimize \/ LexicographicOrder \/ DimWeights
  \/ FallbackClause \/ SwitchClause

Expression ==
  \/ OrChain \/ AndChain \/ Cmp \/ Compared \/ Items \/ Item \/ Args \/ Arg
  \/ Negated \/ Operand \/ Path

Returned == outcome # "running" /\ UNCHANGED vars

Next == Policy \/ Expression \/ Returned

Spec == Init /\ [][Next]_vars /\ WF_vars(Next)

-----------------------------------------------------------------------------
(* Properties. *)

Gate == [form : {"compare", "in"}, from : Nat, to : Nat]
OptimizeType == [lexicographic : BOOLEAN, order : Seq(STRING), weights : SUBSET STRING]
PolicyType == [requires : Seq(Gate), prefers : Nat, optimize : Seq(OptimizeType),
               fallback : Seq(Nat), switch : Seq(Nat)]

\* While the parser runs there is a token to look at: peek never indexes
\* beyond the tokens.
TypeOK ==
  /\ pos \in 1 .. Len(toks) + 1
  /\ outcome \in {"running", "ok", "error", "panic"}
  /\ outcome = "running" => pos <= Len(toks)
  /\ stack \in Seq(Frames)
  /\ val \in Values
  /\ from \in 1 .. pos
  /\ opt \in OptimizeType
  /\ pol \in PolicyType

\* The parser indexes beyond its tokens for one kind of input only: one that
\* ends right after the word optimize.
PanicsOnlyAfterOptimize ==
  outcome = "panic" =>
    /\ Len(toks) > 1
    /\ toks[Len(toks) - 1] = [kind |-> "ident", text |-> "optimize"]

\* The gates collected come from disjoint stretches of the text, in order, each
\* behind its own require.
GatesApart ==
  \A i \in DOMAIN pol.requires :
    LET g == pol.requires[i]
    IN  /\ g.from < g.to /\ g.to < pos
        /\ toks[g.from] = [kind |-> "ident", text |-> "require"]
        /\ \A j \in DOMAIN pol.requires : i < j => g.to < pol.requires[j].from

IsRequire(i) == IsIdent(i) /\ toks[i].text = "require"
StartsGate(i) == \E g \in DOMAIN pol.requires : pol.requires[g].from = i

\* The word at i stands where a name does: in a path, or as one of the words
\* that a clause names after its keyword.
IsName(i) ==
  \/ toks[i - 1].text = "." \/ toks[i + 1].text = "."
  \/ toks[i - 1].text \in {"prefer", "optimize", "fallback", "switch"}
  \/ toks[i - 2].text \in {"prefer", "switch"}

\* No require of a policy is without effect: of the words require in a policy
\* returned, each one that stands where no name does starts a gate of its own,
\* and none of them is inside another gate.  So no gate is lost, merged with the
\* next or taken twice by the nesting of the functions that parse it.
GatesKept ==
  /\ GatesApart
  /\ outcome = "ok" => \A i \in 4 .. pos - 1 : IsRequire(i) => StartsGate(i) \/ IsName(i)

\* A policy ends at the first mark } of its text, and at nothing else: no clause,
\* list or loop reads beyond it, and no string with that text is taken for it.
\* Only optimize, whose error of expectIdent is dropped, takes one that follows it.
FirstBraceCloses ==
  outcome = "ok" =>
    /\ IsPunct(pos - 1, "}")
    /\ \A i \in 1 .. pos - 2 : IsPunct(i, "}") => toks[i - 1].text = "optimize"

\* The parser returns on every input: no loop waits for a token it does not
\* consume.
Returns == <>(outcome # "running")

\* No step of the parser is taken without cost: a bound on the steps to go, by
\* the tokens not yet taken and the functions not yet back.  What a frame counts
\* beside its place on the stack: an operand takes a token for certain, so that
\* a list may go on; an item is the rest of a turn of the loop over a list.
Credit(f) ==
  CASE f = "operand" -> 0
    [] f \in {"item", "arg"} -> 4
    [] OTHER -> 3

StepsToGo ==
  IF outcome # "running" THEN 0
  ELSE 8 * (Len(toks) + 1 - pos) + 2 * Len(stack) + Credit(Head(stack)) + 1

\* Parse returns a policy or an error (its signature, and the errors every
\* other production returns at the end of the input).
NeverPanics == outcome # "panic"
=============================================================================

------------------------- MODULE PolicyParser_proof -------------------------
(***************************************************************************)
(* For every set of inputs the lexer can hand over: the parser looks only  *)
(* at tokens there are, with one exception; the gates it collects are      *)
(* disjoint stretches of the policy in the order they are written, and     *)
(* none is left out; a policy ends at its first closing brace; every step  *)
(* brings the end nearer; and every plain policy of the grammar is taken   *)
(* for what it says.                                                       *)
(***************************************************************************)
EXTENDS PlainPolicies, SequenceTheorems, FiniteSetTheorems, TLAPS

Bottoms == {"header", "clauses"}
Loops == {"lexicographic", "dimWeights"}
ExprFrames == Frames \ (Bottoms \cup Loops)
Functions == ExprFrames \ {"require"}

\* The Go stack has parsePolicy at its bottom and above it either nothing, one
\* of the loops of optimize, or a require and the functions of its expression.
Shape ==
  outcome = "running" =>
    /\ stack # <<>>
    /\ stack[Len(stack)] \in Bottoms
    /\ \A i \in 1 .. Len(stack) - 1 :
         \/ stack[i] \in Functions
         \/ stack[i] = "require" /\ i = Len(stack) - 1
         \/ stack[i] \in Loops /\ Len(stack) = 2

RequireToken == [kind |-> "ident", text |-> "require"]

\* While an expression is parsed, from stands on its require, and once its
\* first operand has been taken there is more between from and pos.
InRequire ==
  outcome = "running" /\ stack # <<>> /\ Head(stack) \in ExprFrames =>
    /\ toks[from] = RequireToken
    /\ from < pos
    /\ Head(stack) # "operand" => from + 1 < pos

\* Every gate collected ends before the clause being parsed.
GatesBefore == \A i \in DOMAIN pol.requires : pol.requires[i].to < from

IInv ==
  /\ WellLexed(toks)
  /\ TypeOK
  /\ Shape
  /\ InRequire
  /\ GatesBefore
  /\ GatesApart
  /\ PanicsOnlyAfterOptimize

-----------------------------------------------------------------------------

Token == [kind : TokenKinds, text : STRING]

\* There is always a last token.
LEMMA SomeTokens ==
  ASSUME WellLexed(toks)
  PROVE  toks \in Seq(Token) /\ Len(toks) \in Nat \ {0}
<1>1. toks \in Seq(Token) /\ Len(toks) > 0
  BY DEF WellLexed, Token
<1>. QED
  BY <1>1, LenProperties

\* The texts that decide a branch of the parser without a look at the kind.
Marks == {"or", "and", "]", ")", ",", ".", "(", "}", "max_attempts", "min_hold_seconds",
          "fallback", "switch", "require", "prefer"} \cup Dims

\* What the lexer promises of its tokens, as the steps need it: a token with
\* the text of a mark, or one that is no end mark, is not the last one.
LEMMA Tokens ==
  ASSUME WellLexed(toks), NEW i \in 1 .. Len(toks)
  PROVE  /\ toks[i] = [kind |-> toks[i].kind, text |-> toks[i].text]
         /\ toks[i].kind \in TokenKinds /\ toks[i].text \in STRING
         /\ toks[i].kind = "eof" <=> i = Len(toks)
         /\ toks[i].kind # "eof" => i + 1 \in 1 .. Len(toks)
         /\ toks[i].text \in Marks => i + 1 \in 1 .. Len(toks)
<1>1. toks \in Seq(Token) /\ Len(toks) \in Nat \ {0}
  BY SomeTokens
<1>2. (toks[i].kind = "eof" <=> i = Len(toks)) /\ toks[Len(toks)].text = ""
  BY Zenon DEF WellLexed
<1>3. toks[i] \in Token
  BY <1>1, ElementOfSeq
<1>4. /\ toks[i] = [kind |-> toks[i].kind, text |-> toks[i].text]
      /\ toks[i].kind \in TokenKinds /\ toks[i].text \in STRING
  <2>. DEFINE t == toks[i]
  <2>1. t \in [kind : TokenKinds, text : STRING]
    BY <1>3 DEF Token
  <2>. HIDE DEF t
  <2>2. t = [kind |-> t.kind, text |-> t.text] /\ t.kind \in TokenKinds /\ t.text \in STRING
    BY <2>1
  <2>. QED
    BY <2>2 DEF t
<1>5. toks[i].text \in Marks => i # Len(toks)
  <2>1. "" \notin Marks
    BY Zenon DEF Marks, Dims
  <2>. QED
    BY <1>2, <2>1, Zenon
<1>6. i # Len(toks) => i + 1 \in 1 .. Len(toks)
  BY <1>1
<1>7. toks[i].kind = "eof" <=> i = Len(toks)
  BY <1>2, Zenon
<1>. QED
  BY <1>4, <1>5, <1>6, <1>7

\* What a gate is made of.
LEMMA GateTypes ==
  ASSUME TypeOK
  PROVE  /\ pol.requires \in Seq(Gate)
         /\ \A i \in DOMAIN pol.requires :
              /\ pol.requires[i] \in Gate
              /\ pol.requires[i].from \in Nat
              /\ pol.requires[i].to \in Nat
<1>1. pol.requires \in Seq(Gate)
  BY DEF TypeOK, PolicyType
<1>2. \A i \in DOMAIN pol.requires : pol.requires[i] \in Gate
  BY <1>1
<1>. QED
  BY <1>1, <1>2 DEF Gate

\* The first frame of a stack replaced by the frames fs.
LEMMA Replace ==
  ASSUME NEW S, NEW fs \in Seq(S), NEW s \in Seq(S), s # <<>>
  PROVE  /\ fs \o Tail(s) \in Seq(S)
         /\ Len(fs \o Tail(s)) = Len(fs) + Len(s) - 1
         /\ \A i \in 1 .. Len(fs) : (fs \o Tail(s))[i] = fs[i]
         /\ \A i \in 2 .. Len(s) : (fs \o Tail(s))[Len(fs) + i - 1] = s[i]
<1>1. /\ Tail(s) \in Seq(S) /\ Len(Tail(s)) = Len(s) - 1
      /\ \A i \in 1 .. Len(Tail(s)) : Tail(s)[i] = s[i + 1]
  BY HeadTailProperties
<1>2. /\ fs \o Tail(s) \in Seq(S)
      /\ Len(fs \o Tail(s)) = Len(fs) + Len(Tail(s))
      /\ \A i \in 1 .. Len(fs) + Len(Tail(s)) : (fs \o Tail(s))[i] =
           IF i <= Len(fs) THEN fs[i] ELSE Tail(s)[i - Len(fs)]
  BY <1>1, ConcatProperties
<1>3. Len(s) \in Nat /\ Len(fs) \in Nat
  OBVIOUS
<1>4. ASSUME NEW i \in 2 .. Len(s)
      PROVE  (fs \o Tail(s))[Len(fs) + i - 1] = s[i]
  <2>1. Len(fs) + i - 1 \in 1 .. Len(fs) + Len(Tail(s)) /\ ~(Len(fs) + i - 1 <= Len(fs))
    BY <1>1, <1>3
  <2>2. (Len(fs) + i - 1) - Len(fs) = i - 1 /\ i - 1 \in 1 .. Len(Tail(s)) /\ (i - 1) + 1 = i
    BY <1>1, <1>3
  <2>. QED
    BY <1>1, <1>2, <2>1, <2>2
<1>. QED
  BY <1>1, <1>2, <1>3, <1>4

\* A step that returns an error disturbs nothing.
LEMMA FailKeeps ==
  ASSUME IInv, outcome = "running", Fail
  PROVE  IInv'
BY DEF Fail, IInv, TypeOK, Shape, InRequire, GatesBefore, GatesApart,
       PanicsOnlyAfterOptimize

\* A step inside an expression: it takes n tokens that are there, at least one
\* for an operand, and leaves only functions of expressions on the stack.
LEMMA ContinueKeeps ==
  ASSUME IInv, outcome = "running", Head(stack) \in Functions,
         NEW n \in Nat, NEW fs \in Seq(Functions), NEW v \in Values,
         pos + n <= Len(toks), Head(stack) = "operand" => n > 0,
         Continue(n, fs, v)
  PROVE  IInv'
<1>. USE DEF IInv
<1>1. /\ toks' = toks /\ outcome' = "running" /\ from' = from
      /\ opt' = opt /\ pol' = pol /\ val' = v
      /\ pos' = pos + n /\ stack' = fs \o Tail(stack)
  BY DEF Continue, Go
<1>2. /\ stack \in Seq(Frames) /\ stack # <<>> /\ fs \in Seq(Frames)
      /\ stack[1] = Head(stack) /\ Len(stack) \in Nat \ {0} /\ Len(fs) \in Nat
  BY DEF TypeOK, Shape, ExprFrames, Functions
<1>3. /\ stack' \in Seq(Frames)
      /\ Len(stack') = Len(fs) + Len(stack) - 1
      /\ \A i \in 1 .. Len(fs) : stack'[i] = fs[i]
      /\ \A i \in 2 .. Len(stack) : stack'[Len(fs) + i - 1] = stack[i]
  BY <1>1, <1>2, Replace
<1>4. pos \in Nat /\ from \in Nat /\ 1 <= from /\ from <= pos /\ Len(toks) \in Nat
  BY SomeTokens DEF TypeOK
<1>5. TypeOK'
  <2>1. /\ pos' \in 1 .. Len(toks) + 1 /\ pos' <= Len(toks)
        /\ from' \in 1 .. pos'
    BY <1>1, <1>4
  <2>. QED
    BY <1>1, <1>3, <2>1 DEF TypeOK
<1>6. Len(stack) >= 2
  BY <1>2 DEF Shape, ExprFrames, Functions, Bottoms
<1>7. \A j \in 1 .. Len(stack) - 1 :
        stack[j] \in Functions \/ (stack[j] = "require" /\ j = Len(stack) - 1)
  <2>1. /\ \A j \in 1 .. Len(stack) - 1 :
              \/ stack[j] \in Functions
              \/ stack[j] = "require" /\ j = Len(stack) - 1
              \/ stack[j] \in Loops /\ Len(stack) = 2
        /\ stack[1] \in Functions
    BY <1>2 DEF Shape
  <2>. QED
    BY <1>2, <2>1
<1>8. Shape'
  <2>1. stack' # <<>> /\ stack'[Len(stack')] = stack[Len(stack)]
    BY <1>2, <1>3, <1>6
  <2>2. ASSUME NEW i \in 1 .. Len(stack') - 1
        PROVE  \/ stack'[i] \in Functions
               \/ stack'[i] = "require" /\ i = Len(stack') - 1
    <3>1. CASE i <= Len(fs)
      BY <1>2, <1>3, <3>1
    <3>2. CASE i > Len(fs)
      <4>1. /\ i - Len(fs) + 1 \in 2 .. Len(stack) - 1
            /\ Len(fs) + (i - Len(fs) + 1) - 1 = i
        BY <1>2, <1>3, <3>2
      <4>2. stack'[i] = stack[i - Len(fs) + 1]
        BY <1>3, <4>1
      <4>3. i - Len(fs) + 1 \in 1 .. Len(stack) - 1
        BY <1>2, <4>1
      <4>4. i - Len(fs) + 1 = Len(stack) - 1 => i = Len(stack') - 1
        BY <1>2, <1>3
      <4>. QED
        BY <1>7, <4>2, <4>3, <4>4
    <3>. QED
      BY <1>2, <3>1, <3>2
  <2>. QED
    BY <1>1, <2>1, <2>2 DEF Shape
<1>9. InRequire'
  BY <1>1, <1>4 DEF InRequire, Shape, Functions
<1>10. GatesBefore' /\ GatesApart'
  BY <1>1, <1>4, GateTypes DEF GatesBefore, GatesApart
<1>. QED
  BY <1>1, <1>5, <1>8, <1>9, <1>10 DEF PanicsOnlyAfterOptimize

\* The same for a step that takes at least one token, whatever runs it.
LEMMA TakeKeeps ==
  ASSUME IInv, outcome = "running", Head(stack) \in Functions,
         NEW n \in Nat \ {0}, NEW fs \in Seq(Functions), NEW v \in Values,
         pos + n <= Len(toks), Continue(n, fs, v)
  PROVE  IInv'
<1>1. n \in Nat /\ n > 0
  OBVIOUS
<1>. QED
  BY <1>1, ContinueKeeps

\* A step that leaves parsePolicy alone on the stack, or with one of the loops
\* of optimize, and adds no gate.
LEMMA BottomKeeps ==
  ASSUME IInv, outcome = "running", Head(stack) \in Bottoms \cup Loops,
         NEW n \in Nat, NEW fs, NEW f \in Loops,
         pos + n <= Len(toks), Go(n, fs),
         \/ Head(stack) \in Bottoms /\ fs \in {<<"clauses">>, <<f, "clauses">>}
         \/ Head(stack) = f /\ fs \in {<<>>, <<f>>},
         from' \in {from, pos + n}, opt' \in OptimizeType, val' \in Values,
         pol' \in PolicyType, pol'.requires = pol.requires
  PROVE  IInv'
<1>. USE DEF IInv
<1>1. toks' = toks /\ outcome' = "running" /\ pos' = pos + n /\ stack' = fs \o Tail(stack)
  BY DEF Go
<1>2. /\ stack \in Seq(Frames) /\ stack # <<>>
      /\ stack[1] = Head(stack) /\ Len(stack) \in Nat \ {0}
  BY DEF TypeOK, Shape
<1>3. /\ Head(stack) \in Bottoms => Len(stack) = 1
      /\ Head(stack) \in Loops => Len(stack) = 2
      /\ stack[Len(stack)] \in Bottoms
  <2>1. /\ stack[Len(stack)] \in Bottoms
        /\ Len(stack) > 1 =>
             stack[1] \in ExprFrames \/ (Len(stack) = 2 /\ stack[1] \in Loops)
    BY <1>2 DEF Shape, Functions, ExprFrames, Frames, Bottoms, Loops
  <2>2. Head(stack) \notin ExprFrames /\ Loops \cap Bottoms = {}
    BY DEF ExprFrames, Bottoms, Loops
  <2>3. CASE Len(stack) = 1
    BY <1>2, <2>1, <2>2, <2>3
  <2>4. CASE Len(stack) > 1
    BY <1>2, <2>1, <2>2, <2>4
  <2>5. \A l \in Nat \ {0} : l = 1 \/ l > 1
    OBVIOUS
  <2>6. Len(stack) = 1 \/ Len(stack) > 1
    BY <1>2, <2>5, Zenon
  <2>. QED
    BY <2>3, <2>4, <2>6
<1>4. fs \in Seq(Frames)
  <2>1. f \in Frames /\ "clauses" \in Frames
    BY DEF Frames, Loops
  <2>2. /\ <<"clauses">> \in Seq(Frames) /\ <<f, "clauses">> \in Seq(Frames)
        /\ <<>> \in Seq(Frames) /\ <<f>> \in Seq(Frames)
    BY <2>1
  <2>. QED
    BY <2>2, Zenon
<1>5. /\ stack' \in Seq(Frames)
      /\ Len(stack') = Len(fs) + Len(stack) - 1
      /\ \A i \in 1 .. Len(fs) : stack'[i] = fs[i]
      /\ \A i \in 2 .. Len(stack) : stack'[Len(fs) + i - 1] = stack[i]
  <2>1. /\ fs \o Tail(stack) \in Seq(Frames)
        /\ Len(fs \o Tail(stack)) = Len(fs) + Len(stack) - 1
        /\ \A i \in 1 .. Len(fs) : (fs \o Tail(stack))[i] = fs[i]
        /\ \A i \in 2 .. Len(stack) : (fs \o Tail(stack))[Len(fs) + i - 1] = stack[i]
    BY <1>2, <1>4, Replace
  <2>. QED
    BY <1>1, <2>1
<1>6. /\ Len(stack') \in {1, 2}
      /\ stack'[Len(stack')] \in Bottoms
      /\ Len(stack') = 2 => stack'[1] \in Loops
  <2>1. CASE Head(stack) \in Bottoms /\ fs = <<"clauses">>
    BY <1>3, <1>5, <2>1 DEF Bottoms
  <2>2. CASE Head(stack) \in Bottoms /\ fs = <<f, "clauses">>
    BY <1>3, <1>5, <2>2 DEF Bottoms
  <2>3. CASE Head(stack) = f /\ fs = <<>>
    <3>1. Len(stack) = 2
      BY <1>3, <2>3, Zenon
    <3>2. Len(fs) = 0 /\ 2 \in 2 .. Len(stack)
      BY <2>3, <3>1
    <3>3. stack'[0 + 2 - 1] = stack[2] /\ Len(stack') = 0 + 2 - 1
      BY <1>5, <3>1, <3>2
    <3>. QED
      BY <1>3, <3>1, <3>3
  <2>4. CASE Head(stack) = f /\ fs = <<f>>
    BY <1>3, <1>5, <2>4
  <2>. QED
    BY <2>1, <2>2, <2>3, <2>4
<1>7. Shape' /\ stack' # <<>> /\ Head(stack') \notin ExprFrames
  <2>1. stack' # <<>> /\ Head(stack') = stack'[1]
    BY <1>5, <1>6
  <2>. QED
    <3>1. \A i \in 1 .. Len(stack') - 1 : Len(stack') = 2 /\ stack'[i] \in Loops
      BY <1>6
    <3>2. stack'[1] \in Bottoms \cup Loops
      BY <1>6
    <3>. QED
      BY <1>6, <2>1, <3>1, <3>2 DEF Shape, ExprFrames
<1>8. InRequire'
  BY <1>7 DEF InRequire
<1>9. pos \in Nat /\ from \in Nat /\ 1 <= from /\ from <= pos /\ Len(toks) \in Nat
  BY SomeTokens DEF TypeOK
<1>10. TypeOK'
  <2>1. pos' \in 1 .. Len(toks) /\ from' \in 1 .. pos'
    BY <1>1, <1>9
  <2>. QED
    BY <1>1, <1>5, <1>9, <2>1 DEF TypeOK
<1>11. GatesBefore' /\ GatesApart'
  BY <1>1, <1>9, GateTypes DEF GatesBefore, GatesApart
<1>. QED
  BY <1>1, <1>7, <1>8, <1>10, <1>11 DEF PanicsOnlyAfterOptimize

-----------------------------------------------------------------------------

\* The stretches of frames that expressions push.
LEMMA ExprSeqs ==
  /\ <<>> \in Seq(Functions)
  /\ <<"operand", "cmp", "and">> \o <<"orMore">> \in Seq(Functions)
  /\ <<"operand", "cmp">> \o <<"andMore">> \in Seq(Functions)
  /\ \A f \in Functions : <<f>> \in Seq(Functions)
  /\ \A f, g \in Functions : <<f, g>> \in Seq(Functions)
<1>1. {"operand", "cmp", "and", "orMore", "andMore"} \subseteq Functions
  BY DEF Functions, ExprFrames, Frames, Bottoms, Loops
<1>2. /\ <<"operand", "cmp", "and">> \in Seq(Functions)
      /\ <<"operand", "cmp">> \in Seq(Functions)
      /\ <<"orMore">> \in Seq(Functions) /\ <<"andMore">> \in Seq(Functions)
  BY <1>1
<1>3. /\ <<"operand", "cmp", "and">> \o <<"orMore">> \in Seq(Functions)
      /\ <<"operand", "cmp">> \o <<"andMore">> \in Seq(Functions)
  BY <1>2, ConcatProperties
<1>4. \A f, g \in Functions : <<f>> \in Seq(Functions) /\ <<f, g>> \in Seq(Functions)
  OBVIOUS
<1>. QED
  BY <1>3, <1>4, EmptySeq

\* A token with the text of a mark, or of any kind but eof, is followed by
\* another.
LEMMA Ahead ==
  ASSUME IInv, NEW i \in 1 .. Len(toks)
  PROVE  /\ toks[i].text \in Marks => i + 1 \in 1 .. Len(toks)
         /\ toks[i].kind # "eof" => i + 1 \in 1 .. Len(toks)
         /\ toks[i].kind \in TokenKinds
BY Tokens DEF IInv

\* Where the parser stands while it runs.
LEMMA Standing ==
  ASSUME IInv, outcome = "running"
  PROVE  /\ pos \in 1 .. Len(toks) /\ pos \in Nat /\ Len(toks) \in Nat
         /\ stack \in Seq(Frames) /\ stack # <<>>
         /\ val \in Values /\ from \in 1 .. pos
         /\ toks[pos].text \in Marks => pos + 1 \in 1 .. Len(toks)
         /\ toks[pos].kind # "eof" => pos + 1 \in 1 .. Len(toks)
<1>1. pos \in 1 .. Len(toks) /\ pos \in Nat /\ Len(toks) \in Nat
  BY SomeTokens DEF IInv, TypeOK
<1>2. /\ stack \in Seq(Frames) /\ stack # <<>>
      /\ val \in Values /\ from \in 1 .. pos
  BY DEF IInv, TypeOK, Shape
<1>. QED
  BY <1>1, <1>2, Ahead

\* Every step of the functions that parse expressions keeps the invariant.
LEMMA ExpressionKeeps ==
  ASSUME IInv, Expression
  PROVE  IInv'
<1>1. outcome = "running"
  BY DEF Expression, OrChain, AndChain, Chain, Cmp, Compared, Items, Item, Args, Arg,
         Negated, Operand, Path, Running
<1>2. /\ pos \in 1 .. Len(toks) /\ pos \in Nat /\ Len(toks) \in Nat
      /\ val \in Values /\ pos + 0 <= Len(toks)
      /\ toks[pos].text \in Marks => pos + 1 \in 1 .. Len(toks)
      /\ toks[pos].kind # "eof" => pos + 1 \in 1 .. Len(toks)
  BY <1>1, Standing
<1>3. {"or", "orMore", "and", "andMore", "cmp", "compared", "operand", "negated",
       "items", "item", "args", "arg", "path"} \subseteq Functions
  BY DEF Functions, ExprFrames, Frames, Bottoms, Loops
<1>4. {"literal", "path", "call", "not", "compare", "in", "and", "or"} \subseteq Values
  BY DEF Values
<1>5. CASE OrChain
  <2>. PICK frame \in {"or", "orMore"} :
         /\ Running(frame)
         /\ IF Peek.text = "or"
              THEN Continue(1, <<"operand", "cmp", "and">> \o <<"orMore">>, val)
              ELSE Continue(0, <<>>, IF frame = "orMore" THEN "or" ELSE val)
    BY <1>5 DEF OrChain, Chain
  <2>1. Head(stack) \in Functions /\ Head(stack) # "operand"
    BY <1>3 DEF Running
  <2>2. CASE Peek.text = "or"
    <3>1. pos + 1 <= Len(toks)
      BY <1>2, <2>2 DEF Peek, Marks
    <3>. QED
      BY <1>1, <1>2, <2>1, <2>2, <3>1, ContinueKeeps, ExprSeqs
  <2>3. CASE Peek.text # "or"
    <3>1. (IF frame = "orMore" THEN "or" ELSE val) \in Values
      BY <1>2, <1>4
    <3>. QED
      BY <1>1, <1>2, <2>1, <2>3, <3>1, ContinueKeeps, ExprSeqs
  <2>. QED
    BY <2>2, <2>3
<1>6. CASE AndChain
  <2>. PICK frame \in {"and", "andMore"} :
         /\ Running(frame)
         /\ IF Peek.text = "and"
              THEN Continue(1, <<"operand", "cmp">> \o <<"andMore">>, val)
              ELSE Continue(0, <<>>, IF frame = "andMore" THEN "and" ELSE val)
    BY <1>6 DEF AndChain, Chain
  <2>1. Head(stack) \in Functions /\ Head(stack) # "operand"
    BY <1>3 DEF Running
  <2>2. CASE Peek.text = "and"
    <3>1. pos + 1 <= Len(toks)
      BY <1>2, <2>2 DEF Peek, Marks
    <3>. QED
      BY <1>1, <1>2, <2>1, <2>2, <3>1, ContinueKeeps, ExprSeqs
  <2>3. CASE Peek.text # "and"
    <3>1. (IF frame = "andMore" THEN "and" ELSE val) \in Values
      BY <1>2, <1>4
    <3>. QED
      BY <1>1, <1>2, <2>1, <2>3, <3>1, ContinueKeeps, ExprSeqs
  <2>. QED
    BY <2>2, <2>3
<1>7. CASE Cmp
  <2>1. Head(stack) \in Functions /\ Head(stack) # "operand"
    BY <1>3, <1>7 DEF Cmp, Running
  <2>2. CASE IsIdent(pos) /\ Peek.text = "in"
    <3>1. CASE IsPunct(pos + 1, "[")
      <4>1. pos + 1 \in 1 .. Len(toks)
        BY <1>2, <2>2 DEF Peek, IsIdent
      <4>2. (pos + 1) + 1 \in 1 .. Len(toks)
        BY <3>1, <4>1, Ahead DEF IsPunct
      <4>3. pos + 2 <= Len(toks)
        BY <1>2, <4>2
      <4>4. Continue(2, <<"items">>, val)
        BY <1>7, <2>2, <3>1 DEF Cmp
      <4>. QED
        BY <1>1, <1>2, <1>3, <2>1, <4>3, <4>4, ContinueKeeps, ExprSeqs
    <3>2. CASE ~IsPunct(pos + 1, "[")
      BY <1>1, <1>7, <2>2, <3>2, FailKeeps DEF Cmp
    <3>. QED
      BY <3>1, <3>2
  <2>3. CASE /\ ~(IsIdent(pos) /\ Peek.text = "in")
             /\ Peek.kind = "punct" /\ Peek.text \in CmpOps
    <3>1. pos + 1 <= Len(toks)
      BY <1>2, <2>3 DEF Peek
    <3>2. Continue(1, <<"operand", "compared">>, val)
      BY <1>7, <2>3 DEF Cmp
    <3>. QED
      BY <1>1, <1>2, <1>3, <2>1, <3>1, <3>2, ContinueKeeps, ExprSeqs
  <2>4. CASE /\ ~(IsIdent(pos) /\ Peek.text = "in")
             /\ ~(Peek.kind = "punct" /\ Peek.text \in CmpOps)
    <3>1. Continue(0, <<>>, val)
      BY <1>7, <2>4 DEF Cmp
    <3>. QED
      BY <1>1, <1>2, <2>1, <3>1, ContinueKeeps, ExprSeqs
  <2>. QED
    BY <2>2, <2>3, <2>4
<1>8. CASE Compared \/ Negated
  <2>1. Head(stack) \in Functions /\ Head(stack) # "operand"
    BY <1>3, <1>8 DEF Compared, Negated, Running
  <2>2. PICK v \in {"compare", "not"} : Continue(0, <<>>, v)
    BY <1>8 DEF Compared, Negated
  <2>. QED
    BY <1>1, <1>2, <1>4, <2>1, <2>2, ContinueKeeps, ExprSeqs
<1>9. CASE Items
  <2>1. Head(stack) \in Functions /\ Head(stack) # "operand"
    BY <1>3, <1>9 DEF Items, Running
  <2>2. CASE Peek.text = "]"
    <3>1. pos + 1 <= Len(toks)
      BY <1>2, <2>2 DEF Peek, Marks
    <3>2. Continue(1, <<>>, "in")
      BY <1>9, <2>2 DEF Items
    <3>. QED
      BY <1>1, <1>4, <2>1, <3>1, <3>2, ContinueKeeps, ExprSeqs
  <2>3. CASE Peek.text # "]"
    <3>1. Continue(0, <<"operand", "item">>, val)
      BY <1>9, <2>3 DEF Items
    <3>. QED
      BY <1>1, <1>2, <1>3, <2>1, <3>1, ContinueKeeps, ExprSeqs
  <2>. QED
    BY <2>2, <2>3
<1>10. CASE Args
  <2>1. Head(stack) \in Functions /\ Head(stack) # "operand"
    BY <1>3, <1>10 DEF Args, Running
  <2>2. CASE Peek.text = ")"
    <3>1. pos + 1 <= Len(toks)
      BY <1>2, <2>2 DEF Peek, Marks
    <3>2. Continue(1, <<>>, "call")
      BY <1>10, <2>2 DEF Args
    <3>. QED
      BY <1>1, <1>4, <2>1, <3>1, <3>2, ContinueKeeps, ExprSeqs
  <2>3. CASE Peek.text # ")"
    <3>1. Continue(0, <<"operand", "arg">>, val)
      BY <1>10, <2>3 DEF Args
    <3>. QED
      BY <1>1, <1>2, <1>3, <2>1, <3>1, ContinueKeeps, ExprSeqs
  <2>. QED
    BY <2>2, <2>3
<1>11. Comma \in Nat /\ pos + Comma <= Len(toks)
  <2>1. CASE Peek.text = ","
    <3>1. toks[pos].text \in Marks /\ Comma = 1
      BY <2>1 DEF Comma, Peek, Marks
    <3>. QED
      BY <1>2, <3>1
  <2>2. CASE Peek.text # ","
    BY <1>2, <2>2 DEF Comma
  <2>. QED
    BY <2>1, <2>2
<1>12. CASE Item \/ Arg
  <2>1. Head(stack) \in Functions /\ Head(stack) # "operand"
    BY <1>3, <1>12 DEF Item, Arg, Running
  <2>2. CASE Fail
    BY <1>1, <2>2, FailKeeps
  <2>3. ASSUME NEW f \in {"items", "args"}, Continue(Comma, <<f>>, val)
        PROVE  IInv'
    BY <1>1, <1>2, <1>3, <1>11, <2>1, <2>3, ContinueKeeps, ExprSeqs
  <2>. QED
    BY <1>12, <2>2, <2>3 DEF Item, Arg
<1>13. 1 \in Nat \ {0} /\ 3 \in Nat \ {0} /\ 4 \in Nat \ {0}
  OBVIOUS
<1>14. CASE Operand
  <2>1. Head(stack) \in Functions
    BY <1>3, <1>14 DEF Operand, Running
  <2>2. CASE Fail
    BY <1>1, <2>2, FailKeeps
  <2>3. CASE Continue(1, <<>>, "literal") /\ (Peek.kind \in {"string", "number"} \/ IsIdent(pos))
    <3>1. pos + 1 <= Len(toks)
      BY <1>2, <2>3 DEF Peek, IsIdent
    <3>2. Continue(1, <<>>, "literal")
      BY <2>3
    <3>3. <<>> \in Seq(Functions) /\ "literal" \in Values
      BY <1>4, ExprSeqs
    <3>. QED
      BY <1>1, <1>13, <2>1, <3>1, <3>2, <3>3, TakeKeeps, Zenon
  <2>4. CASE IsIdent(pos) /\ Continue(1, <<"operand", "negated">>, val)
    <3>1. pos + 1 <= Len(toks)
      BY <1>2, <2>4 DEF Peek, IsIdent
    <3>2. Continue(1, <<"operand", "negated">>, val)
      BY <2>4
    <3>3. <<"operand", "negated">> \in Seq(Functions)
      BY <1>3, ExprSeqs
    <3>. QED
      BY <1>1, <1>2, <1>13, <2>1, <3>1, <3>2, <3>3, TakeKeeps, Zenon
  <2>5. CASE IsIdent(pos) /\ toks[pos + 1].text = "." /\ IsIdent(pos + 2)
    <3>1. pos + 1 \in 1 .. Len(toks)
      BY <1>2, <2>5 DEF Peek, IsIdent
    <3>2. pos + 2 \in 1 .. Len(toks)
      <4>1. (pos + 1) + 1 \in 1 .. Len(toks)
        BY <2>5, <3>1, Ahead DEF Marks
      <4>. QED
        BY <1>2, <4>1
    <3>3. pos + 3 \in 1 .. Len(toks)
      <4>1. (pos + 2) + 1 \in 1 .. Len(toks)
        BY <2>5, <3>2, Ahead DEF IsIdent
      <4>. QED
        BY <1>2, <4>1
    <3>4. CASE toks[pos + 3].text = "(" /\ Continue(4, <<"args">>, val)
      <4>1. (pos + 3) + 1 \in 1 .. Len(toks)
        BY <3>3, <3>4, Ahead DEF Marks
      <4>2. pos + 4 <= Len(toks)
        BY <1>2, <4>1
      <4>3. Continue(4, <<"args">>, val) /\ <<"args">> \in Seq(Functions)
        BY <1>3, <3>4, ExprSeqs
      <4>. QED
        BY <1>1, <1>2, <1>13, <2>1, <4>2, <4>3, TakeKeeps, Zenon
    <3>5. CASE Continue(3, <<"path">>, val)
      <4>1. pos + 3 <= Len(toks) /\ <<"path">> \in Seq(Functions)
        BY <1>2, <1>3, <3>3, ExprSeqs
      <4>. QED
        BY <1>1, <1>2, <1>13, <2>1, <3>5, <4>1, TakeKeeps, Zenon
    <3>. QED
      BY <1>14, <2>2, <2>3, <2>4, <2>5, <3>4, <3>5 DEF Operand
  <2>. QED
    BY <1>14, <2>2, <2>3, <2>4, <2>5 DEF Operand
<1>15. CASE Path
  <2>1. Head(stack) \in Functions /\ Head(stack) # "operand"
    BY <1>3, <1>15 DEF Path, Running
  <2>2. CASE Fail
    BY <1>1, <2>2, FailKeeps
  <2>3. CASE Continue(0, <<>>, "path")
    BY <1>1, <1>2, <1>4, <2>1, <2>3, ContinueKeeps, ExprSeqs
  <2>4. CASE Peek.text = "." /\ IsIdent(pos + 1) /\ Continue(2, <<"path">>, val)
    <3>1. pos + 1 \in 1 .. Len(toks)
      BY <1>2, <2>4 DEF Peek, Marks
    <3>2. (pos + 1) + 1 \in 1 .. Len(toks)
      BY <2>4, <3>1, Ahead DEF IsIdent
    <3>3. pos + 2 <= Len(toks)
      BY <1>2, <3>2
    <3>. QED
      BY <1>1, <1>2, <1>3, <2>1, <2>4, <3>3, ContinueKeeps, ExprSeqs
  <2>. QED
    BY <1>15, <2>2, <2>3, <2>4 DEF Path
<1>. QED
  BY <1>5, <1>6, <1>7, <1>8, <1>9, <1>10, <1>12, <1>14, <1>15 DEF Expression

-----------------------------------------------------------------------------

\* A clause that starts on the bottom of the stack and leaves it there, or
\* leaves a loop of optimize above it.
LEMMA ClauseKeeps ==
  ASSUME IInv, outcome = "running", Head(stack) \in Bottoms,
         NEW n \in Nat, NEW fs \in {<<"clauses">>, <<"lexicographic", "clauses">>,
                                    <<"dimWeights", "clauses">>},
         pos + n <= Len(toks), Go(n, fs), from' \in {from, pos + n},
         opt' \in OptimizeType, val' = val,
         pol' \in PolicyType, pol'.requires = pol.requires
  PROVE  IInv'
<1>1. val' \in Values /\ Head(stack) \in Bottoms \cup Loops
  BY Standing
<1>2. PICK f \in Loops : fs \in {<<"clauses">>, <<f, "clauses">>}
  BY DEF Loops
<1>. QED
  BY <1>1, <1>2, BottomKeeps

\* A turn of a loop of optimize, or its end.
LEMMA LoopKeeps ==
  ASSUME IInv, outcome = "running", NEW f \in Loops, Head(stack) = f,
         NEW n \in Nat, NEW fs \in {<<>>, <<f>>},
         pos + n <= Len(toks), Go(n, fs), from' = from,
         opt' \in OptimizeType, val' = val,
         pol' \in PolicyType, pol'.requires = pol.requires
  PROVE  IInv'
<1>1. val' \in Values /\ Head(stack) \in Bottoms \cup Loops
  BY Standing
<1>. QED
  BY <1>1, BottomKeeps

\* The policy keeps its type when a clause other than require is added.
LEMMA PolicyTypes ==
  ASSUME IInv, outcome = "running"
  PROVE  /\ opt \in OptimizeType /\ pol \in PolicyType /\ pol.requires = pol.requires
         /\ [pol EXCEPT !.prefers = @ + 1] \in PolicyType
         /\ [pol EXCEPT !.prefers = @ + 1].requires = pol.requires
         /\ [pol EXCEPT !.optimize = <<opt>>] \in PolicyType
         /\ [pol EXCEPT !.optimize = <<opt>>].requires = pol.requires
         /\ [pol EXCEPT !.fallback = <<pos>>] \in PolicyType
         /\ [pol EXCEPT !.fallback = <<pos>>].requires = pol.requires
         /\ [pol EXCEPT !.switch = <<pos>>] \in PolicyType
         /\ [pol EXCEPT !.switch = <<pos>>].requires = pol.requires
<1>1. opt \in OptimizeType /\ pol \in PolicyType /\ pos \in Nat
  BY Standing DEF IInv, TypeOK
<1>2. <<opt>> \in Seq(OptimizeType) /\ <<pos>> \in Seq(Nat)
  BY <1>1
<1>3. [pol EXCEPT !.prefers = @ + 1] \in PolicyType
  <2>1. pol.prefers + 1 \in Nat
    BY <1>1 DEF PolicyType
  <2>2. [pol EXCEPT !.prefers = pol.prefers + 1] \in PolicyType
    BY <1>1, <2>1 DEF PolicyType
  <2>. QED
    BY <2>2
<1>4. /\ [pol EXCEPT !.optimize = <<opt>>] \in PolicyType
      /\ [pol EXCEPT !.fallback = <<pos>>] \in PolicyType
      /\ [pol EXCEPT !.switch = <<pos>>] \in PolicyType
  BY <1>1, <1>2 DEF PolicyType
<1>. QED
  BY <1>1, <1>3, <1>4 DEF PolicyType

\* Opening a gate: from moves to its require, and the functions that parse its
\* expression are put above parsePolicy.
LEMMA StartRequireKeeps ==
  ASSUME IInv, StartRequire
  PROVE  IInv'
<1>. DEFINE fs == <<"operand", "cmp", "and", "or", "require", "clauses">>
<1>1. /\ outcome = "running" /\ stack # <<>> /\ Head(stack) = "clauses"
      /\ IsIdent(pos) /\ toks[pos].text = "require"
      /\ pos' = pos + 1 /\ stack' = fs \o Tail(stack) /\ from' = pos
      /\ UNCHANGED <<toks, outcome, val, opt, pol>>
  BY DEF StartRequire, Keyword, Running, Peek, Go
<1>2. /\ pos \in 1 .. Len(toks) /\ pos \in Nat /\ Len(toks) \in Nat
      /\ pos + 1 \in 1 .. Len(toks)
      /\ stack \in Seq(Frames) /\ from \in 1 .. pos
  BY <1>1, Standing DEF IsIdent
<1>3. Len(stack) = 1
  <2>1. stack[1] = "clauses" /\ Len(stack) \in Nat \ {0}
    BY <1>1, <1>2
  <2>2. "clauses" \notin Functions \cup Loops \cup {"require"}
    BY DEF Functions, ExprFrames, Bottoms, Loops
  <2>3. ~(Len(stack) > 1)
    BY <1>1, <2>1, <2>2 DEF IInv, Shape
  <2>. QED
    BY <2>1, <2>3
<1>4. fs \in Seq(Frames) /\ Len(fs) = 6
  BY DEF Frames
<1>5. /\ stack' \in Seq(Frames) /\ Len(stack') = 6
      /\ \A i \in 1 .. 6 : stack'[i] = fs[i]
  <2>. HIDE DEF fs
  <2>1. /\ stack' \in Seq(Frames)
        /\ Len(stack') = Len(fs) + Len(stack) - 1
        /\ \A i \in 1 .. Len(fs) : stack'[i] = fs[i]
    BY <1>1, <1>2, <1>4, Replace
  <2>. QED
    BY <1>3, <1>4, <2>1
<1>6. Shape'
  <2>1. {"operand", "cmp", "and", "or"} \subseteq Functions
    BY DEF Functions, ExprFrames, Frames, Bottoms, Loops
  <2>2. /\ stack'[1] = "operand" /\ stack'[2] = "cmp" /\ stack'[3] = "and"
        /\ stack'[4] = "or" /\ stack'[5] = "require" /\ stack'[6] = "clauses"
    BY <1>5
  <2>. QED
    BY <1>5, <2>1, <2>2 DEF Shape, Bottoms
<1>7. toks[pos] = RequireToken
  BY <1>1, <1>2, Tokens DEF IInv, IsIdent, RequireToken
<1>8. InRequire'
  <2>1. Head(stack') = "operand"
    BY <1>5
  <2>. QED
    BY <1>1, <1>2, <1>7, <2>1 DEF InRequire
<1>9. TypeOK'
  <2>1. pos' \in 1 .. Len(toks) /\ from' \in 1 .. pos'
    BY <1>1, <1>2
  <2>. QED
    BY <1>1, <1>2, <1>5, <2>1 DEF IInv, TypeOK
<1>10. GatesBefore' /\ GatesApart'
  BY <1>1, <1>2, GateTypes DEF IInv, GatesBefore, GatesApart
<1>. QED
  BY <1>1, <1>6, <1>8, <1>9, <1>10 DEF IInv, PanicsOnlyAfterOptimize

\* Closing a gate: it goes from its require to the token before pos, after
\* every gate collected before.
LEMMA EndRequireKeeps ==
  ASSUME IInv, EndRequire
  PROVE  IInv'
<1>1. outcome = "running" /\ stack # <<>> /\ Head(stack) = "require"
  BY DEF EndRequire, Running
<1>2. /\ pos \in 1 .. Len(toks) /\ pos \in Nat /\ Len(toks) \in Nat
      /\ stack \in Seq(Frames) /\ from \in 1 .. pos
  BY <1>1, Standing
<1>3. CASE val \notin {"compare", "in"}
  BY <1>1, <1>3, FailKeeps DEF EndRequire
<1>4. CASE val \in {"compare", "in"}
  <2>. DEFINE g == [form |-> val, from |-> from, to |-> pos - 1]
  <2>1. /\ pos' = pos + 0 /\ stack' = <<>> \o Tail(stack) /\ from' = pos
        /\ pol' = [pol EXCEPT !.requires = Append(@, g)]
        /\ UNCHANGED <<toks, outcome, val, opt>>
    BY <1>4 DEF EndRequire, Go
  <2>2. toks[from] = RequireToken /\ from + 1 < pos
    BY <1>1 DEF IInv, InRequire, ExprFrames, Frames, Bottoms, Loops
  <2>3. g \in Gate /\ g.from = from /\ g.to = pos - 1
    BY <1>2, <1>4, <2>2 DEF Gate
  <2>4. pol \in PolicyType /\ pol.requires \in Seq(Gate)
    BY DEF IInv, TypeOK, PolicyType
  <2>5. pol' \in PolicyType /\ pol'.requires = Append(pol.requires, g)
    <3>1. Append(pol.requires, g) \in Seq(Gate)
      BY <2>3, <2>4, AppendProperties
    <3>. HIDE DEF g
    <3>. QED
      BY <2>1, <2>4, <3>1 DEF PolicyType
  <2>6. Len(stack) = 2 /\ stack[2] \in Bottoms
    <3>1. stack[1] = "require" /\ Len(stack) \in Nat \ {0}
      BY <1>1, <1>2
    <3>2. "require" \notin Functions \cup Loops \cup Bottoms
      BY DEF Functions, Bottoms, Loops
    <3>3. /\ stack[Len(stack)] \in Bottoms
          /\ \A i \in 1 .. Len(stack) - 1 :
               \/ stack[i] \in Functions
               \/ stack[i] = "require" /\ i = Len(stack) - 1
               \/ stack[i] \in Loops /\ Len(stack) = 2
      BY <1>1 DEF IInv, Shape
    <3>4. Len(stack) # 1
      BY <3>1, <3>2, <3>3
    <3>5. 1 \in 1 .. Len(stack) - 1
      BY <3>1, <3>4
    <3>6. 1 = Len(stack) - 1
      BY <3>1, <3>2, <3>3, <3>5
    <3>7. Len(stack) = 2
      BY <3>1, <3>6
    <3>. QED
      BY <3>3, <3>7
  <2>7. stack' \in Seq(Frames) /\ Len(stack') = 1 /\ stack'[1] = stack[2]
    <3>1. <<>> \in Seq(Frames) /\ Len(<<>>) = 0
      BY EmptySeq
    <3>2. /\ stack' \in Seq(Frames)
          /\ Len(stack') = 0 + Len(stack) - 1
          /\ \A i \in 2 .. Len(stack) : stack'[0 + i - 1] = stack[i]
      BY <1>1, <1>2, <2>1, <3>1, Replace
    <3>3. stack'[0 + 2 - 1] = stack[2]
      BY <2>6, <3>2
    <3>. QED
      BY <2>6, <3>2, <3>3
  <2>8. Shape' /\ InRequire'
    BY <2>6, <2>7 DEF Shape, InRequire, ExprFrames
  <2>9. TypeOK'
    <3>1. pos' \in 1 .. Len(toks) /\ from' \in 1 .. pos' /\ pos' <= Len(toks)
      BY <1>2, <2>1
    <3>. QED
      BY <1>1, <2>1, <2>5, <2>7, <3>1 DEF IInv, TypeOK
  <2>10. /\ DOMAIN pol'.requires = 1 .. Len(pol.requires) + 1
         /\ DOMAIN pol.requires = 1 .. Len(pol.requires)
         /\ \A i \in DOMAIN pol.requires : pol'.requires[i] = pol.requires[i]
         /\ pol'.requires[Len(pol.requires) + 1] = g
         /\ Len(pol.requires) \in Nat
    <3>. HIDE DEF g
    <3>. QED
      BY <2>3, <2>4, <2>5, AppendProperties
  <2>11. \A i \in DOMAIN pol.requires :
            /\ pol.requires[i].from \in Nat /\ pol.requires[i].to \in Nat
            /\ pol.requires[i].from < pol.requires[i].to
            /\ pol.requires[i].to < from
            /\ toks[pol.requires[i].from] = RequireToken
    BY GateTypes DEF IInv, GatesBefore, GatesApart, RequireToken
  <2>12. GatesBefore'
    <3>. SUFFICES ASSUME NEW i \in DOMAIN pol'.requires
                  PROVE  pol'.requires[i].to < from'
      BY DEF GatesBefore
    <3>. QED
      BY <1>2, <2>1, <2>3, <2>10, <2>11
  <2>13. GatesApart'
    <3>. SUFFICES ASSUME NEW i \in DOMAIN pol'.requires
                  PROVE  /\ pol'.requires[i].from < pol'.requires[i].to
                         /\ pol'.requires[i].to < pos'
                         /\ toks[pol'.requires[i].from] = RequireToken
                         /\ \A j \in DOMAIN pol'.requires :
                              i < j => pol'.requires[i].to < pol'.requires[j].from
      BY <2>1 DEF GatesApart, RequireToken
    <3>1. CASE i \in DOMAIN pol.requires
      <4>1. \A j \in DOMAIN pol.requires :
              i < j => pol.requires[i].to < pol.requires[j].from
        BY <3>1 DEF IInv, GatesApart
      <4>. QED
        BY <1>2, <2>1, <2>3, <2>10, <2>11, <3>1, <4>1
    <3>2. CASE i = Len(pol.requires) + 1
      BY <1>2, <2>1, <2>2, <2>3, <2>10, <3>2
    <3>. QED
      BY <2>10, <3>1, <3>2
  <2>. QED
    BY <1>1, <2>1, <2>8, <2>9, <2>12, <2>13
       DEF IInv, PanicsOnlyAfterOptimize
<1>. QED
  BY <1>3, <1>4

\* Returning the policy: nothing is left on the stack, and the token consumed
\* last is the closing brace.
LEMMA CloseKeeps ==
  ASSUME IInv, Close
  PROVE  IInv'
<1>1. outcome = "running" /\ stack # <<>> /\ Head(stack) = "clauses"
  BY DEF Close, Running
<1>2. /\ pos \in 1 .. Len(toks) /\ pos \in Nat /\ Len(toks) \in Nat
      /\ stack \in Seq(Frames) /\ from \in 1 .. pos
  BY <1>1, Standing
<1>3. CASE ~IsPunct(pos, "}")
  BY <1>1, <1>3, FailKeeps DEF Close
<1>4. CASE IsPunct(pos, "}")
  <2>1. /\ pos' = pos + 1 /\ stack' = Tail(stack) /\ outcome' = "ok"
        /\ UNCHANGED <<toks, val, from, opt, pol>>
    BY <1>4 DEF Close
  <2>2. Len(stack) = 1
    <3>1. stack[1] = "clauses" /\ Len(stack) \in Nat \ {0}
      BY <1>1, <1>2
    <3>2. "clauses" \notin Functions \cup Loops \cup {"require"}
      BY DEF Functions, ExprFrames, Bottoms, Loops
    <3>3. ~(Len(stack) > 1)
      BY <1>1, <3>1, <3>2 DEF IInv, Shape
    <3>. QED
      BY <3>1, <3>3
  <2>3. stack' \in Seq(Frames) /\ stack' = <<>>
    <3>1. stack' \in Seq(Frames) /\ Len(stack') = Len(stack) - 1
      BY <1>1, <1>2, <2>1, HeadTailProperties
    <3>2. Len(stack') = 0
      BY <2>2, <3>1
    <3>. QED
      BY <3>1, <3>2, EmptySeq
  <2>4. TypeOK'
    <3>1. pos' \in 1 .. Len(toks) + 1 /\ from' \in 1 .. pos'
      BY <1>2, <2>1
    <3>. QED
      BY <2>1, <2>3, <3>1 DEF IInv, TypeOK
  <2>5. GatesBefore' /\ GatesApart'
    BY <1>2, <2>1, GateTypes DEF IInv, GatesBefore, GatesApart
  <2>. QED
    BY <2>1, <2>4, <2>5 DEF IInv, Shape, InRequire, PanicsOnlyAfterOptimize
<1>. QED
  BY <1>3, <1>4

\* The text of the zero token is a string.
LEMMA ZeroText == WellLexed(toks) => "" \in STRING
<1>. SUFFICES ASSUME WellLexed(toks)
              PROVE  "" \in STRING
  OBVIOUS
<1>1. toks[Len(toks)].text = ""
  BY Zenon DEF WellLexed
<1>2. toks[Len(toks)].text \in STRING
  <2>1. Len(toks) \in 1 .. Len(toks)
    BY SomeTokens
  <2>. QED
    BY <2>1, Tokens
<1>. QED
  BY <1>1, <1>2, Zenon

\* The one panic: the dropped error of expectIdent at the end mark.
LEMMA StartOptimizeKeeps ==
  ASSUME IInv, StartOptimize
  PROVE  IInv'
<1>1. outcome = "running" /\ Head(stack) \in Bottoms /\ IsIdent(pos) /\ toks[pos].text = "optimize"
  BY DEF StartOptimize, Keyword, Running, Peek, Bottoms
<1>2. /\ pos \in 1 .. Len(toks) /\ pos \in Nat /\ Len(toks) \in Nat
      /\ pos + 1 \in 1 .. Len(toks)
  BY <1>1, Standing DEF IsIdent
<1>3. opt \in OptimizeType /\ pol \in PolicyType
  BY <1>1, PolicyTypes
<1>4. IdentOrZero(pos + 1) \in STRING
  <2>1. toks[pos + 1].text \in STRING
    BY <1>2, Tokens DEF IInv
  <2>2. "" \in STRING
    BY ZeroText DEF IInv
  <2>. QED
    BY <2>1, <2>2, Zenon DEF IdentOrZero
<1>5. NoOptimize \in OptimizeType
  <2>1. <<>> \in Seq(STRING) /\ {} \in SUBSET STRING
    BY EmptySeq
  <2>. QED
    BY <2>1 DEF NoOptimize, OptimizeType
<1>6. CASE IdentOrZero(pos + 1) = "lexicographic"
  <2>1. pos + 2 \in 1 .. Len(toks)
    <3>1. toks[pos + 1].kind # "eof"
      BY <1>6, Zenon DEF IdentOrZero, IsIdent
    <3>2. (pos + 1) + 1 \in 1 .. Len(toks)
      BY <1>2, <3>1, Ahead
    <3>. QED
      BY <1>2, <3>2
  <2>2. /\ Go(2, <<"lexicographic", "clauses">>)
        /\ opt' = [NoOptimize EXCEPT !.lexicographic = TRUE]
        /\ UNCHANGED <<val, from, pol>>
    BY <1>6 DEF StartOptimize
  <2>3. opt' \in OptimizeType
    BY <1>5, <2>2 DEF OptimizeType
  <2>. QED
    <3>1. /\ pos + 2 <= Len(toks) /\ 2 \in Nat
          /\ from' \in {from, pos + 2} /\ val' = val
          /\ pol' \in PolicyType /\ pol'.requires = pol.requires
      BY <1>2, <1>3, <2>1, <2>2
    <3>2. Go(2, <<"lexicographic", "clauses">>)
      BY <2>2
    <3>. QED
      BY <1>1, <2>3, <3>1, <3>2, ClauseKeeps
<1>7. CASE Panic /\ pos + 2 > Len(toks)
  <2>1. pos = Len(toks) - 1 /\ Len(toks) > 1
    BY <1>2, <1>7
  <2>2. toks[pos] = [kind |-> "ident", text |-> "optimize"]
    BY <1>1, <1>2, Tokens DEF IInv, IsIdent
  <2>3. PanicsOnlyAfterOptimize'
    BY <1>7, <2>1, <2>2 DEF Panic, PanicsOnlyAfterOptimize
  <2>. QED
    BY <1>1, <1>7, <2>3
       DEF Panic, IInv, TypeOK, Shape, InRequire, GatesBefore, GatesApart
<1>8. CASE ~(pos + 2 > Len(toks)) /\ IsFloat(pos + 2) /\ IdentOrZero(pos + 1) # "lexicographic"
  <2>1. pos + 2 \in 1 .. Len(toks)
    BY <1>2, <1>8
  <2>2. (pos + 2) + 1 \in 1 .. Len(toks)
    BY <1>8, <2>1, Ahead DEF IsFloat
  <2>3. pos + 3 <= Len(toks)
    BY <1>2, <2>2
  <2>4. /\ Go(3, <<"dimWeights", "clauses">>)
        /\ opt' = [NoOptimize EXCEPT !.weights = {IdentOrZero(pos + 1)}]
        /\ UNCHANGED <<val, from, pol>>
    BY <1>8 DEF StartOptimize
  <2>5. opt' \in OptimizeType
    BY <1>4, <1>5, <2>4 DEF OptimizeType
  <2>. QED
    BY <1>1, <1>2, <1>3, <2>3, <2>4, <2>5, ClauseKeeps
<1>9. CASE Fail
  BY <1>1, <1>9, FailKeeps
<1>. QED
  BY <1>6, <1>7, <1>8, <1>9 DEF StartOptimize

\* A turn of lexicographic, or of the weights, takes tokens that are there.
LEMMA LoopsKeep ==
  ASSUME IInv, LexicographicOrder \/ DimWeights
  PROVE  IInv'
<1>1. outcome = "running" /\ stack # <<>>
  BY DEF LexicographicOrder, DimWeights, Running
<1>2. /\ pos \in 1 .. Len(toks) /\ pos \in Nat /\ Len(toks) \in Nat
      /\ pos + 0 <= Len(toks)
      /\ toks[pos].kind # "eof" => pos + 1 \in 1 .. Len(toks)
      /\ toks[pos].text \in Marks => pos + 1 \in 1 .. Len(toks)
  BY <1>1, Standing
<1>3. PICK f \in Loops : Head(stack) = f
  BY DEF LexicographicOrder, DimWeights, Running, Loops
<1>4. /\ opt \in OptimizeType /\ pol \in PolicyType
      /\ [pol EXCEPT !.optimize = <<opt>>] \in PolicyType
      /\ [pol EXCEPT !.optimize = <<opt>>].requires = pol.requires
  BY <1>1, PolicyTypes
<1>5. IdentOrZero(pos) \in STRING
  BY <1>1, <1>2, ZeroText, Tokens, Zenon DEF IInv, IdentOrZero
<1>6. CASE EndOptimize
  <2>1. Go(0, <<>>) /\ pol' = [pol EXCEPT !.optimize = <<opt>>] /\ UNCHANGED <<val, from, opt>>
    BY <1>6 DEF EndOptimize
  <2>. QED
    BY <1>1, <1>2, <1>3, <1>4, <2>1, LoopKeeps
<1>7. CASE Fail
  BY <1>1, <1>7, FailKeeps
<1>8. CASE LexicographicOrder /\ ~EndOptimize
  <2>1. toks[pos].kind # "eof" /\ Head(stack) = "lexicographic"
    BY <1>8 DEF LexicographicOrder, AtEnd, Peek, Running
  <2>2. /\ Go(1, <<"lexicographic">>)
        /\ opt' = [opt EXCEPT !.order = Append(@, IdentOrZero(pos))]
        /\ UNCHANGED <<val, from, pol>>
    BY <1>8 DEF LexicographicOrder
  <2>3. opt' \in OptimizeType
    <3>1. opt.order \in Seq(STRING)
      BY <1>4 DEF OptimizeType
    <3>2. Append(opt.order, IdentOrZero(pos)) \in Seq(STRING)
      BY <1>5, <3>1, AppendProperties
    <3>. QED
      BY <1>4, <2>2, <3>2 DEF OptimizeType
  <2>4. "lexicographic" \in Loops /\ pos + 1 <= Len(toks)
    BY <1>2, <2>1 DEF Loops
  <2>. QED
    BY <1>1, <1>4, <2>1, <2>2, <2>3, <2>4, LoopKeeps
<1>9. CASE DimWeights /\ ~EndOptimize /\ ~Fail
  <2>1. toks[pos].text \in Dims /\ Head(stack) = "dimWeights" /\ IsFloat(pos + 1)
    BY <1>9 DEF DimWeights, Peek, Running
  <2>2. /\ Go(2, <<"dimWeights">>)
        /\ opt' = [opt EXCEPT !.weights = @ \cup {IdentOrZero(pos)}]
        /\ UNCHANGED <<val, from, pol>>
    BY <1>9 DEF DimWeights
  <2>3. opt' \in OptimizeType
    BY <1>4, <1>5, <2>2 DEF OptimizeType
  <2>4. pos + 1 \in 1 .. Len(toks)
    BY <1>2, <2>1 DEF Marks
  <2>5. (pos + 1) + 1 \in 1 .. Len(toks)
    BY <2>1, <2>4, Ahead DEF IsFloat
  <2>6. "dimWeights" \in Loops /\ pos + 2 <= Len(toks)
    BY <1>2, <2>5 DEF Loops
  <2>. QED
    BY <1>1, <1>4, <2>1, <2>2, <2>3, <2>6, LoopKeeps
<1>. QED
  BY <1>6, <1>7, <1>8, <1>9 DEF LexicographicOrder, DimWeights

\* The header and the clauses read in one piece take tokens that are there.
LEMMA PiecesKeep ==
  ASSUME IInv, Header \/ PreferClause \/ FallbackClause \/ SwitchClause
  PROVE  IInv'
<1>1. outcome = "running" /\ stack # <<>> /\ Head(stack) \in Bottoms
  BY DEF Header, PreferClause, FallbackClause, SwitchClause, Keyword, Running, Bottoms
<1>2. /\ pos \in 1 .. Len(toks) /\ pos \in Nat /\ Len(toks) \in Nat
  BY <1>1, Standing
<1>3. /\ opt \in OptimizeType /\ pol \in PolicyType
      /\ [pol EXCEPT !.prefers = @ + 1] \in PolicyType
      /\ [pol EXCEPT !.prefers = @ + 1].requires = pol.requires
      /\ [pol EXCEPT !.fallback = <<pos>>] \in PolicyType
      /\ [pol EXCEPT !.fallback = <<pos>>].requires = pol.requires
      /\ [pol EXCEPT !.switch = <<pos>>] \in PolicyType
      /\ [pol EXCEPT !.switch = <<pos>>].requires = pol.requires
  BY <1>1, PolicyTypes
<1>5. CASE Fail
  BY <1>1, <1>5, FailKeeps
<1>6. ASSUME NEW n \in Nat, NEW p \in PolicyType, p.requires = pol.requires,
             pos + n <= Len(toks), Clause(n, p)
      PROVE  IInv'
  <2>1. Go(n, <<"clauses">>) /\ pol' = p /\ UNCHANGED <<val, from, opt>>
    BY <1>6 DEF Clause
  <2>. QED
    BY <1>1, <1>3, <1>6, <2>1, ClauseKeeps
<1>7. CASE Header /\ ~Fail
  <2>1. IsIdent(pos) /\ IsIdent(pos + 1) /\ IsPunct(pos + 2, "{")
    BY <1>7 DEF Header
  <2>2. pos + 3 <= Len(toks)
    <3>1. pos + 1 \in 1 .. Len(toks)
      BY <1>2, <2>1, Ahead DEF IsIdent
    <3>2. (pos + 1) + 1 \in 1 .. Len(toks)
      BY <2>1, <3>1, Ahead DEF IsIdent
    <3>3. pos + 2 \in 1 .. Len(toks)
      BY <1>2, <3>2
    <3>4. (pos + 2) + 1 \in 1 .. Len(toks)
      BY <2>1, <3>3, Ahead DEF IsPunct
    <3>. QED
      BY <1>2, <3>4
  <2>3. Go(3, <<"clauses">>) /\ from' = pos + 3 /\ UNCHANGED <<val, opt, pol>>
    BY <1>7 DEF Header
  <2>. QED
    BY <1>1, <1>3, <2>2, <2>3, ClauseKeeps
<1>8. CASE PreferClause /\ ~Fail
  <2>1. IsIdent(pos) /\ IsIdent(pos + 1) /\ IsIdent(pos + 2) /\ IsFloat(pos + 3)
    BY <1>8 DEF PreferClause, Keyword
  <2>2. pos + 4 <= Len(toks)
    <3>1. pos + 1 \in 1 .. Len(toks)
      BY <1>2, <2>1, Ahead DEF IsIdent
    <3>2. (pos + 1) + 1 \in 1 .. Len(toks)
      BY <2>1, <3>1, Ahead DEF IsIdent
    <3>3. pos + 2 \in 1 .. Len(toks)
      BY <1>2, <3>2
    <3>4. (pos + 2) + 1 \in 1 .. Len(toks)
      BY <2>1, <3>3, Ahead DEF IsIdent
    <3>5. pos + 3 \in 1 .. Len(toks)
      BY <1>2, <3>4
    <3>6. (pos + 3) + 1 \in 1 .. Len(toks)
      BY <2>1, <3>5, Ahead DEF IsFloat
    <3>. QED
      BY <1>2, <3>6
  <2>3. Clause(4, [pol EXCEPT !.prefers = @ + 1])
    BY <1>8 DEF PreferClause
  <2>. QED
    BY <1>3, <1>6, <2>2, <2>3
<1>9. ASSUME NEW k \in 1 .. Len(toks), NEW w \in {"max_attempts", "min_hold_seconds"},
             OptionFits(k, w)
      PROVE  OptionLength(k, w) \in Nat /\ k + OptionLength(k, w) <= Len(toks)
  <2>1. CASE toks[k].text = w
    <3>1. toks[k].text \in Marks /\ IsFloat(k + 1) /\ OptionLength(k, w) = 2
      BY <1>9, <2>1 DEF OptionFits, OptionLength, Marks
    <3>2. k + 1 \in 1 .. Len(toks)
      BY <3>1, Ahead
    <3>3. (k + 1) + 1 \in 1 .. Len(toks)
      BY <3>1, <3>2, Ahead DEF IsFloat
    <3>. QED
      BY <1>2, <3>1, <3>3
  <2>2. CASE toks[k].text # w
    BY <1>2, <2>2 DEF OptionLength
  <2>. QED
    BY <2>1, <2>2
<1>10. CASE FallbackClause /\ ~Fail
  <2>. DEFINE o == OptionLength(pos + 2, "max_attempts")
  <2>1. IsIdent(pos) /\ IsIdent(pos + 1) /\ OptionFits(pos + 2, "max_attempts")
    BY <1>10 DEF FallbackClause, Keyword
  <2>2. pos + 2 \in 1 .. Len(toks)
    <3>1. pos + 1 \in 1 .. Len(toks)
      BY <1>2, <2>1, Ahead DEF IsIdent
    <3>2. (pos + 1) + 1 \in 1 .. Len(toks)
      BY <2>1, <3>1, Ahead DEF IsIdent
    <3>. QED
      BY <1>2, <3>2
  <2>3. o \in Nat /\ (pos + 2) + o <= Len(toks)
    BY <1>9, <2>1, <2>2
  <2>4. Clause(2 + o, [pol EXCEPT !.fallback = <<pos>>])
    BY <1>10 DEF FallbackClause
  <2>. HIDE DEF o
  <2>5. 2 + o \in Nat /\ pos + (2 + o) <= Len(toks)
    BY <1>2, <2>3
  <2>. QED
    BY <1>3, <1>6, <2>4, <2>5
<1>11. CASE SwitchClause /\ ~Fail
  <2>. DEFINE o == OptionLength(pos + 5, "min_hold_seconds")
  <2>1. /\ IsIdent(pos) /\ IsIdent(pos + 1) /\ IsIdent(pos + 2)
        /\ IsPunct(pos + 3, ">=") /\ IsFloat(pos + 4)
        /\ OptionFits(pos + 5, "min_hold_seconds")
    BY <1>11 DEF SwitchClause, Keyword
  <2>2. pos + 5 \in 1 .. Len(toks)
    <3>1. pos + 1 \in 1 .. Len(toks)
      BY <1>2, <2>1, Ahead DEF IsIdent
    <3>2. (pos + 1) + 1 \in 1 .. Len(toks)
      BY <2>1, <3>1, Ahead DEF IsIdent
    <3>3. pos + 2 \in 1 .. Len(toks)
      BY <1>2, <3>2
    <3>4. (pos + 2) + 1 \in 1 .. Len(toks)
      BY <2>1, <3>3, Ahead DEF IsIdent
    <3>5. pos + 3 \in 1 .. Len(toks)
      BY <1>2, <3>4
    <3>6. (pos + 3) + 1 \in 1 .. Len(toks)
      BY <2>1, <3>5, Ahead DEF IsPunct
    <3>7. pos + 4 \in 1 .. Len(toks)
      BY <1>2, <3>6
    <3>8. (pos + 4) + 1 \in 1 .. Len(toks)
      BY <2>1, <3>7, Ahead DEF IsFloat
    <3>. QED
      BY <1>2, <3>8
  <2>3. o \in Nat /\ (pos + 5) + o <= Len(toks)
    BY <1>9, <2>1, <2>2
  <2>4. Clause(5 + o, [pol EXCEPT !.switch = <<pos>>])
    BY <1>11 DEF SwitchClause
  <2>. HIDE DEF o
  <2>5. 5 + o \in Nat /\ pos + (5 + o) <= Len(toks)
    BY <1>2, <2>3
  <2>. QED
    BY <1>3, <1>6, <2>4, <2>5
<1>. QED
  BY <1>5, <1>7, <1>8, <1>10, <1>11

-----------------------------------------------------------------------------

\* A parser that starts on well-lexed tokens starts in the invariant.
LEMMA FreshIInv == WellLexed(toks) /\ Fresh => IInv
<1>. SUFFICES ASSUME WellLexed(toks), Fresh
              PROVE  IInv
  OBVIOUS
<1>. USE DEF Fresh
<1>1. WellLexed(toks) /\ Len(toks) \in Nat \ {0}
  BY SomeTokens
<1>2. stack \in Seq(Frames) /\ Len(stack) = 1 /\ stack[1] = "header" /\ Head(stack) = "header"
  BY DEF Frames
<1>3. opt \in OptimizeType
  <2>1. <<>> \in Seq(STRING) /\ {} \in SUBSET STRING
    BY EmptySeq
  <2>. QED
    BY <2>1 DEF NoOptimize, OptimizeType
<1>4. pol \in PolicyType /\ pol.requires = <<>>
  <2>1. /\ <<>> \in Seq(Gate) /\ <<>> \in Seq(OptimizeType) /\ <<>> \in Seq(Nat)
        /\ 0 \in Nat
    BY EmptySeq
  <2>. QED
    BY <2>1 DEF PolicyType
<1>5. TypeOK
  BY <1>1, <1>2, <1>3, <1>4 DEF TypeOK, Values
<1>6. Shape
  BY <1>2 DEF Shape, Bottoms
<1>7. InRequire
  BY <1>2 DEF InRequire, ExprFrames, Bottoms
<1>8. GatesBefore /\ GatesApart
  <2>1. DOMAIN pol.requires = {}
    BY <1>4
  <2>. QED
    BY <2>1 DEF GatesBefore, GatesApart
<1>. QED
  BY <1>1, <1>5, <1>6, <1>7, <1>8 DEF IInv, PanicsOnlyAfterOptimize

\* The parse starts in the invariant.
LEMMA InitIInv == Init => IInv
BY FreshIInv, InputsEndInEOF DEF Init

\* Every step of the parser keeps it.
LEMMA NextIInv == IInv /\ [Next]_vars => IInv'
<1>. SUFFICES ASSUME IInv, [Next]_vars
              PROVE  IInv'
  OBVIOUS
<1>1. CASE Policy
  <2>1. CASE NoClause
    BY <2>1, FailKeeps DEF NoClause, Running
  <2>. QED
    BY <1>1, <2>1, PiecesKeep, CloseKeeps, StartRequireKeeps, EndRequireKeeps,
       StartOptimizeKeeps, LoopsKeep DEF Policy
<1>2. CASE Expression
  BY <1>2, ExpressionKeeps
<1>3. CASE UNCHANGED vars
  BY <1>3 DEF vars, IInv, TypeOK, Shape, InRequire, GatesBefore, GatesApart,
              PanicsOnlyAfterOptimize
<1>. QED
  BY <1>1, <1>2, <1>3 DEF Next, Returned

\* No step changes the tokens.
LEMMA NextSameTokens == Next => toks' = toks
<1>1. Fail \/ Panic => toks' = toks
  BY DEF Fail, Panic
<1>2. \A n, fs : Go(n, fs) => toks' = toks
  BY DEF Go
<1>3. \A n, fs, v : Continue(n, fs, v) => toks' = toks
  BY <1>2 DEF Continue
<1>4. \A n, p : Clause(n, p) => toks' = toks
  BY <1>2 DEF Clause
<1>5. Expression => toks' = toks
  BY <1>1, <1>3, Zenon DEF Expression, OrChain, AndChain, Chain, Cmp, Compared, Items, Item,
     Args, Arg, Negated, Operand, Path
<1>6. Policy => toks' = toks
  BY <1>1, <1>2, <1>4, Zenon DEF Policy, Header, Close, NoClause, StartRequire, EndRequire,
     PreferClause, StartOptimize, LexicographicOrder, DimWeights, EndOptimize, FallbackClause,
     SwitchClause
<1>. QED
  BY <1>5, <1>6 DEF Next, Returned, vars

\* The inductive invariant holds in every reachable state.
LEMMA Invariance == Spec => []IInv
BY InitIInv, NextIInv, PTL DEF Spec

-----------------------------------------------------------------------------
(* No require is without effect, and the first brace closes. *)

\* The clause of the require at i is being parsed.
Open(i) == i = from /\ Len(stack) > 1 /\ stack[Len(stack) - 1] = "require"

\* The token at i neither starts a gate nor closes the policy.
Tame(i) ==
  /\ IsPunct(i, "}") => toks[i - 1].text = "optimize"
  /\ IsRequire(i) /\ i > 3 => IsName(i)

\* Before its header is read parsePolicy stands on the first token, alone.
HeaderFirst == \A j \in 1 .. Len(stack) : stack[j] = "header" => pos = 1 /\ j = 1

\* Of the tokens taken, each one that is not tame has started a gate, or has
\* started the one being parsed, or is the brace taken last.
WordsInv ==
  /\ HeaderFirst
  /\ outcome = "running" =>
       \A i \in 1 .. pos - 1 :
         /\ IsPunct(i, "}") => toks[i - 1].text = "optimize"
         /\ IsRequire(i) /\ i > 3 => StartsGate(i) \/ IsName(i) \/ Open(i)
  /\ outcome = "ok" => GatesKept /\ FirstBraceCloses

\* No frame that is pushed is the header's.
PushedFrames == Frames \ {"header"}

\* So no step comes back to it.
LEMMA NoSecondHeader ==
  ASSUME IInv, WordsInv, outcome = "running", NEW fs \in Seq(PushedFrames),
         stack' = fs \o Tail(stack)
  PROVE  HeaderFirst'
<1>1. stack \in Seq(Frames) /\ stack # <<>> /\ Len(stack) \in Nat \ {0}
  BY Standing
<1>2. fs \in Seq(Frames) /\ Len(fs) \in Nat /\ \A i \in 1 .. Len(fs) : fs[i] # "header"
  BY DEF PushedFrames
<1>3. /\ Len(stack') = Len(fs) + Len(stack) - 1
      /\ \A i \in 1 .. Len(fs) : stack'[i] = fs[i]
      /\ \A i \in 2 .. Len(stack) : stack'[Len(fs) + i - 1] = stack[i]
  BY <1>1, <1>2, Replace
<1>4. ASSUME NEW j \in 1 .. Len(stack')
      PROVE  stack'[j] # "header"
  <2>1. CASE j <= Len(fs)
    BY <1>2, <1>3, <2>1
  <2>2. CASE ~(j <= Len(fs))
    <3>1. /\ j - Len(fs) + 1 \in 2 .. Len(stack)
          /\ Len(fs) + (j - Len(fs) + 1) - 1 = j
      BY <1>1, <1>2, <1>3, <2>2
    <3>2. \A i \in 2 .. Len(stack) : stack[i] # "header"
      <4>1. \A i \in 2 .. Len(stack) : i \in 1 .. Len(stack) /\ i # 1
        BY <1>1
      <4>. QED
        BY <4>1 DEF WordsInv, HeaderFirst
    <3>. QED
      BY <1>3, <3>1, <3>2
  <2>. QED
    BY <2>1, <2>2
<1>. QED
  BY <1>4 DEF HeaderFirst

\* Where the parser comes to when it takes n tokens from p on.
LEMMA Taken ==
  ASSUME NEW n \in Nat, NEW p \in Nat, NEW q, q = p + n
  PROVE  \A i \in 1 .. q - 1 : i \in 1 .. p - 1 \/ i \in p .. p + n - 1
OBVIOUS

\* A step that takes tame tokens, or opens a gate, and loses none.
LEMMA TakesTame ==
  ASSUME IInv, WordsInv, outcome = "running", outcome' = "running", toks' = toks,
         NEW n \in Nat, pos' = pos + n,
         NEW fs \in Seq(PushedFrames), stack' = fs \o Tail(stack),
         \A i \in 1 .. pos - 1 : StartsGate(i) => StartsGate(i)',
         \A i \in 1 .. pos - 1 : Open(i) => Open(i)' \/ StartsGate(i)',
         \A i \in pos .. pos + n - 1 : Tame(i) \/ (Open(i)' /\ ~IsPunct(i, "}"))
  PROVE  WordsInv'
<1>1. pos \in Nat /\ \A i \in 1 .. pos' - 1 : i \in 1 .. pos - 1 \/ i \in pos .. pos + n - 1
  <2>1. pos \in Nat
    BY Standing
  <2>. QED
    BY <2>1, Taken, Zenon
<1>2. \A i : /\ IsPunct(i, "}")' <=> IsPunct(i, "}")
             /\ IsRequire(i)' <=> IsRequire(i)
             /\ IsName(i)' <=> IsName(i)
             /\ toks'[i - 1].text = toks[i - 1].text
  BY DEF IsPunct, IsRequire, IsIdent, IsName
<1>3. ASSUME NEW i \in 1 .. pos' - 1
      PROVE  /\ IsPunct(i, "}") => toks[i - 1].text = "optimize"
             /\ IsRequire(i) /\ i > 3 => StartsGate(i)' \/ IsName(i) \/ Open(i)'
  <2>1. CASE i \in 1 .. pos - 1
    BY <2>1 DEF WordsInv
  <2>2. CASE i \in pos .. pos + n - 1
    BY <2>2 DEF Tame
  <2>. QED
    BY <1>1, <2>1, <2>2
<1>4. HeaderFirst'
  BY NoSecondHeader
<1>5. WordsInv' <=> HeaderFirst' /\
        \A i \in 1 .. pos' - 1 :
          /\ IsPunct(i, "}")' => toks'[i - 1].text = "optimize"
          /\ (IsRequire(i)' /\ i > 3) => (StartsGate(i)' \/ IsName(i)' \/ Open(i)')
  BY DEF WordsInv
<1>. QED
  BY <1>2, <1>3, <1>4, <1>5, Zenon

\* A step inside an expression stays under the require that started it.
LEMMA ExpressionTakes ==
  ASSUME IInv, WordsInv, outcome = "running", Head(stack) \in Functions,
         NEW n \in Nat, NEW fs \in Seq(Functions), NEW v, Continue(n, fs, v),
         \A i \in pos .. pos + n - 1 : Tame(i)
  PROVE  WordsInv'
<1>1. /\ outcome' = "running" /\ toks' = toks /\ pos' = pos + n /\ from' = from
      /\ stack' = fs \o Tail(stack) /\ pol' = pol
  BY DEF Continue, Go
<1>2. /\ stack \in Seq(Frames) /\ stack # <<>> /\ fs \in Seq(Frames)
      /\ stack[1] = Head(stack) /\ Len(stack) \in Nat \ {0} /\ Len(fs) \in Nat
  BY Standing DEF ExprFrames, Functions
<1>3. /\ Len(stack') = Len(fs) + Len(stack) - 1
      /\ \A i \in 2 .. Len(stack) : stack'[Len(fs) + i - 1] = stack[i]
  BY <1>1, <1>2, Replace
<1>4. ASSUME NEW i, Open(i)
      PROVE  Open(i)'
  <2>1. Len(stack) - 1 # 1
    BY <1>2, <1>4 DEF Open, Functions
  <2>2. /\ Len(stack) - 1 \in 2 .. Len(stack)
        /\ Len(fs) + (Len(stack) - 1) - 1 = Len(stack') - 1 /\ Len(stack') > 1
    <3>1. Len(stack) > 1
      BY <1>4 DEF Open
    <3>2. \A k, l, m \in Nat : l > 1 /\ l - 1 # 1 /\ m = k + l - 1 =>
            /\ l - 1 \in 2 .. l
            /\ k + (l - 1) - 1 = m - 1 /\ m > 1
      OBVIOUS
    <3>3. Len(fs) \in Nat /\ Len(stack) \in Nat /\ Len(stack') \in Nat
      BY <1>2, <1>3
    <3>. QED
      BY <1>3, <2>1, <3>1, <3>2, <3>3, Zenon
  <2>3. stack'[Len(stack') - 1] = stack[Len(stack) - 1]
    BY <1>3, <2>2
  <2>. QED
    BY <1>1, <1>4, <2>2, <2>3 DEF Open
<1>5. \A i : StartsGate(i) => StartsGate(i)'
  BY <1>1 DEF StartsGate
<1>6. fs \in Seq(PushedFrames)
  BY DEF PushedFrames, Functions, ExprFrames, Bottoms
<1>. QED
  BY <1>1, <1>4, <1>5, <1>6, TakesTame

\* With parsePolicy or a loop of optimize on top no gate is open.
LEMMA NoneOpen ==
  ASSUME IInv, outcome = "running", Head(stack) \in Bottoms \cup Loops
  PROVE  \A i : ~Open(i)
<1>1. stack \in Seq(Frames) /\ stack # <<>> /\ stack[1] = Head(stack) /\ Len(stack) \in Nat \ {0}
  BY Standing
<1>2. \A i \in 1 .. Len(stack) - 1 :
         \/ stack[i] \in Functions
         \/ stack[i] = "require" /\ i = Len(stack) - 1
         \/ stack[i] \in Loops /\ Len(stack) = 2
  BY DEF IInv, Shape
<1>3. /\ Head(stack) \notin Functions /\ Head(stack) # "require"
      /\ Head(stack) \in Loops => Head(stack) # "require"
  BY DEF Functions, ExprFrames, Bottoms, Loops
<1>4. ASSUME Len(stack) > 1
      PROVE  Len(stack) = 2 /\ stack[Len(stack) - 1] # "require"
  <2>1. 1 \in 1 .. Len(stack) - 1
    BY <1>1, <1>4
  <2>2. Len(stack) = 2
    BY <1>1, <1>2, <1>3, <2>1
  <2>. QED
    BY <1>1, <1>3, <2>2
<1>. QED
  BY <1>4 DEF Open

\* A step of parsePolicy or of a loop that adds no gate.
LEMMA ClauseTakes ==
  ASSUME IInv, WordsInv, outcome = "running", Head(stack) \in Bottoms \cup Loops,
         NEW n \in Nat, NEW fs \in Seq(PushedFrames), Go(n, fs), pol'.requires = pol.requires,
         \A i \in pos .. pos + n - 1 : Tame(i)
  PROVE  WordsInv'
<1>1. outcome' = "running" /\ toks' = toks /\ pos' = pos + n /\ stack' = fs \o Tail(stack)
  BY DEF Go
<1>2. \A i : StartsGate(i) => StartsGate(i)'
  BY DEF StartsGate
<1>. QED
  BY <1>1, <1>2, NoneOpen, TakesTame

\* A step that ends the parse without a policy.
LEMMA EndsWithout ==
  ASSUME WordsInv, outcome' \in {"error", "panic"}, UNCHANGED <<pos, stack>>
  PROVE  WordsInv'
BY DEF WordsInv, HeaderFirst

\* Every step of the functions that parse expressions takes tame tokens.
LEMMA ExpressionWords ==
  ASSUME IInv, WordsInv, Expression
  PROVE  WordsInv'
<1>1. outcome = "running"
  BY DEF Expression, OrChain, AndChain, Chain, Cmp, Compared, Items, Item, Args, Arg,
         Negated, Operand, Path, Running
<1>2. CASE Fail
  BY <1>2, EndsWithout DEF Fail
<1>3. {"or", "orMore", "and", "andMore", "cmp", "compared", "operand", "negated",
       "items", "item", "args", "arg", "path"} \subseteq Functions
  BY DEF Functions, ExprFrames, Frames, Bottoms, Loops
<1>4. Head(stack) \in Functions
  BY <1>3 DEF Expression, OrChain, AndChain, Chain, Cmp, Compared, Items, Item, Args, Arg,
         Negated, Operand, Path, Running
<1>5. pos \in Nat
  BY <1>1, Standing
<1>6. ASSUME NEW fs \in Seq(Functions), NEW v, Continue(0, fs, v)
      PROVE  WordsInv'
  <2>1. \A i \in pos .. pos + 0 - 1 : Tame(i)
    BY <1>5
  <2>. QED
    BY <1>1, <1>4, <1>6, <2>1, ExpressionTakes
<1>7. ASSUME NEW fs \in Seq(Functions), NEW v, Continue(1, fs, v), Tame(pos)
      PROVE  WordsInv'
  <2>1. \A i \in pos .. pos + 1 - 1 : Tame(i)
    BY <1>5, <1>7
  <2>. QED
    BY <1>1, <1>4, <1>7, <2>1, ExpressionTakes
<1>8. ASSUME NEW i, toks[i].kind # "punct" \/ toks[i].text # "}",
             toks[i].kind # "ident" \/ toks[i].text # "require"
      PROVE  Tame(i)
  BY <1>8 DEF Tame, IsPunct, IsRequire, IsIdent
<1>9. CASE OrChain \/ AndChain
  <2>1. ASSUME Peek.text \in {"or", "and"}
        PROVE  Tame(pos)
    BY <1>8, <2>1 DEF Peek
  <2>2. \E fs \in Seq(Functions) : \E v :
          Continue(0, fs, v) \/ (Continue(1, fs, v) /\ Peek.text \in {"or", "and"})
    BY <1>9, ExprSeqs DEF OrChain, AndChain, Chain
  <2>. QED
    BY <1>6, <1>7, <2>1, <2>2
<1>10. CASE Cmp
  <2>1. CASE IsIdent(pos) /\ Peek.text = "in" /\ IsPunct(pos + 1, "[") /\ Continue(2, <<"items">>, val)
    <3>1. Tame(pos) /\ Tame(pos + 1)
      BY <1>8, <2>1 DEF Peek, IsPunct
    <3>2. \A i \in pos .. pos + 2 - 1 : Tame(i)
      <4>1. \A i \in pos .. pos + 2 - 1 : i = pos \/ i = pos + 1
        BY <1>5
      <4>. QED
        BY <3>1, <4>1
    <3>. QED
      BY <1>1, <1>3, <1>4, <2>1, <3>2, ExprSeqs, ExpressionTakes
  <2>2. CASE Peek.kind = "punct" /\ Peek.text \in CmpOps /\ Continue(1, <<"operand", "compared">>, val)
    <3>1. Tame(pos)
      BY <1>8, <2>2 DEF Peek, CmpOps
    <3>. QED
      BY <1>3, <1>7, <2>2, <3>1, ExprSeqs
  <2>3. CASE Continue(0, <<>>, val)
    BY <1>6, <2>3, ExprSeqs
  <2>. QED
    BY <1>2, <1>10, <2>1, <2>2, <2>3 DEF Cmp
<1>11. CASE Compared \/ Negated
  BY <1>6, <1>11, ExprSeqs DEF Compared, Negated
<1>12. CASE Items \/ Args
  <2>1. ASSUME Peek.text \in {"]", ")"}
        PROVE  Tame(pos)
    BY <1>8, <2>1 DEF Peek
  <2>2. \/ Continue(0, <<"operand", "item">>, val) \/ Continue(0, <<"operand", "arg">>, val)
        \/ \E v : Continue(1, <<>>, v) /\ Peek.text \in {"]", ")"}
    BY <1>12 DEF Items, Args
  <2>. QED
    BY <1>3, <1>6, <1>7, <2>1, <2>2, ExprSeqs
<1>13. CASE Item \/ Arg
  <2>1. Comma = 0 \/ (Comma = 1 /\ Tame(pos))
    <3>1. CASE toks[pos].text = ","
      BY <1>8, <3>1 DEF Comma, Peek
    <3>2. CASE toks[pos].text # ","
      BY <3>2 DEF Comma, Peek
    <3>. QED
      BY <3>1, <3>2
  <2>2. Continue(Comma, <<"items">>, val) \/ Continue(Comma, <<"args">>, val) \/ Fail
    BY <1>13 DEF Item, Arg
  <2>. QED
    BY <1>2, <1>3, <1>6, <1>7, <2>1, <2>2, ExprSeqs
<1>14. CASE Operand
  <2>1. CASE (Peek.kind \in {"string", "number"} \/ (IsIdent(pos) /\ Peek.text \in {"true", "false"}))
             /\ Continue(1, <<>>, "literal")
    <3>1. Tame(pos)
      BY <1>8, <2>1 DEF Peek, IsIdent
    <3>. QED
      BY <1>7, <2>1, <3>1, ExprSeqs
  <2>2. CASE IsIdent(pos) /\ Peek.text = "not" /\ Continue(1, <<"operand", "negated">>, val)
    <3>1. Tame(pos)
      BY <1>8, <2>2 DEF Peek, IsIdent
    <3>. QED
      BY <1>3, <1>7, <2>2, <3>1, ExprSeqs
  <2>3. CASE /\ IsIdent(pos) /\ toks[pos + 1].text = "." /\ IsIdent(pos + 2)
             /\ \/ toks[pos + 3].text = "(" /\ Continue(4, <<"args">>, val)
                \/ Continue(3, <<"path">>, val)
    <3>1. Tame(pos)
      <4>1. IsName(pos)
        BY <2>3 DEF IsName
      <4>. QED
        BY <2>3, <4>1 DEF Tame, IsIdent, IsPunct
    <3>2. Tame(pos + 1) /\ (toks[pos + 3].text = "(" => Tame(pos + 3))
      BY <1>8, <2>3
    <3>3. Tame(pos + 2)
      <4>1. (pos + 2) - 1 = pos + 1
        BY <1>5
      <4>2. IsName(pos + 2)
        BY <2>3, <4>1 DEF IsName
      <4>. QED
        BY <2>3, <4>2 DEF Tame, IsIdent, IsPunct
    <3>4. CASE toks[pos + 3].text = "(" /\ Continue(4, <<"args">>, val)
      <4>1. \A i \in pos .. pos + 4 - 1 : i = pos \/ i = pos + 1 \/ i = pos + 2 \/ i = pos + 3
        BY <1>5
      <4>2. \A i \in pos .. pos + 4 - 1 : Tame(i)
        BY <3>1, <3>2, <3>3, <3>4, <4>1, Zenon
      <4>. QED
        BY <1>1, <1>3, <1>4, <3>4, <4>2, ExprSeqs, ExpressionTakes
    <3>5. CASE Continue(3, <<"path">>, val)
      <4>1. \A i \in pos .. pos + 3 - 1 : i = pos \/ i = pos + 1 \/ i = pos + 2
        BY <1>5
      <4>2. \A i \in pos .. pos + 3 - 1 : Tame(i)
        BY <3>1, <3>2, <3>3, <4>1, Zenon
      <4>. QED
        BY <1>1, <1>3, <1>4, <3>5, <4>2, ExprSeqs, ExpressionTakes
    <3>. QED
      BY <2>3, <3>4, <3>5
  <2>. QED
    BY <1>2, <1>14, <2>1, <2>2, <2>3, Zenon DEF Operand
<1>15. CASE Path
  <2>1. CASE Continue(0, <<>>, "path")
    BY <1>6, <2>1, ExprSeqs
  <2>2. CASE Peek.text = "." /\ IsIdent(pos + 1) /\ Continue(2, <<"path">>, val)
    <3>1. Tame(pos)
      BY <1>8, <2>2 DEF Peek
    <3>2. Tame(pos + 1)
      <4>1. (pos + 1) - 1 = pos
        BY <1>5
      <4>2. IsName(pos + 1)
        BY <2>2, <4>1 DEF IsName, Peek
      <4>. QED
        BY <2>2, <4>2 DEF Tame, IsIdent, IsPunct
    <3>3. \A i \in pos .. pos + 2 - 1 : Tame(i)
      <4>1. \A i \in pos .. pos + 2 - 1 : i = pos \/ i = pos + 1
        BY <1>5
      <4>. QED
        BY <3>1, <3>2, <4>1, Zenon
    <3>. QED
      BY <1>1, <1>3, <1>4, <2>2, <3>3, ExprSeqs, ExpressionTakes
  <2>. QED
    BY <1>2, <1>15, <2>1, <2>2 DEF Path
<1>. QED
  BY <1>9, <1>10, <1>11, <1>12, <1>13, <1>14, <1>15 DEF Expression

\* A require opens a gate, its end starts it: from is its own place.
LEMMA RequireWords ==
  ASSUME IInv, WordsInv, StartRequire \/ EndRequire
  PROVE  WordsInv'
<1>1. outcome = "running"
  BY DEF StartRequire, EndRequire, Keyword, Running
<1>2. /\ pos \in Nat /\ stack \in Seq(Frames) /\ stack # <<>> /\ stack[1] = Head(stack)
      /\ Len(stack) \in Nat \ {0}
  BY <1>1, Standing
<1>3. CASE StartRequire
  <2>. DEFINE fs == <<"operand", "cmp", "and", "or", "require", "clauses">>
  <2>1. /\ Head(stack) = "clauses" /\ Peek.text = "require" /\ from' = pos /\ pol' = pol
        /\ toks' = toks /\ outcome' = "running" /\ pos' = pos + 1 /\ stack' = fs \o Tail(stack)
    BY <1>1, <1>3 DEF StartRequire, Keyword, Running, Go
  <2>2. Len(stack) = 1
    <3>1. stack[1] = "clauses"
      BY <1>2, <2>1
    <3>2. "clauses" \notin Functions \cup Loops \cup {"require"}
      BY DEF Functions, ExprFrames, Bottoms, Loops
    <3>3. ~(Len(stack) > 1)
      BY <1>1, <1>2, <3>1, <3>2 DEF IInv, Shape
    <3>4. \A l \in Nat \ {0} : l = 1 \/ l > 1
      OBVIOUS
    <3>. QED
      BY <1>2, <3>3, <3>4, Zenon
  <2>3. Len(stack') = 6 /\ stack'[5] = "require"
    <3>1. fs \in Seq(Frames) /\ Len(fs) = 6 /\ fs[5] = "require"
      BY DEF Frames
    <3>. HIDE DEF fs
    <3>2. fs \in Seq(Frames) /\ stack \in Seq(Frames) /\ stack # <<>>
      BY <1>2, <3>1, Zenon
    <3>4. /\ Len(fs \o Tail(stack)) = Len(fs) + Len(stack) - 1
          /\ \A i \in 1 .. Len(fs) : (fs \o Tail(stack))[i] = fs[i]
      BY <3>2, Replace, Zenon
    <3>3. 5 \in 1 .. Len(fs) /\ Len(fs) + Len(stack) - 1 = 6
      BY <2>2, <3>1
    <3>. QED
      BY <2>1, <3>1, <3>3, <3>4
  <2>4. \A i : i = pos => Open(i)'
    <3>1. Len(stack') > 1 /\ Len(stack') - 1 = 5
      BY <2>3
    <3>. QED
      BY <2>1, <2>3, <3>1 DEF Open
  <2>5. \A i \in pos .. pos + 1 - 1 : Open(i)' /\ ~IsPunct(i, "}")
    <3>1. \A i \in pos .. pos + 1 - 1 : i = pos
      BY <1>2
    <3>2. ~IsPunct(pos, "}")
      BY <2>1 DEF Peek, IsPunct
    <3>. QED
      BY <2>4, <3>1, <3>2
  <2>6. \A i : StartsGate(i) => StartsGate(i)'
    BY <2>1 DEF StartsGate
  <2>7. \A i : ~Open(i)
    BY <1>1, <2>1, NoneOpen DEF Bottoms
  <2>8. fs \in Seq(PushedFrames)
    BY DEF PushedFrames, Frames
  <2>. HIDE DEF fs
  <2>. QED
    BY <1>1, <2>1, <2>5, <2>6, <2>7, <2>8, TakesTame
<1>4. CASE EndRequire /\ val \in {"compare", "in"}
  <2>. DEFINE g == [form |-> val, from |-> from, to |-> pos - 1]
  <2>1. /\ pos' = pos + 0 /\ pol' = [pol EXCEPT !.requires = Append(@, g)]
        /\ toks' = toks /\ outcome' = "running" /\ stack' = <<>> \o Tail(stack)
    BY <1>1, <1>4 DEF EndRequire, Go
  <2>2. pol \in PolicyType /\ pol.requires \in Seq(Gate)
    BY DEF IInv, TypeOK, PolicyType
  <2>3. pol'.requires = Append(pol.requires, g) /\ g.from = from
    BY <2>1, <2>2 DEF PolicyType
  <2>. HIDE DEF g
  <2>4. /\ DOMAIN pol'.requires = 1 .. Len(pol.requires) + 1
        /\ DOMAIN pol.requires = 1 .. Len(pol.requires)
        /\ \A i \in DOMAIN pol.requires : pol'.requires[i] = pol.requires[i]
        /\ pol'.requires[Len(pol.requires) + 1] = g /\ Len(pol.requires) \in Nat
    <3>1. g \in Gate
      <4>1. from \in Nat /\ pos - 1 \in Nat
        BY <1>1, Standing
      <4>. QED
        BY <1>4, <4>1 DEF Gate, g
    <3>. QED
      BY <2>2, <2>3, <3>1, AppendProperties
  <2>5. \A i : StartsGate(i) => StartsGate(i)'
    BY <2>4 DEF StartsGate
  <2>6. \A i : Open(i) => StartsGate(i)'
    <3>1. Len(pol.requires) + 1 \in DOMAIN pol'.requires
      BY <2>4
    <3>2. \A i : i = from => StartsGate(i)'
      BY <2>3, <2>4, <3>1 DEF StartsGate
    <3>. QED
      BY <3>2 DEF Open
  <2>7. \A i \in pos .. pos + 0 - 1 : Tame(i)
    BY <1>2
  <2>8. <<>> \in Seq(PushedFrames)
    BY EmptySeq
  <2>. QED
    BY <1>1, <2>1, <2>5, <2>6, <2>7, <2>8, TakesTame
<1>5. CASE Fail
  BY <1>5, EndsWithout DEF Fail
<1>. QED
  BY <1>3, <1>4, <1>5 DEF EndRequire

\* Behind one token more.
LEMMA Next1 ==
  ASSUME NEW p \in Nat, NEW q, q = p + 1
  PROVE  q - 1 = p /\ q - 2 = p - 1
OBVIOUS

\* The brace that closes the policy is the first, and no gate is open at it.
LEMMA CloseWords ==
  ASSUME IInv, IInv', WordsInv, Close
  PROVE  WordsInv'
<1>1. outcome = "running" /\ Head(stack) = "clauses" /\ pos \in Nat /\ Len(toks) \in Nat
  BY Standing DEF Close, Running
<1>2. CASE Fail
  BY <1>2, EndsWithout DEF Fail
<1>3. CASE ~Fail
  <2>1. IsPunct(pos, "}") /\ outcome' = "ok" /\ pos' = pos + 1 /\ toks' = toks /\ pol' = pol
    BY <1>3 DEF Close
  <2>2. pos' - 1 = pos /\ pos' - 2 = pos - 1
    BY <1>1, <2>1, Next1, Zenon
  <2>3. \A i : /\ IsPunct(i, "}")' <=> IsPunct(i, "}")
               /\ IsRequire(i)' <=> IsRequire(i)
               /\ IsName(i)' <=> IsName(i)
               /\ StartsGate(i)' <=> StartsGate(i)
               /\ toks'[i - 1].text = toks[i - 1].text
    BY <2>1 DEF IsPunct, IsRequire, IsIdent, IsName, StartsGate
  <2>4. \A i \in 1 .. pos - 1 :
          /\ IsPunct(i, "}") => toks[i - 1].text = "optimize"
          /\ IsRequire(i) /\ i > 3 => StartsGate(i) \/ IsName(i) \/ Open(i)
    BY <1>1 DEF WordsInv
  <2>5. \A i : ~Open(i)
    BY <1>1, NoneOpen DEF Bottoms
  <2>6. FirstBraceCloses'
    BY <2>1, <2>2, <2>3, <2>4 DEF FirstBraceCloses
  <2>7. ASSUME NEW i \in 4 .. pos' - 1, IsRequire(i)
        PROVE  StartsGate(i) \/ IsName(i)
    <3>1. i # pos
      BY <2>1, <2>7 DEF IsPunct, IsRequire
    <3>2. i \in 1 .. pos - 1 /\ i > 3
      BY <1>1, <2>2, <3>1
    <3>. QED
      BY <2>4, <2>5, <2>7, <3>2
  <2>8. GatesKept'
    BY <2>3, <2>7 DEF GatesKept, IInv
  <2>9. HeaderFirst'
    <3>1. stack \in Seq(Frames) /\ stack # <<>> /\ stack' = Tail(stack)
      BY <1>1, <1>3, Standing DEF Close
    <3>2. Len(stack') = Len(stack) - 1 /\ \A j \in 1 .. Len(stack') : stack'[j] = stack[j + 1]
      BY <3>1, HeadTailProperties
    <3>3. Len(stack) \in Nat \ {0}
      BY <3>1
    <3>4. \A j \in 1 .. Len(stack') : j + 1 \in 1 .. Len(stack) /\ j + 1 # 1
      BY <3>2, <3>3
    <3>5. \A j \in 1 .. Len(stack') : stack'[j] # "header"
      BY <3>2, <3>4 DEF WordsInv, HeaderFirst
    <3>. QED
      BY <3>5 DEF HeaderFirst
  <2>. QED
    BY <2>1, <2>6, <2>8, <2>9 DEF WordsInv
<1>. QED
  BY <1>2, <1>3

\* Every other step of parsePolicy takes a keyword, the names that go with it,
\* numbers, and what a loop of optimize takes.
LEMMA ClauseWords ==
  ASSUME IInv, WordsInv,
         Header \/ PreferClause \/ FallbackClause \/ SwitchClause \/ StartOptimize
           \/ LexicographicOrder \/ DimWeights
  PROVE  WordsInv'
<1>1. outcome = "running" /\ Head(stack) \in Bottoms \cup Loops
  BY DEF Header, PreferClause, FallbackClause, SwitchClause, StartOptimize, LexicographicOrder,
         DimWeights, Keyword, Running, Bottoms, Loops
<1>2. pos \in Nat
  BY <1>1, Standing
<1>3. CASE Fail \/ Panic
  BY <1>3, EndsWithout DEF Fail, Panic
<1>4. ASSUME NEW i, toks[i].kind # "punct" \/ toks[i].text # "}",
             toks[i].kind # "ident" \/ toks[i].text # "require"
      PROVE  Tame(i)
  BY <1>4 DEF Tame, IsPunct, IsRequire, IsIdent
<1>5. ASSUME NEW n \in Nat, NEW fs \in Seq(PushedFrames), NEW p, Go(n, fs), pol' = p, p.requires = pol.requires,
             \A i \in pos .. pos + n - 1 : Tame(i)
      PROVE  WordsInv'
  BY <1>1, <1>5, ClauseTakes
<1>6. ASSUME NEW i, IsFloat(i)
      PROVE  Tame(i)
  BY <1>4, <1>6 DEF IsFloat
<1>7. /\ (pos + 1) - 1 = pos /\ (pos + 2) - 2 = pos
      /\ \A i \in pos .. pos + 1 - 1 : i = pos
      /\ \A i \in pos .. pos + 2 - 1 : i = pos \/ i = pos + 1
      /\ \A i \in pos .. pos + 3 - 1 : i = pos \/ i = pos + 1 \/ i = pos + 2
      /\ \A i \in pos .. pos + 4 - 1 : i = pos \/ i = pos + 1 \/ i = pos + 2 \/ i = pos + 3
  BY <1>2
<1>8. ASSUME toks[pos].text \in {"prefer", "optimize", "fallback", "switch"}
      PROVE  /\ Tame(pos)
             /\ IsIdent(pos + 1) => Tame(pos + 1)
             /\ toks[pos].text \in {"prefer", "switch"} /\ IsIdent(pos + 2) => Tame(pos + 2)
             /\ toks[pos].text = "optimize" => Tame(pos + 1)
  <2>1. Tame(pos)
    BY <1>4, <1>8
  <2>2. IsName(pos + 1) /\ (toks[pos].text \in {"prefer", "switch"} => IsName(pos + 2))
    BY <1>7, <1>8 DEF IsName
  <2>. QED
    BY <1>7, <2>1, <2>2 DEF Tame, IsPunct, IsIdent
<1>9. /\ <<>> \in Seq(PushedFrames) /\ <<"clauses">> \in Seq(PushedFrames)
      /\ <<"lexicographic">> \in Seq(PushedFrames) /\ <<"dimWeights">> \in Seq(PushedFrames)
      /\ <<"lexicographic", "clauses">> \in Seq(PushedFrames)
      /\ <<"dimWeights", "clauses">> \in Seq(PushedFrames)
  BY DEF PushedFrames, Frames
<1>10. CASE Header /\ ~Fail
  <2>1. /\ IsIdent(pos) /\ IsIdent(pos + 1) /\ IsPunct(pos + 2, "{") /\ Go(3, <<"clauses">>)
        /\ pol' = pol
    BY <1>10 DEF Header
  <2>2. pos = 1
    <3>1. stack \in Seq(Frames) /\ stack # <<>> /\ Head(stack) = "header"
      BY <1>1, <1>10, Standing DEF Header, Running
    <3>2. stack[1] = "header" /\ 1 \in 1 .. Len(stack)
      BY <3>1
    <3>. QED
      BY <3>2 DEF WordsInv, HeaderFirst
  <2>3. \A i \in pos .. pos + 3 - 1 : Tame(i)
    <3>1. ~IsPunct(pos, "}") /\ ~IsPunct(pos + 1, "}") /\ ~IsPunct(pos + 2, "}")
      BY <2>1 DEF IsIdent, IsPunct
    <3>2. ~(pos > 3) /\ ~(pos + 1 > 3) /\ ~(pos + 2 > 3)
      BY <2>2
    <3>. QED
      BY <1>7, <3>1, <3>2 DEF Tame
  <2>. QED
    BY <1>5, <1>9, <2>1, <2>3
<1>11. CASE PreferClause /\ ~Fail
  <2>1. /\ toks[pos].text = "prefer" /\ IsIdent(pos + 1) /\ IsIdent(pos + 2) /\ IsFloat(pos + 3)
        /\ Go(4, <<"clauses">>) /\ pol' = [pol EXCEPT !.prefers = @ + 1]
    BY <1>11 DEF PreferClause, Keyword, Peek, Clause
  <2>2. \A i \in pos .. pos + 4 - 1 : Tame(i)
    BY <1>6, <1>7, <1>8, <2>1
  <2>3. pol'.requires = pol.requires
    BY <1>1, <2>1, PolicyTypes DEF PolicyType
  <2>. QED
    BY <1>5, <1>9, <2>1, <2>2, <2>3
<1>12. ASSUME NEW i, NEW w, w \in {"max_attempts", "min_hold_seconds"}, OptionFits(i, w), i \in Nat
       PROVE  /\ OptionLength(i, w) \in Nat
              /\ \A k \in i .. i + OptionLength(i, w) - 1 : Tame(k)
  <2>1. CASE toks[i].text = w
    <3>1. OptionLength(i, w) = 2 /\ \A k \in i .. i + 2 - 1 : k = i \/ k = i + 1
      BY <1>12, <2>1 DEF OptionLength
    <3>2. Tame(i) /\ Tame(i + 1)
      BY <1>4, <1>6, <1>12, <2>1 DEF OptionFits
    <3>. QED
      BY <3>1, <3>2
  <2>2. CASE toks[i].text # w
    <3>1. OptionLength(i, w) = 0 /\ ~\E k \in i .. i + 0 - 1 : TRUE
      BY <1>12, <2>2 DEF OptionLength
    <3>. QED
      BY <3>1
  <2>. QED
    BY <2>1, <2>2
<1>13. CASE FallbackClause /\ ~Fail
  <2>. DEFINE m == OptionLength(pos + 2, "max_attempts")
  <2>1. /\ toks[pos].text = "fallback" /\ IsIdent(pos + 1) /\ OptionFits(pos + 2, "max_attempts")
        /\ Go(2 + m, <<"clauses">>) /\ pol' = [pol EXCEPT !.fallback = <<pos>>]
    BY <1>13 DEF FallbackClause, Keyword, Peek, Clause
  <2>2. m \in Nat /\ \A k \in pos + 2 .. pos + 2 + m - 1 : Tame(k)
    BY <1>2, <1>12, <2>1
  <2>. HIDE DEF m
  <2>3. \A i \in pos .. pos + (2 + m) - 1 : Tame(i)
    <3>1. \A i \in pos .. pos + (2 + m) - 1 :
            i = pos \/ i = pos + 1 \/ i \in pos + 2 .. pos + 2 + m - 1
      BY <1>2, <2>2
    <3>. QED
      BY <1>8, <2>1, <2>2, <3>1
  <2>4. pol'.requires = pol.requires
    BY <1>1, <2>1, PolicyTypes DEF PolicyType
  <2>5. 2 + m \in Nat
    BY <2>2
  <2>. QED
    BY <1>5, <1>9, <2>1, <2>3, <2>4, <2>5
<1>14. CASE SwitchClause /\ ~Fail
  <2>. DEFINE m == OptionLength(pos + 5, "min_hold_seconds")
  <2>1. /\ toks[pos].text = "switch" /\ IsIdent(pos + 1) /\ IsIdent(pos + 2)
        /\ IsPunct(pos + 3, ">=") /\ IsFloat(pos + 4) /\ OptionFits(pos + 5, "min_hold_seconds")
        /\ Go(5 + m, <<"clauses">>) /\ pol' = [pol EXCEPT !.switch = <<pos>>]
    BY <1>14 DEF SwitchClause, Keyword, Peek, Clause
  <2>2. m \in Nat /\ \A k \in pos + 5 .. pos + 5 + m - 1 : Tame(k)
    BY <1>2, <1>12, <2>1
  <2>. HIDE DEF m
  <2>3. Tame(pos) /\ Tame(pos + 1) /\ Tame(pos + 2) /\ Tame(pos + 3) /\ Tame(pos + 4)
    BY <1>4, <1>6, <1>8, <2>1 DEF IsPunct
  <2>4. \A i \in pos .. pos + (5 + m) - 1 : Tame(i)
    <3>1. \A i \in pos .. pos + (5 + m) - 1 :
            \/ i = pos \/ i = pos + 1 \/ i = pos + 2 \/ i = pos + 3 \/ i = pos + 4
            \/ i \in pos + 5 .. pos + 5 + m - 1
      BY <1>2, <2>2
    <3>. QED
      BY <2>2, <2>3, <3>1
  <2>5. pol'.requires = pol.requires
    BY <1>1, <2>1, PolicyTypes DEF PolicyType
  <2>6. 5 + m \in Nat
    BY <2>2
  <2>. QED
    BY <1>5, <1>9, <2>1, <2>4, <2>5, <2>6
<1>15. CASE StartOptimize /\ ~Fail /\ ~Panic
  <2>1. /\ toks[pos].text = "optimize" /\ pol' = pol
        /\ \/ Go(2, <<"lexicographic", "clauses">>)
           \/ Go(3, <<"dimWeights", "clauses">>) /\ IsFloat(pos + 2)
    BY <1>15 DEF StartOptimize, Keyword, Peek
  <2>2. Tame(pos) /\ Tame(pos + 1)
    BY <1>8, <2>1
  <2>3. CASE Go(2, <<"lexicographic", "clauses">>)
    <3>1. \A i \in pos .. pos + 2 - 1 : Tame(i)
      BY <1>7, <2>2
    <3>. QED
      BY <1>5, <1>9, <2>1, <2>3, <3>1
  <2>4. CASE Go(3, <<"dimWeights", "clauses">>) /\ IsFloat(pos + 2)
    <3>1. \A i \in pos .. pos + 3 - 1 : Tame(i)
      BY <1>6, <1>7, <2>2, <2>4
    <3>. QED
      BY <1>5, <1>9, <2>1, <2>4, <3>1
  <2>. QED
    BY <2>1, <2>3, <2>4
<1>16. CASE EndOptimize
  <2>1. Go(0, <<>>) /\ pol'.requires = pol.requires
    BY <1>1, <1>16, PolicyTypes DEF EndOptimize
  <2>2. \A i \in pos .. pos + 0 - 1 : Tame(i)
    BY <1>2
  <2>. QED
    BY <1>5, <1>9, <2>1, <2>2
<1>17. CASE LexicographicOrder /\ ~EndOptimize
  <2>1. /\ Peek.text # "}" /\ Peek.text # "require" /\ Go(1, <<"lexicographic">>) /\ pol' = pol
    BY <1>17 DEF LexicographicOrder, AtEnd
  <2>2. \A i \in pos .. pos + 1 - 1 : Tame(i)
    BY <1>4, <1>7, <2>1 DEF Peek
  <2>. QED
    BY <1>5, <1>9, <2>1, <2>2
<1>18. CASE DimWeights /\ ~EndOptimize /\ ~Fail
  <2>1. /\ Peek.text \in Dims /\ IsFloat(pos + 1) /\ Go(2, <<"dimWeights">>) /\ pol' = pol
    BY <1>18 DEF DimWeights
  <2>2. Tame(pos)
    BY <1>4, <2>1 DEF Peek, Dims
  <2>3. \A i \in pos .. pos + 2 - 1 : Tame(i)
    BY <1>6, <1>7, <2>1, <2>2
  <2>. QED
    BY <1>5, <1>9, <2>1, <2>3
<1>. QED
  BY <1>3, <1>10, <1>11, <1>13, <1>14, <1>15, <1>16, <1>17, <1>18

\* Every step keeps the invariant.
LEMMA NextWords == IInv /\ WordsInv /\ [Next]_vars => WordsInv'
<1>. SUFFICES ASSUME IInv, WordsInv, [Next]_vars
              PROVE  WordsInv'
  OBVIOUS
<1>1. IInv'
  BY NextIInv
<1>2. CASE Policy
  <2>1. CASE NoClause
    BY <2>1, EndsWithout DEF NoClause, Fail
  <2>. QED
    BY <1>1, <1>2, <2>1, ClauseWords, RequireWords, CloseWords DEF Policy
<1>3. CASE Expression
  BY <1>3, ExpressionWords
<1>4. CASE UNCHANGED vars
  <2>1. UNCHANGED <<toks, pos, stack, from, pol, outcome>>
    BY <1>4 DEF vars
  <2>2. /\ HeaderFirst' <=> HeaderFirst
        /\ GatesApart' <=> GatesApart
        /\ FirstBraceCloses' <=> FirstBraceCloses
    <3>1. HeaderFirst' <=> HeaderFirst
      BY <2>1 DEF HeaderFirst
    <3>2. GatesApart' <=> GatesApart
      BY <2>1 DEF GatesApart
    <3>3. FirstBraceCloses' <=> FirstBraceCloses
      BY <2>1 DEF FirstBraceCloses, IsPunct
    <3>. QED
      BY <3>1, <3>2, <3>3, Zenon
  <2>3. \A i : /\ IsRequire(i)' <=> IsRequire(i)
               /\ IsPunct(i, "}")' <=> IsPunct(i, "}")
               /\ IsName(i)' <=> IsName(i)
               /\ StartsGate(i)' <=> StartsGate(i)
               /\ Open(i)' <=> Open(i)
    BY <2>1 DEF IsPunct, IsRequire, IsIdent, IsName, StartsGate, Open
  <2>. QED
    BY <2>1, <2>2, <2>3 DEF WordsInv, GatesKept
<1>. QED
  BY <1>2, <1>3, <1>4 DEF Next, Returned

\* A parser that has not looked at its tokens yet has taken none.
LEMMA FreshWords == Fresh => WordsInv
<1>. SUFFICES ASSUME Fresh
              PROVE  WordsInv
  OBVIOUS
<1>1. HeaderFirst
  BY DEF Fresh, HeaderFirst
<1>. QED
  BY <1>1 DEF Fresh, WordsInv

\* So a policy that is returned has all its gates, and ends where it says.
LEMMA WordsEnd == IInv /\ WordsInv => GatesKept /\ FirstBraceCloses
BY DEF IInv, WordsInv, GatesKept, FirstBraceCloses

\* The invariant holds in every reachable state.
LEMMA WordsInvariance == Spec => [](IInv /\ WordsInv)
<1>1. Init => WordsInv
  BY FreshWords DEF Init
<1>. QED
  BY <1>1, NextWords, Invariance, PTL DEF Spec

-----------------------------------------------------------------------------
(* The parser is linear in its tokens. *)

\* What a step does to the bound.
Nearer == StepsToGo' < StepsToGo /\ StepsToGo' \in Nat

\* No frame counts for more than an item.
LEMMA CreditIs == \A f : Credit(f) \in 0 .. 4
BY DEF Credit

\* The bound is a number, and there is a step to go while the parser runs.
LEMMA BoundIs ==
  ASSUME IInv
  PROVE  StepsToGo \in Nat /\ (outcome = "running" => StepsToGo > 0)
<1>1. CASE outcome # "running"
  BY <1>1 DEF StepsToGo
<1>2. CASE outcome = "running"
  <2>1. /\ pos \in 1 .. Len(toks) /\ pos \in Nat /\ Len(toks) \in Nat
        /\ Len(stack) \in Nat /\ Credit(Head(stack)) \in Nat
    BY <1>2, Standing, CreditIs
  <2>. QED
    BY <1>2, <2>1 DEF StepsToGo
<1>. QED
  BY <1>1, <1>2

\* A step that returns from the parser, with a policy or an error.
LEMMA EndNearer ==
  ASSUME IInv, outcome = "running", outcome' # "running"
  PROVE  Nearer
<1>1. StepsToGo' = 0
  BY DEF StepsToGo
<1>. QED
  BY <1>1, BoundIs DEF Nearer

\* What frames count when they are pushed; nothing is known of the one below.
Cost(fs) == 2 * Len(fs) + (IF fs = <<>> THEN 4 ELSE Credit(fs[1]))

\* A step that goes on as the frames fs: what they count is paid by the tokens
\* taken and by the frame they replace.
LEMMA GoNearer ==
  ASSUME IInv, IInv', outcome = "running",
         NEW n \in Nat, NEW fs \in Seq(Frames), Go(n, fs),
         8 * n + 2 + Credit(Head(stack)) > Cost(fs)
  PROVE  Nearer
<1>1. /\ outcome' = "running" /\ Len(toks') = Len(toks)
      /\ pos' = pos + n /\ stack' = fs \o Tail(stack)
  BY DEF Go
<1>2. /\ pos \in Nat /\ Len(toks) \in Nat /\ stack \in Seq(Frames) /\ stack # <<>>
  BY Standing
<1>3. /\ Len(stack') = Len(fs) + Len(stack) - 1
      /\ \A i \in 1 .. Len(fs) : stack'[i] = fs[i]
  BY <1>1, <1>2, Replace
<1>4. stack' \in Seq(Frames) /\ stack' # <<>>
  BY <1>1 DEF IInv, TypeOK, Shape
<1>. DEFINE c == Credit(Head(stack))
            d == Credit(Head(stack'))
            b == IF fs = <<>> THEN 4 ELSE Credit(fs[1])
<1>5. c \in Nat /\ d \in Nat /\ b \in Nat
  BY CreditIs
<1>6. d <= b
  <2>1. CASE fs = <<>>
    BY <2>1, CreditIs
  <2>2. CASE fs # <<>>
    <3>1. Head(stack') = fs[1]
      BY <1>3, <1>4, <2>2
    <3>. QED
      BY <1>5, <2>2, <3>1
  <2>. QED
    BY <2>1, <2>2
<1>7. StepsToGo = 8 * (Len(toks) + 1 - pos) + 2 * Len(stack) + c + 1
  BY DEF StepsToGo
<1>8. StepsToGo' = 8 * (Len(toks) + 1 - (pos + n)) + 2 * (Len(fs) + Len(stack) - 1) + d + 1
  BY <1>1, <1>3 DEF StepsToGo
<1>9. StepsToGo' \in Nat
  <2>1. (IInv => StepsToGo \in Nat)'
    BY BoundIs, PTL
  <2>. QED
    BY <2>1
<1>10. 8 * n + 2 + c > 2 * Len(fs) + b
  BY DEF Cost
<1>11. Len(fs) \in Nat /\ Len(stack) \in Nat
  BY <1>2
<1>. HIDE DEF c, d, b
<1>12. StepsToGo' < StepsToGo
  BY <1>2, <1>5, <1>6, <1>7, <1>8, <1>10, <1>11
<1>. QED
  BY <1>9, <1>12 DEF Nearer

\* What the frames count that a step pushes.
LEMMA Pushed ==
  /\ <<>> \in Seq(Frames) /\ Cost(<<>>) = 4
  /\ \A f \in Frames : <<f>> \in Seq(Frames) /\ Cost(<<f>>) = 2 + Credit(f)
  /\ \A f, g \in Frames : <<f, g>> \in Seq(Frames) /\ Cost(<<f, g>>) = 4 + Credit(f)
<1>1. ASSUME NEW fs, fs # <<>>, NEW n \in Nat, Len(fs) = n, NEW f, fs[1] = f
      PROVE  Cost(fs) = 2 * n + Credit(f)
  BY <1>1, CreditIs DEF Cost
<1>2. ASSUME NEW f \in Frames
      PROVE  <<f>> \in Seq(Frames) /\ Cost(<<f>>) = 2 + Credit(f)
  <2>1. <<f>> \in Seq(Frames) /\ <<f>> # <<>> /\ Len(<<f>>) = 1 /\ <<f>>[1] = f
    OBVIOUS
  <2>2. Cost(<<f>>) = 2 * 1 + Credit(f)
    BY <1>1, <2>1
  <2>. QED
    BY <2>1, <2>2
<1>3. ASSUME NEW f \in Frames, NEW g \in Frames
      PROVE  <<f, g>> \in Seq(Frames) /\ Cost(<<f, g>>) = 4 + Credit(f)
  <2>1. <<f, g>> \in Seq(Frames) /\ <<f, g>> # <<>> /\ Len(<<f, g>>) = 2 /\ <<f, g>>[1] = f
    OBVIOUS
  <2>2. Cost(<<f, g>>) = 2 * 2 + Credit(f)
    BY <1>1, <2>1
  <2>. QED
    BY <2>1, <2>2
<1>4. <<>> \in Seq(Frames) /\ Cost(<<>>) = 4
  BY EmptySeq DEF Cost
<1>. QED
  BY <1>2, <1>3, <1>4

\* A frame ends, after tokens taken or not; an operand takes some.
LEMMA NoneNearer ==
  ASSUME IInv, IInv', outcome = "running", NEW n \in Nat, Go(n, <<>>),
         Credit(Head(stack)) >= 3 \/ n > 0
  PROVE  Nearer
<1>1. Credit(Head(stack)) \in 0 .. 4
  BY CreditIs
<1>. DEFINE fs == <<>>
<1>2. fs \in Seq(Frames) /\ Cost(fs) = 4 /\ Go(n, fs)
  BY Pushed
<1>. HIDE DEF fs
<1>3. 8 * n + 2 + Credit(Head(stack)) > Cost(fs)
  BY <1>1, <1>2
<1>. QED
  BY <1>2, <1>3, GoNearer, Zenon

\* A frame becomes another one.
LEMMA OneNearer ==
  ASSUME IInv, IInv', outcome = "running", NEW n \in Nat, NEW f \in Frames, Go(n, <<f>>),
         8 * n + Credit(Head(stack)) > Credit(f)
  PROVE  Nearer
<1>1. Credit(Head(stack)) \in 0 .. 4 /\ Credit(f) \in 0 .. 4
  BY CreditIs
<1>. DEFINE fs == <<f>>
<1>2. fs \in Seq(Frames) /\ Cost(fs) = 2 + Credit(f) /\ Go(n, fs)
  BY Pushed
<1>. HIDE DEF fs
<1>3. 8 * n + 2 + Credit(Head(stack)) > Cost(fs)
  BY <1>1, <1>2
<1>. QED
  BY <1>2, <1>3, GoNearer, Zenon

\* A frame becomes two.
LEMMA TwoNearer ==
  ASSUME IInv, IInv', outcome = "running", NEW n \in Nat, NEW f \in Frames, NEW g \in Frames,
         Go(n, <<f, g>>), 8 * n + Credit(Head(stack)) > 2 + Credit(f)
  PROVE  Nearer
<1>1. Credit(Head(stack)) \in 0 .. 4 /\ Credit(f) \in 0 .. 4
  BY CreditIs
<1>. DEFINE fs == <<f, g>>
<1>2. fs \in Seq(Frames) /\ Cost(fs) = 4 + Credit(f) /\ Go(n, fs)
  BY Pushed
<1>. HIDE DEF fs
<1>3. 8 * n + 2 + Credit(Head(stack)) > Cost(fs)
  BY <1>1, <1>2
<1>. QED
  BY <1>2, <1>3, GoNearer, Zenon

\* Every step of the functions that parse expressions.
LEMMA ExpressionNearer ==
  ASSUME IInv, IInv', Expression
  PROVE  Nearer
<1>1. outcome = "running"
  BY DEF Expression, OrChain, AndChain, Chain, Cmp, Compared, Items, Item, Args, Arg,
         Negated, Operand, Path, Running
<1>2. CASE Fail
  BY <1>1, <1>2, EndNearer DEF Fail
<1>3. /\ {"operand", "cmp", "and", "compared", "orMore", "andMore", "items", "item", "args",
          "arg", "negated", "path"} \subseteq Frames
      /\ Credit("operand") = 0 /\ Credit("item") = 4 /\ Credit("arg") = 4
      /\ \A f \in {"or", "orMore", "and", "andMore", "cmp", "compared", "negated",
                   "items", "args", "path"} : Credit(f) = 3
  BY DEF Frames, Credit
<1>4. \A n, fs, v : Continue(n, fs, v) => Go(n, fs)
  BY DEF Continue
<1>5. Comma \in {0, 1}
  BY DEF Comma
<1>6. CASE OrChain
  <2>. DEFINE fs == <<"operand", "cmp", "and">> \o <<"orMore">>
  <2>1. fs \in Seq(Frames) /\ Len(fs) = 4 /\ fs[1] = "operand"
    <3>1. /\ <<"operand", "cmp", "and">> \in Seq(Frames) /\ Len(<<"operand", "cmp", "and">>) = 3
          /\ <<"operand", "cmp", "and">>[1] = "operand"
          /\ <<"orMore">> \in Seq(Frames) /\ Len(<<"orMore">>) = 1
      BY <1>3
    <3>. QED
      BY <3>1, ConcatProperties
  <2>2. fs \in Seq(Frames) /\ Cost(fs) = 8
    <3>. HIDE DEF fs
    <3>1. fs # <<>>
      BY <2>1
    <3>. QED
      BY <1>3, <2>1, <3>1 DEF Cost
  <2>3. Go(1, fs) \/ Go(0, <<>>)
    BY <1>4, <1>6 DEF OrChain, Chain
  <2>4. Credit(Head(stack)) = 3
    BY <1>3, <1>6 DEF OrChain, Chain, Running
  <2>. HIDE DEF fs
  <2>. QED
    BY <1>1, <1>3, <2>2, <2>3, <2>4, GoNearer, NoneNearer
<1>7. CASE AndChain
  <2>. DEFINE fs == <<"operand", "cmp">> \o <<"andMore">>
  <2>1. fs \in Seq(Frames) /\ Len(fs) = 3 /\ fs[1] = "operand"
    <3>1. /\ <<"operand", "cmp">> \in Seq(Frames) /\ Len(<<"operand", "cmp">>) = 2
          /\ <<"operand", "cmp">>[1] = "operand"
          /\ <<"andMore">> \in Seq(Frames) /\ Len(<<"andMore">>) = 1
      BY <1>3
    <3>. QED
      BY <3>1, ConcatProperties
  <2>2. fs \in Seq(Frames) /\ Cost(fs) = 6
    <3>. HIDE DEF fs
    <3>1. fs # <<>>
      BY <2>1
    <3>. QED
      BY <1>3, <2>1, <3>1 DEF Cost
  <2>3. Go(1, fs) \/ Go(0, <<>>)
    BY <1>4, <1>7 DEF AndChain, Chain
  <2>4. Credit(Head(stack)) = 3
    BY <1>3, <1>7 DEF AndChain, Chain, Running
  <2>. HIDE DEF fs
  <2>. QED
    BY <1>1, <1>3, <2>2, <2>3, <2>4, GoNearer, NoneNearer
<1>8. CASE Cmp
  <2>1. Credit(Head(stack)) = 3
    BY <1>3, <1>8 DEF Cmp, Running
  <2>2. \/ Go(2, <<"items">>) \/ Go(1, <<"operand", "compared">>) \/ Go(0, <<>>) \/ Fail
    BY <1>4, <1>8 DEF Cmp
  <2>. QED
    BY <1>1, <1>2, <1>3, <2>1, <2>2, OneNearer, TwoNearer, NoneNearer
<1>9. CASE Compared \/ Negated
  <2>1. Credit(Head(stack)) = 3 /\ Go(0, <<>>)
    BY <1>3, <1>4, <1>9 DEF Compared, Negated, Running
  <2>. QED
    BY <1>1, <2>1, NoneNearer
<1>10. CASE Items \/ Args
  <2>1. Credit(Head(stack)) = 3
    BY <1>3, <1>10 DEF Items, Args, Running
  <2>2. \/ Go(1, <<>>) \/ Go(0, <<"operand", "item">>) \/ Go(0, <<"operand", "arg">>)
    BY <1>4, <1>10 DEF Items, Args
  <2>. QED
    BY <1>1, <1>3, <2>1, <2>2, TwoNearer, NoneNearer
<1>11. CASE Item \/ Arg
  <2>1. Credit(Head(stack)) = 4
    BY <1>3, <1>11 DEF Item, Arg, Running
  <2>2. Go(Comma, <<"items">>) \/ Go(Comma, <<"args">>) \/ Fail
    BY <1>4, <1>11 DEF Item, Arg
  <2>. QED
    BY <1>1, <1>2, <1>3, <1>5, <2>1, <2>2, OneNearer
<1>12. CASE Operand
  <2>1. Credit(Head(stack)) = 0
    BY <1>3, <1>12 DEF Operand, Running
  <2>2. \/ Go(1, <<>>) \/ Go(1, <<"operand", "negated">>)
        \/ Go(4, <<"args">>) \/ Go(3, <<"path">>) \/ Fail
    BY <1>4, <1>12 DEF Operand
  <2>. QED
    BY <1>1, <1>2, <1>3, <2>1, <2>2, OneNearer, TwoNearer, NoneNearer
<1>13. CASE Path
  <2>1. Credit(Head(stack)) = 3
    BY <1>3, <1>13 DEF Path, Running
  <2>2. Go(0, <<>>) \/ Go(2, <<"path">>) \/ Fail
    BY <1>4, <1>13 DEF Path
  <2>. QED
    BY <1>1, <1>2, <1>3, <2>1, <2>2, OneNearer, NoneNearer
<1>. QED
  BY <1>6, <1>7, <1>8, <1>9, <1>10, <1>11, <1>12, <1>13 DEF Expression

\* Every step of the functions that parse a policy and its clauses.
LEMMA PolicyNearer ==
  ASSUME IInv, IInv', Policy
  PROVE  Nearer
<1>1. outcome = "running"
  BY DEF Policy, Header, Close, NoClause, StartRequire, EndRequire, PreferClause,
         StartOptimize, LexicographicOrder, DimWeights, FallbackClause, SwitchClause,
         Keyword, Running
<1>2. CASE outcome' # "running"
  BY <1>1, <1>2, EndNearer
<1>3. /\ {"operand", "cmp", "and", "or", "require", "clauses", "lexicographic",
          "dimWeights"} \subseteq Frames
      /\ Credit("operand") = 0
      /\ \A f \in {"header", "clauses", "require", "lexicographic", "dimWeights"} :
           Credit(f) = 3
  BY DEF Frames, Credit
<1>4. Credit(Head(stack)) = 3
  BY <1>3 DEF Policy, Header, Close, NoClause, StartRequire, EndRequire, PreferClause,
         StartOptimize, LexicographicOrder, DimWeights, FallbackClause, SwitchClause,
         Keyword, Running
<1>5. \A i, w : OptionLength(i, w) \in Nat
  BY DEF OptionLength
<1>6. CASE Header
  <2>1. Go(3, <<"clauses">>) \/ Fail
    BY <1>6 DEF Header
  <2>. QED
    BY <1>1, <1>2, <1>3, <1>4, <2>1, OneNearer DEF Fail
<1>7. CASE Close \/ NoClause
  BY <1>1, <1>2, <1>7 DEF Close, NoClause, Fail
<1>8. CASE StartRequire
  <2>. DEFINE fs == <<"operand", "cmp", "and", "or", "require", "clauses">>
  <2>1. fs \in Seq(Frames) /\ Cost(fs) = 12
    <3>1. fs \in Seq(Frames) /\ Len(fs) = 6 /\ fs # <<>> /\ fs[1] = "operand"
      BY <1>3
    <3>. HIDE DEF fs
    <3>. QED
      BY <1>3, <3>1 DEF Cost
  <2>2. Go(1, fs)
    BY <1>8 DEF StartRequire
  <2>. HIDE DEF fs
  <2>. QED
    BY <1>1, <1>3, <1>4, <2>1, <2>2, GoNearer
<1>9. CASE EndRequire
  BY <1>1, <1>2, <1>4, <1>9, NoneNearer DEF EndRequire, Fail
<1>10. CASE PreferClause \/ FallbackClause \/ SwitchClause
  <2>1. ASSUME NEW m \in Nat, NEW k \in {2, 4, 5}, NEW p, Clause(k + m, p)
        PROVE  Nearer
    <3>1. Go(k + m, <<"clauses">>) /\ k + m \in Nat /\ 8 * (k + m) + 3 > 3
      BY <2>1 DEF Clause
    <3>. QED
      BY <1>1, <1>3, <1>4, <3>1, OneNearer
  <2>2. CASE PreferClause
    <3>1. CASE Clause(4, [pol EXCEPT !.prefers = @ + 1])
      <4>1. Go(4, <<"clauses">>)
        BY <3>1 DEF Clause
      <4>. QED
        BY <1>1, <1>3, <1>4, <4>1, OneNearer
    <3>. QED
      BY <1>1, <1>2, <2>2, <3>1 DEF PreferClause, Fail
  <2>3. CASE FallbackClause
    BY <1>1, <1>2, <1>5, <2>1, <2>3 DEF FallbackClause, Fail
  <2>4. CASE SwitchClause
    BY <1>1, <1>2, <1>5, <2>1, <2>4 DEF SwitchClause, Fail
  <2>. QED
    BY <1>10, <2>2, <2>3, <2>4
<1>11. CASE StartOptimize
  <2>1. \/ Go(2, <<"lexicographic", "clauses">>) \/ Go(3, <<"dimWeights", "clauses">>)
        \/ Fail \/ Panic
    BY <1>11 DEF StartOptimize
  <2>. QED
    BY <1>1, <1>2, <1>3, <1>4, <2>1, TwoNearer DEF Fail, Panic
<1>12. CASE LexicographicOrder \/ DimWeights
  <2>1. \/ Go(0, <<>>) \/ Go(1, <<"lexicographic">>) \/ Go(2, <<"dimWeights">>) \/ Fail
    BY <1>12 DEF LexicographicOrder, DimWeights, EndOptimize
  <2>. QED
    BY <1>1, <1>2, <1>3, <1>4, <2>1, OneNearer, NoneNearer DEF Fail
<1>. QED
  BY <1>6, <1>7, <1>8, <1>9, <1>10, <1>11, <1>12 DEF Policy

\* Every step of the parser but the stutter after its return.
LEMMA StepNearer ==
  ASSUME IInv, Next
  PROVE  Nearer \/ (outcome # "running" /\ UNCHANGED vars)
<1>1. IInv'
  BY NextIInv
<1>. QED
  BY <1>1, ExpressionNearer, PolicyNearer DEF Next, Returned

-----------------------------------------------------------------------------
(* The parser takes every plain policy, clause by clause. *)

\* The frame f called on top of the stack K.
Push(f, K) == <<f>> \o K

\* The functions to come back to while a clause, or the expression of a gate, is
\* parsed.
InClauses == Push("clauses", <<>>)
InGate == Push("require", InClauses)
InOr == Push("or", InGate)
InAnd == Push("and", InOr)
InCmp == Push("cmp", InAnd)
InCompared == Push("compared", InAnd)

\* An operand from a to m is being parsed, K is the stack to return to.
OperandBegun(a, m, K) ==
  /\ m \in OperandPhrase(toks, a) /\ toks[m].text \notin {".", "("}
  /\ \/ stack = Push("operand", K) /\ pos = a
     \/ /\ stack = Push("path", K) /\ m \in PathPhrase(toks, a)
        /\ \E q \in 1 .. Len(toks) : pos = a + 1 + 2 * q /\ pos <= m
     \/ /\ m \in CallPhrase(toks, a)
        /\ \/ stack = Push("args", K) /\ pos \in {a + 4, a + 5}
           \/ stack = Push("operand", Push("arg", K)) /\ pos = a + 4
           \/ stack = Push("arg", K) /\ pos = a + 5

\* A list of n literals that starts at a is being parsed.
IsList(a, n) ==
  /\ Mark(toks, a + 2 * n, {"]"})
  /\ \A k \in 1 .. n : Literal(toks, a + 2 * k - 1)
  /\ \A k \in 1 .. n - 1 : Mark(toks, a + 2 * k, {","})

ListBegun(a, n) ==
  /\ IsList(a, n)
  /\ \/ /\ stack = Push("items", InAnd)
        /\ pos = a + 2 * n \/ \E k \in 1 .. n : pos = a + 2 * k - 1
     \/ /\ stack = Push("operand", Push("item", InAnd))
        /\ \E k \in 1 .. n : pos = a + 2 * k - 1
     \/ /\ stack = Push("item", InAnd) /\ val = "literal"
        /\ \E k \in 1 .. n : pos = a + 2 * k

\* What follows the left operand of a comparison that ends at j, from m on.
Rest(m, j) ==
  \/ Mark(toks, m, Operators) /\ j \in OperandPhrase(toks, m + 1)
  \/ Word(toks, m, {"in"}) /\ j \in ListPhrase(toks, m + 1)

\* The gate from b to j is being parsed.
GateBegun(b, j) ==
  /\ toks[b].text = "require" /\ from = b
  /\ \/ \E m \in 1 .. Len(toks) : Rest(m, j) /\ OperandBegun(b + 1, m, InCmp)
     \/ Rest(pos, j) /\ stack = InCmp
     \/ \E m \in 1 .. Len(toks) : OperandBegun(m, j, InCompared)
     \/ pos = j /\ stack = InCompared
     \/ \E a, n \in 1 .. Len(toks) : j = a + 2 * n + 1 /\ ListBegun(a, n)
     \/ pos = j /\ val \in {"compare", "in"} /\ stack \in {InAnd, InOr, InGate}

\* The weights of the optimize clause from b to j are being parsed.
WeightsBegun(b, j) ==
  /\ toks[b].text = "optimize" /\ stack = Push("dimWeights", InClauses)
  /\ \E n, q \in 1 .. Len(toks) :
       /\ j = b + 1 + 2 * n /\ pos = b + 1 + 2 * q /\ q <= n
       /\ \A k \in 0 .. n - 1 :
            Word(toks, b + 1 + 2 * k, Dimensions) /\ Number(toks, b + 1 + 2 * k + 1)

\* Where the parser can be in a policy whose clauses start at P.
Along(P) ==
  \/ outcome = "running" /\ stack = Push("header", <<>>) /\ pos = 1 /\ Collected(P, 4)
  \/ /\ outcome = "running"
     /\ \E b \in Ends(toks, P) :
          /\ Collected(P, b)
          /\ \/ stack = InClauses /\ pos = b
             \/ \E j \in Ends(toks, P) :
                  Spans(toks, P, b, j) /\ (GateBegun(b, j) \/ WeightsBegun(b, j))
  \/ outcome = "ok" /\ pos = Len(toks) /\ Collected(P, pos)

-----------------------------------------------------------------------------

\* What a stack with f on top of K is, and what a call leaves behind it.
LEMMA Pushes ==
  ASSUME NEW f \in Frames, NEW K \in Seq(Frames)
  PROVE  /\ Push(f, K) \in Seq(Frames) /\ Push(f, K) # <<>>
         /\ Head(Push(f, K)) = f /\ Tail(Push(f, K)) = K
         /\ <<>> \o K = K
<1>1. <<f>> \in Seq(Frames) /\ Len(<<f>>) = 1 /\ <<f>>[1] = f
  OBVIOUS
<1>2. /\ Push(f, K) \in Seq(Frames)
      /\ Len(Push(f, K)) = 1 + Len(K)
      /\ \A i \in 1 .. 1 + Len(K) : Push(f, K)[i] = IF i <= 1 THEN f ELSE K[i - 1]
  BY <1>1, ConcatProperties DEF Push
<1>3. Push(f, K) # <<>> /\ Head(Push(f, K)) = f
  BY <1>2
<1>4. Tail(Push(f, K)) = K
  <2>1. /\ Tail(Push(f, K)) \in Seq(Frames) /\ Len(Tail(Push(f, K))) = Len(K)
        /\ \A i \in 1 .. Len(K) : Tail(Push(f, K))[i] = Push(f, K)[i + 1]
    BY <1>2, <1>3, HeadTailProperties
  <2>2. \A i \in 1 .. Len(K) : Tail(Push(f, K))[i] = K[i]
    BY <1>2, <2>1
  <2>. QED
    BY <2>1, <2>2, SeqEqual
<1>. QED
  BY <1>2, <1>3, <1>4, ConcatEmptySeq

\* Two frames at once.
LEMMA PushTwo ==
  ASSUME NEW f \in Frames, NEW g \in Frames, NEW K \in Seq(Frames)
  PROVE  <<f, g>> \o K = Push(f, Push(g, K))
<1>1. <<f>> \in Seq(Frames) /\ <<g>> \in Seq(Frames) /\ <<f, g>> \in Seq(Frames)
  OBVIOUS
<1>2. <<f, g>> = <<f>> \o <<g>>
  <2>. DEFINE s == <<f>> \o <<g>>
              t == <<f, g>>
  <2>1. s \in Seq(Frames) /\ Len(s) = 2 /\ s[1] = f /\ s[2] = g
    BY <1>1, ConcatProperties
  <2>2. t \in Seq(Frames) /\ Len(t) = 2 /\ t[1] = f /\ t[2] = g
    BY <1>1
  <2>. HIDE DEF s, t
  <2>3. \A i \in 1 .. Len(s) : s[i] = t[i]
    BY <2>1, <2>2
  <2>4. s = t
    BY <2>1, <2>2, <2>3, SeqEqual
  <2>. QED
    BY <2>4 DEF s, t
<1>. QED
  BY <1>1, <1>2, ConcatAssociative DEF Push

\* The stacks of a gate.
LEMMA GateStacks ==
  /\ {InClauses, InGate, InOr, InAnd, InCmp, InCompared} \subseteq Seq(Frames)
  /\ <<"operand", "cmp", "and", "or", "require", "clauses">> \o <<>> = Push("operand", InCmp)
  /\ Push("header", <<>>) = <<"header">>
<1>1. /\ {"operand", "cmp", "compared", "and", "or", "require", "clauses", "header"} \subseteq Frames
      /\ <<>> \in Seq(Frames)
  BY DEF Frames
<1>2. InClauses \in Seq(Frames)
  BY <1>1, Pushes DEF InClauses
<1>3. InGate \in Seq(Frames)
  BY <1>1, <1>2, Pushes DEF InGate
<1>4. InOr \in Seq(Frames)
  BY <1>1, <1>3, Pushes DEF InOr
<1>5. InAnd \in Seq(Frames)
  BY <1>1, <1>4, Pushes DEF InAnd
<1>6. InCmp \in Seq(Frames) /\ InCompared \in Seq(Frames)
  BY <1>1, <1>5, Pushes DEF InCmp, InCompared
<1>7. /\ <<"operand", "cmp">> \o (<<"and", "or">> \o (<<"require", "clauses">> \o <<>>))
           = Push("operand", InCmp)
  <2>1. <<"require", "clauses">> \o <<>> = InGate
    BY <1>1, PushTwo DEF InGate, InClauses
  <2>2. <<"and", "or">> \o InGate = InAnd
    BY <1>1, <1>3, PushTwo DEF InAnd, InOr
  <2>3. <<"operand", "cmp">> \o InAnd = Push("operand", InCmp)
    BY <1>1, <1>5, PushTwo DEF InCmp
  <2>. QED
    BY <2>1, <2>2, <2>3
<1>8. <<"operand", "cmp", "and", "or", "require", "clauses">>
        = <<"operand", "cmp">> \o (<<"and", "or">> \o <<"require", "clauses">>)
  OBVIOUS
<1>9. <<"operand", "cmp", "and", "or", "require", "clauses">> \o <<>>
        = <<"operand", "cmp">> \o (<<"and", "or">> \o (<<"require", "clauses">> \o <<>>))
  <2>1. /\ <<"operand", "cmp">> \in Seq(Frames) /\ <<"and", "or">> \in Seq(Frames)
        /\ <<"require", "clauses">> \in Seq(Frames)
        /\ <<"operand", "cmp", "and", "or", "require", "clauses">> \in Seq(Frames)
    BY <1>1
  <2>. QED
    BY <1>8, <2>1, ConcatEmptySeq
<1>10. Push("header", <<>>) = <<"header">>
  <2>1. <<"header">> \in Seq(Frames)
    BY <1>1
  <2>. QED
    BY <2>1, ConcatEmptySeq DEF Push
<1>. QED
  BY <1>2, <1>3, <1>4, <1>5, <1>6, <1>7, <1>9, <1>10

\* Which action runs is up to the innermost frame.
LEMMA Dispatch ==
  ASSUME Next, outcome = "running"
  PROVE  /\ Head(stack) = "header" => Header
         /\ Head(stack) = "clauses" =>
              \/ Close \/ NoClause \/ StartRequire \/ PreferClause \/ StartOptimize
              \/ FallbackClause \/ SwitchClause
         /\ Head(stack) = "require" => EndRequire
         /\ Head(stack) = "dimWeights" => DimWeights
         /\ Head(stack) = "or" => OrChain
         /\ Head(stack) = "and" => AndChain
         /\ Head(stack) = "cmp" => Cmp
         /\ Head(stack) = "compared" => Compared
         /\ Head(stack) = "operand" => Operand
         /\ Head(stack) = "items" => Items
         /\ Head(stack) = "item" => Item
         /\ Head(stack) = "args" => Args
         /\ Head(stack) = "arg" => Arg
         /\ Head(stack) = "path" => Path
<1>1. /\ Header => Head(stack) = "header"
      /\ EndRequire => Head(stack) = "require"
      /\ LexicographicOrder => Head(stack) = "lexicographic"
      /\ DimWeights => Head(stack) = "dimWeights"
  BY DEF Header, EndRequire, LexicographicOrder, DimWeights, Running
<1>2. Close \/ NoClause \/ StartRequire \/ PreferClause \/ StartOptimize
        \/ FallbackClause \/ SwitchClause => Head(stack) = "clauses"
  BY DEF Close, NoClause, StartRequire, PreferClause, StartOptimize, FallbackClause,
         SwitchClause, Keyword, Running
<1>3. /\ OrChain => Head(stack) \in {"or", "orMore"}
      /\ AndChain => Head(stack) \in {"and", "andMore"}
      /\ Cmp => Head(stack) = "cmp"
      /\ Compared => Head(stack) = "compared"
      /\ Items => Head(stack) = "items"
      /\ Item => Head(stack) = "item"
      /\ Args => Head(stack) = "args"
      /\ Arg => Head(stack) = "arg"
      /\ Negated => Head(stack) = "negated"
      /\ Operand => Head(stack) = "operand"
      /\ Path => Head(stack) = "path"
  BY DEF OrChain, AndChain, Chain, Cmp, Compared, Items, Item, Args, Arg, Negated, Operand,
         Path, Running
<1>4. ~Returned
  BY DEF Returned
<1>. QED
  BY <1>1, <1>2, <1>3, <1>4 DEF Next, Policy, Expression

\* A step of an expression ends n tokens on with the stack s and the value v.
Moved(n, s, v) ==
  /\ pos' = pos + n /\ stack' = s /\ val' = v
  /\ UNCHANGED <<toks, outcome, from, opt, pol>>

\* What the step of a frame with K below it leaves on the stack.
LEMMA Leaves ==
  ASSUME NEW f \in Frames, NEW K \in Seq(Frames), stack = Push(f, K)
  PROVE  /\ Head(stack) = f
         /\ \A n, fs : Go(n, fs) =>
              pos' = pos + n /\ stack' = fs \o K /\ UNCHANGED <<toks, outcome>>
         /\ \A n : Go(n, <<>>) => stack' = K
         /\ \A n, g : Go(n, <<g>>) => stack' = Push(g, K)
         /\ \A n, v : Continue(n, <<>>, v) => Moved(n, K, v)
         /\ \A n, v, g : Continue(n, <<g>>, v) => Moved(n, Push(g, K), v)
         /\ \A n, v : \A g, h \in Frames :
              Continue(n, <<g, h>>, v) => Moved(n, Push(g, Push(h, K)), v)
<1>1. Head(stack) = f /\ Tail(stack) = K /\ <<>> \o K = K
  BY Pushes
<1>2. \A n, fs : Go(n, fs) =>
        pos' = pos + n /\ stack' = fs \o K /\ UNCHANGED <<toks, outcome>>
  BY <1>1, Zenon DEF Go
<1>3. \A n, fs, v : Continue(n, fs, v) => Moved(n, fs \o K, v)
  BY <1>2, Zenon DEF Continue, Moved
<1>4. ASSUME NEW n, NEW fs, NEW v, NEW s, s = fs \o K, Continue(n, fs, v)
      PROVE  Moved(n, s, v)
  BY <1>3, <1>4
<1>5. \A n, v : \A g, h \in Frames : Continue(n, <<g, h>>, v) => Moved(n, Push(g, Push(h, K)), v)
  BY <1>4, PushTwo
<1>6. \A n, v, g : Continue(n, <<g>>, v) => Moved(n, Push(g, K), v)
  BY <1>4 DEF Push
<1>7. \A n, v : Continue(n, <<>>, v) => Moved(n, K, v)
  BY <1>1, <1>4
<1>8. \A n : Go(n, <<>>) => stack' = K
  BY <1>1, <1>2
<1>9. \A n, g : Go(n, <<g>>) => stack' = Push(g, K)
  BY <1>2 DEF Push
<1>. QED
  BY <1>1, <1>2, <1>5, <1>6, <1>7, <1>8, <1>9, Zenon

\* A literal of the grammar is one token of the parser's.
LEMMA LiteralStep ==
  ASSUME Next, outcome = "running", NEW K \in Seq(Frames), stack = Push("operand", K),
         Literal(toks, pos)
  PROVE  Moved(1, K, "literal")
<1>1. "operand" \in Frames
  BY DEF Frames
<1>2. Head(stack) = "operand" /\ (Continue(1, <<>>, "literal") => Moved(1, K, "literal"))
  BY <1>1, Leaves
<1>3. Operand
  BY <1>2, Dispatch
<1>4. \/ toks[pos].kind \in {"string", "number"}
      \/ toks[pos].kind = "ident" /\ toks[pos].text \in {"true", "false"}
  BY DEF Literal, Of, Number, Word, At
<1>5. Continue(1, <<>>, "literal")
  BY <1>3, <1>4 DEF Operand, Peek, IsIdent
<1>. QED
  BY <1>2, <1>5

\* No literal has the text of a bracket that closes.
LEMMA LiteralText ==
  ASSUME OnlyMarksClose, NEW i, Literal(toks, i)
  PROVE  i \in DOMAIN toks /\ toks[i].text \notin {"]", ")"}
BY DEF OnlyMarksClose, Literal, Of, Number, Word, At

\* An operand is parsed to its end.
LEMMA OperandGoes ==
  ASSUME OnlyMarksClose, Next, outcome = "running", NEW a \in Nat, NEW m,
         NEW K \in Seq(Frames), OperandBegun(a, m, K)
  PROVE  /\ UNCHANGED <<toks, outcome, from, opt, pol>>
         /\ (stack' = K /\ pos' = m) \/ OperandBegun(a, m, K)'
<1>. DEFINE Done(n, s) == \E v : Moved(n, s, v)
<1>1. /\ {"operand", "path", "args", "arg"} \subseteq Frames
      /\ Push("arg", K) \in Seq(Frames)
  BY Pushes DEF Frames
<1>2. m \in OperandPhrase(toks, a) /\ toks[m].text \notin {".", "("}
  BY DEF OperandBegun
<1>3. \A n, s : Done(n, s) => pos' = pos + n /\ stack' = s /\ UNCHANGED <<toks, outcome, from, opt, pol>>
  BY DEF Moved
<1>4. CASE stack = Push("operand", K) /\ pos = a
  <2>1. Operand /\ Head(stack) = "operand"
    BY <1>1, <1>4, Leaves, Dispatch
  <2>2. CASE Literal(toks, a) /\ m = a + 1
    BY <1>3, <1>4, <2>2, LiteralStep
  <2>3. CASE m \in CallPhrase(toks, a)
    <3>1. /\ toks[a].kind = "ident" /\ toks[a].text = "model"
          /\ toks[a + 1].text = "." /\ toks[a + 2].kind = "ident" /\ toks[a + 3].text = "("
      BY <2>3 DEF CallPhrase, Word, Mark, At
    <3>2. Continue(4, <<"args">>, val)
      BY <1>4, <2>1, <3>1 DEF Operand, Peek, IsIdent
    <3>3. Done(4, Push("args", K))
      BY <1>1, <1>4, <3>2, Leaves
    <3>4. toks' = toks /\ stack' = Push("args", K) /\ pos' = a + 4
      BY <1>3, <1>4, <3>3
    <3>. QED
      BY <1>2, <1>3, <2>3, <3>3, <3>4 DEF OperandBegun
  <2>4. CASE m \in PathPhrase(toks, a)
    <3>1. PICK q \in 1 .. Len(toks) :
            /\ m = a + 1 + 2 * q
            /\ \A k \in 1 .. q : Mark(toks, a + 2 * k - 1, {"."}) /\ Of(toks, a + 2 * k, "ident")
      BY <2>4 DEF PathPhrase
    <3>2. /\ toks[a].kind = "ident" /\ toks[a].text \in Namespaces
          /\ toks[a + 1].text = "." /\ toks[a + 2].kind = "ident"
      <4>1. Mark(toks, a + 2 * 1 - 1, {"."}) /\ Of(toks, a + 2 * 1, "ident")
        BY <3>1
      <4>2. a + 2 * 1 - 1 = a + 1 /\ a + 2 * 1 = a + 2
        OBVIOUS
      <4>. QED
        BY <2>4, <4>1, <4>2 DEF PathPhrase, Word, Mark, Of, At
    <3>3. toks[a + 3].text # "("
      <4>1. CASE q = 1
        BY <1>2, <3>1, <4>1
      <4>2. CASE q # 1
        <5>1. 2 \in 1 .. q /\ a + 2 * 2 - 1 = a + 3
          BY <4>2
        <5>2. Mark(toks, a + 3, {"."})
          BY <3>1, <5>1
        <5>. QED
          BY <5>2 DEF Mark, At
      <4>. QED
        BY <4>1, <4>2
    <3>4. Continue(3, <<"path">>, val)
      BY <1>4, <2>1, <3>2, <3>3 DEF Operand, Peek, IsIdent, Namespaces
    <3>5. Done(3, Push("path", K))
      BY <1>1, <1>4, <3>4, Leaves
    <3>6. toks' = toks /\ stack' = Push("path", K) /\ pos' = a + 3
      BY <1>3, <1>4, <3>5
    <3>7. \E r \in 1 .. Len(toks) : pos' = a + 1 + 2 * r /\ pos' <= m
      <4>1. 1 \in 1 .. Len(toks) /\ a + 3 = a + 1 + 2 * 1 /\ a + 3 <= m
        BY <3>1
      <4>. QED
        BY <3>6, <4>1
    <3>. QED
      BY <1>2, <1>3, <2>4, <3>5, <3>6, <3>7 DEF OperandBegun
  <2>. QED
    BY <1>2, <2>2, <2>3, <2>4 DEF OperandPhrase
<1>5. CASE stack = Push("path", K) /\ m \in PathPhrase(toks, a)
              /\ \E q \in 1 .. Len(toks) : pos = a + 1 + 2 * q /\ pos <= m
  <2>1. Path
    BY <1>1, <1>5, Leaves, Dispatch
  <2>2. PICK q \in 1 .. Len(toks) : pos = a + 1 + 2 * q /\ pos <= m
    BY <1>5
  <2>3. PICK p \in 1 .. Len(toks) :
          /\ m = a + 1 + 2 * p
          /\ \A k \in 1 .. p : Mark(toks, a + 2 * k - 1, {"."}) /\ Of(toks, a + 2 * k, "ident")
    BY <1>5 DEF PathPhrase
  <2>4. CASE pos = m
    <3>1. Continue(0, <<>>, "path")
      BY <1>2, <2>1, <2>4 DEF Path, Peek
    <3>2. Done(0, K)
      BY <1>1, <1>5, <3>1, Leaves
    <3>3. pos' = m
      BY <1>3, <2>2, <2>4, <3>2
    <3>. QED
      BY <1>3, <3>2, <3>3
  <2>5. CASE pos # m
    <3>1. q + 1 \in 1 .. p /\ a + 2 * (q + 1) - 1 = pos /\ a + 2 * (q + 1) = pos + 1
          /\ pos + 2 = a + 1 + 2 * (q + 1) /\ pos + 2 <= m
      BY <2>2, <2>3, <2>5
    <3>2. Mark(toks, pos, {"."}) /\ Of(toks, pos + 1, "ident")
      BY <2>3, <3>1
    <3>3. Continue(2, <<"path">>, val)
      BY <2>1, <3>2 DEF Path, Peek, IsIdent, Mark, Of, At
    <3>4. Done(2, Push("path", K))
      BY <1>1, <1>5, <3>3, Leaves
    <3>5. toks' = toks /\ stack' = Push("path", K) /\ pos' = a + 1 + 2 * (q + 1) /\ pos' <= m
      BY <1>3, <3>1, <3>4
    <3>6. q + 1 \in 1 .. Len(toks)
      BY <2>3, <3>1
    <3>. QED
      BY <1>2, <1>3, <1>5, <3>4, <3>5, <3>6 DEF OperandBegun
  <2>. QED
    BY <2>4, <2>5
<1>6. CASE m \in CallPhrase(toks, a)
           /\ \/ stack = Push("args", K) /\ pos \in {a + 4, a + 5}
              \/ stack = Push("operand", Push("arg", K)) /\ pos = a + 4
              \/ stack = Push("arg", K) /\ pos = a + 5
  <2>1. /\ m = a + 6 /\ a + 4 \in DOMAIN toks /\ toks[a + 4].kind = "string"
        /\ toks[a + 5].kind = "punct" /\ toks[a + 5].text = ")"
    BY <1>6 DEF CallPhrase, Of, Mark, At
  <2>2. toks[a + 4].text # ")"
    BY <2>1 DEF OnlyMarksClose
  <2>3. CASE stack = Push("args", K) /\ pos = a + 4
    <3>1. Args
      BY <1>1, <2>3, Leaves, Dispatch
    <3>2. Continue(0, <<"operand", "arg">>, val)
      BY <2>2, <2>3, <3>1 DEF Args, Peek
    <3>3. Done(0, Push("operand", Push("arg", K)))
      BY <1>1, <2>3, <3>2, Leaves
    <3>4. toks' = toks /\ stack' = Push("operand", Push("arg", K)) /\ pos' = a + 4
      BY <1>3, <2>3, <3>3
    <3>. QED
      BY <1>2, <1>3, <1>6, <3>3, <3>4 DEF OperandBegun
  <2>4. CASE stack = Push("args", K) /\ pos = a + 5
    <3>1. Args
      BY <1>1, <2>4, Leaves, Dispatch
    <3>2. Continue(1, <<>>, "call")
      BY <2>1, <2>4, <3>1 DEF Args, Peek
    <3>3. Done(1, K)
      BY <1>1, <2>4, <3>2, Leaves
    <3>4. pos' = m
      BY <1>3, <2>1, <2>4, <3>3
    <3>. QED
      BY <1>3, <3>3, <3>4
  <2>5. CASE stack = Push("operand", Push("arg", K)) /\ pos = a + 4
    <3>1. Literal(toks, pos)
      BY <2>1, <2>5 DEF Literal, Of
    <3>2. Done(1, Push("arg", K))
      BY <1>1, <2>5, <3>1, LiteralStep
    <3>3. toks' = toks /\ stack' = Push("arg", K) /\ pos' = a + 5
      BY <1>3, <2>5, <3>2
    <3>. QED
      BY <1>2, <1>3, <1>6, <3>2, <3>3 DEF OperandBegun
  <2>6. CASE stack = Push("arg", K) /\ pos = a + 5
    <3>1. Arg
      BY <1>1, <2>6, Leaves, Dispatch
    <3>2. Continue(0, <<"args">>, val)
      BY <2>1, <2>6, <3>1 DEF Arg, Comma, Peek
    <3>3. Done(0, Push("args", K))
      BY <1>1, <2>6, <3>2, Leaves
    <3>4. toks' = toks /\ stack' = Push("args", K) /\ pos' = a + 5
      BY <1>3, <2>6, <3>3
    <3>. QED
      BY <1>2, <1>3, <1>6, <3>3, <3>4 DEF OperandBegun
  <2>. QED
    BY <1>6, <2>3, <2>4, <2>5, <2>6
<1>. QED
  BY <1>4, <1>5, <1>6 DEF OperandBegun

\* So is a list, at whose end the value is a membership.
LEMMA ListGoes ==
  ASSUME OnlyMarksClose, Next, outcome = "running", NEW a \in Nat, NEW n \in 1 .. Len(toks),
         Len(toks) \in Nat, ListBegun(a, n)
  PROVE  /\ UNCHANGED <<toks, outcome, from, opt, pol>>
         /\ \/ stack' = InAnd /\ pos' = a + 2 * n + 1 /\ val' = "in"
            \/ ListBegun(a, n)'
<1>1. /\ {"operand", "items", "item"} \subseteq Frames
      /\ InAnd \in Seq(Frames) /\ Push("item", InAnd) \in Seq(Frames)
  BY Pushes, GateStacks DEF Frames
<1>2. /\ toks[a + 2 * n].text = "]"
      /\ \A k \in 1 .. n : Literal(toks, a + 2 * k - 1) /\ toks[a + 2 * k - 1].text # "]"
      /\ \A k \in 1 .. n - 1 : toks[a + 2 * k].text = ","
  BY LiteralText DEF ListBegun, IsList, Mark, At
<1>3. \A s, v : Moved(0, s, v) \/ Moved(1, s, v) => UNCHANGED <<toks, outcome, from, opt, pol>>
  BY DEF Moved
<1>4. IsList(a, n)
  BY DEF ListBegun
<1>5. CASE stack = Push("items", InAnd) /\ pos = a + 2 * n
  <2>1. Items
    BY <1>1, <1>5, Leaves, Dispatch
  <2>2. Continue(1, <<>>, "in")
    BY <1>2, <1>5, <2>1 DEF Items, Peek
  <2>3. Moved(1, InAnd, "in")
    BY <1>1, <1>5, <2>2, Leaves
  <2>4. stack' = InAnd /\ pos' = a + 2 * n + 1 /\ val' = "in"
    BY <1>5, <2>3 DEF Moved
  <2>. QED
    BY <1>3, <2>3, <2>4
<1>6. ASSUME NEW k \in 1 .. n, stack = Push("items", InAnd), pos = a + 2 * k - 1
      PROVE  UNCHANGED <<toks, outcome, from, opt, pol>> /\ ListBegun(a, n)'
  <2>1. Items
    BY <1>1, <1>6, Leaves, Dispatch
  <2>2. Continue(0, <<"operand", "item">>, val)
    BY <1>2, <1>6, <2>1 DEF Items, Peek
  <2>3. Moved(0, Push("operand", Push("item", InAnd)), val)
    BY <1>1, <1>6, <2>2, Leaves
  <2>4. toks' = toks /\ stack' = Push("operand", Push("item", InAnd)) /\ pos' = a + 2 * k - 1
    BY <1>6, <2>3 DEF Moved
  <2>. QED
    BY <1>3, <1>4, <2>3, <2>4 DEF ListBegun, IsList
<1>7. ASSUME NEW k \in 1 .. n, stack = Push("operand", Push("item", InAnd)), pos = a + 2 * k - 1
      PROVE  UNCHANGED <<toks, outcome, from, opt, pol>> /\ ListBegun(a, n)'
  <2>1. Moved(1, Push("item", InAnd), "literal")
    BY <1>1, <1>2, <1>7, LiteralStep
  <2>2. /\ toks' = toks /\ stack' = Push("item", InAnd) /\ pos' = a + 2 * k
        /\ val' = "literal"
    BY <1>7, <2>1 DEF Moved
  <2>. QED
    BY <1>3, <1>4, <2>1, <2>2 DEF ListBegun, IsList
<1>8. ASSUME NEW k \in 1 .. n, stack = Push("item", InAnd), val = "literal", pos = a + 2 * k
      PROVE  UNCHANGED <<toks, outcome, from, opt, pol>> /\ ListBegun(a, n)'
  <2>1. Item
    BY <1>1, <1>8, Leaves, Dispatch
  <2>2. Continue(Comma, <<"items">>, val)
    BY <1>8, <2>1 DEF Item
  <2>3. Moved(Comma, Push("items", InAnd), val)
    BY <1>1, <1>8, <2>2, Leaves
  <2>4. CASE k = n
    <3>1. Comma = 0
      BY <1>2, <1>8, <2>4 DEF Comma, Peek
    <3>2. toks' = toks /\ stack' = Push("items", InAnd) /\ pos' = a + 2 * n
      BY <1>8, <2>3, <2>4, <3>1 DEF Moved
    <3>. QED
      BY <1>3, <1>4, <2>3, <3>1, <3>2 DEF ListBegun, IsList
  <2>5. CASE k # n
    <3>1. k \in 1 .. n - 1 /\ k + 1 \in 1 .. n
      BY <2>5
    <3>2. Comma = 1
      BY <1>2, <1>8, <3>1 DEF Comma, Peek
    <3>3. toks' = toks /\ stack' = Push("items", InAnd) /\ pos' = a + 2 * (k + 1) - 1
      BY <1>8, <2>3, <3>1, <3>2 DEF Moved
    <3>. QED
      BY <1>3, <1>4, <2>3, <3>1, <3>2, <3>3 DEF ListBegun, IsList
  <2>. QED
    BY <2>4, <2>5
<1>. QED
  BY <1>5, <1>6, <1>7, <1>8 DEF ListBegun

\* And the comparison of a gate, up to the functions that the whole expression
\* comes back through.
LEMMA GateGoes ==
  ASSUME OnlyMarksClose, Next, outcome = "running", NEW b \in Nat, NEW j \in Nat,
         toks \in Seq(Token), pos \in Nat,
         toks[j].text \notin {".", "(", "and", "or"}, GateBegun(b, j), stack # InGate
  PROVE  UNCHANGED <<toks, outcome, opt, pol>> /\ GateBegun(b, j)'
<1>. DEFINE Kept == UNCHANGED <<toks, outcome, from, opt, pol>>
<1>1. /\ {"operand", "cmp", "compared", "and", "or", "items"} \subseteq Frames
      /\ {InGate, InOr, InAnd, InCmp, InCompared} \subseteq Seq(Frames)
  BY GateStacks DEF Frames
<1>2. \A n, s, v : Moved(n, s, v) => Kept /\ pos' = pos + n /\ stack' = s /\ val' = v
  BY DEF Moved
<1>3. toks[b].text = "require" /\ from = b
  BY DEF GateBegun
<1>4. ASSUME NEW m \in 1 .. Len(toks), Rest(m, j), OperandBegun(b + 1, m, InCmp)
      PROVE  Kept /\ GateBegun(b, j)'
  <2>1. Kept /\ ((stack' = InCmp /\ pos' = m) \/ OperandBegun(b + 1, m, InCmp)')
    <3>1. b + 1 \in Nat /\ InCmp \in Seq(Frames)
      BY <1>1
    <3>. QED
      BY <1>4, <3>1, OperandGoes
  <2>2. Rest(m, j)'
    BY <1>4, <2>1 DEF Rest
  <2>3. pos' = m => Rest(pos, j)'
    BY <1>4, <2>1 DEF Rest
  <2>. QED
    BY <1>3, <2>1, <2>2, <2>3 DEF GateBegun
<1>5. CASE Rest(pos, j) /\ stack = InCmp
  <2>. PICK p \in Nat : p = pos
    OBVIOUS
  <2>1. Cmp
    BY <1>1, <1>5, Leaves, Dispatch DEF InCmp
  <2>2. CASE Mark(toks, pos, Operators) /\ j \in OperandPhrase(toks, pos + 1)
    <3>1. Continue(1, <<"operand", "compared">>, val)
      BY <2>1, <2>2 DEF Cmp, Peek, IsIdent, Mark, At, Operators, CmpOps
    <3>2. Moved(1, Push("operand", InCompared), val)
      BY <1>1, <1>5, <3>1, Leaves DEF InCmp, InCompared
    <3>3. Kept /\ pos' = pos + 1 /\ stack' = Push("operand", InCompared)
      BY <1>2, <3>2
    <3>4. p + 1 \in 1 .. Len(toks)
      BY <2>2 DEF OperandPhrase, PathPhrase, CallPhrase, Literal, Number, Of, Word, At
    <3>5. OperandBegun(p + 1, j, InCompared)'
      BY <2>2, <3>3 DEF OperandBegun
    <3>6. \E m \in 1 .. Len(toks) : OperandBegun(m, j, InCompared)'
      BY <3>4, <3>5
    <3>7. toks' = toks /\ from' = from
      BY <3>3
    <3>8. GateBegun(b, j)'
      BY <1>3, <3>6, <3>7 DEF GateBegun
    <3>. QED
      BY <3>3, <3>8
  <2>3. CASE Word(toks, pos, {"in"}) /\ j \in ListPhrase(toks, pos + 1)
    <3>1. PICK n \in 1 .. Len(toks) :
            /\ j = p + 1 + 2 * n + 1
            /\ Mark(toks, p + 1, {"["}) /\ IsList(p + 1, n)
      BY <2>3 DEF ListPhrase, IsList
    <3>2. p + 1 \in 1 .. Len(toks) /\ 1 \in 1 .. n
      BY <3>1 DEF Mark, At
    <3>3. Continue(2, <<"items">>, val)
      BY <2>1, <2>3, <3>1 DEF Cmp, Peek, IsIdent, IsPunct, Word, Mark, At
    <3>4. Moved(2, Push("items", InAnd), val)
      BY <1>1, <1>5, <3>3, Leaves DEF InCmp
    <3>5. Kept /\ pos' = pos + 2 /\ stack' = Push("items", InAnd)
      BY <1>2, <3>4
    <3>6. pos' = (p + 1) + 2 * 1 - 1 /\ toks' = toks /\ from' = from
      BY <3>5
    <3>7. ListBegun(p + 1, n)'
      BY <3>1, <3>2, <3>5, <3>6 DEF ListBegun, IsList
    <3>8. \E a, l \in 1 .. Len(toks) : j = a + 2 * l + 1 /\ ListBegun(a, l)'
      BY <3>1, <3>2, <3>7
    <3>9. GateBegun(b, j)'
      BY <1>3, <3>6, <3>8 DEF GateBegun
    <3>. QED
      BY <3>5, <3>9
  <2>. QED
    BY <1>5, <2>2, <2>3 DEF Rest
<1>6. ASSUME NEW m \in 1 .. Len(toks), OperandBegun(m, j, InCompared)
      PROVE  Kept /\ GateBegun(b, j)'
  <2>1. Kept /\ ((stack' = InCompared /\ pos' = j) \/ OperandBegun(m, j, InCompared)')
    <3>1. m \in Nat /\ InCompared \in Seq(Frames)
      BY <1>1
    <3>. QED
      BY <1>6, <3>1, OperandGoes
  <2>. QED
    BY <1>3, <2>1 DEF GateBegun
<1>7. CASE pos = j /\ stack = InCompared
  <2>1. Compared
    BY <1>1, <1>7, Leaves, Dispatch DEF InCompared
  <2>2. Moved(0, InAnd, "compare")
    BY <1>1, <1>7, <2>1, Leaves DEF InCompared, Compared
  <2>3. Kept /\ pos' = j /\ stack' = InAnd /\ val' = "compare"
    BY <1>2, <1>7, <2>2
  <2>. QED
    BY <1>3, <2>3 DEF GateBegun
<1>8. ASSUME NEW a \in 1 .. Len(toks), NEW n \in 1 .. Len(toks), j = a + 2 * n + 1, ListBegun(a, n)
      PROVE  Kept /\ GateBegun(b, j)'
  <2>1. /\ Kept
        /\ \/ stack' = InAnd /\ pos' = j /\ val' = "in"
           \/ ListBegun(a, n)'
    BY <1>8, ListGoes
  <2>. QED
    BY <1>3, <1>8, <2>1 DEF GateBegun
<1>9. CASE pos = j /\ val \in {"compare", "in"} /\ stack \in {InAnd, InOr}
  <2>1. CASE stack = InAnd
    <3>1. AndChain /\ Head(stack) = "and"
      BY <1>1, <2>1, Leaves, Dispatch DEF InAnd
    <3>2. Continue(0, <<>>, val)
      BY <1>9, <3>1 DEF AndChain, Chain, Running, Peek
    <3>3. Moved(0, InOr, val)
      BY <1>1, <2>1, <3>2, Leaves DEF InAnd
    <3>4. Kept /\ pos' = j /\ stack' = InOr /\ val' = val
      BY <1>2, <1>9, <3>3
    <3>. QED
      BY <1>3, <1>9, <3>4 DEF GateBegun
  <2>2. CASE stack = InOr
    <3>1. OrChain /\ Head(stack) = "or"
      BY <1>1, <2>2, Leaves, Dispatch DEF InOr
    <3>2. Continue(0, <<>>, val)
      BY <1>9, <3>1 DEF OrChain, Chain, Running, Peek
    <3>3. Moved(0, InGate, val)
      BY <1>1, <2>2, <3>2, Leaves DEF InOr
    <3>4. Kept /\ pos' = j /\ stack' = InGate /\ val' = val
      BY <1>2, <1>9, <3>3
    <3>. QED
      BY <1>3, <1>9, <3>4 DEF GateBegun
  <2>. QED
    BY <1>9, <2>1, <2>2
<1>. QED
  <2>1. Kept /\ GateBegun(b, j)'
    BY <1>4, <1>5, <1>6, <1>7, <1>8, <1>9 DEF GateBegun
  <2>. QED
    BY <2>1

\* What a cut says of its positions.
LEMMA CutIs ==
  ASSUME WellLexed(toks), NEW P \in PlainCuts(toks)
  PROVE  /\ toks \in Seq(Token) /\ Len(toks) \in Nat /\ Len(toks) - 1 \in 4 .. Len(toks)
         /\ IsFiniteSet(P) /\ 4 \in Ends(toks, P) /\ Ends(toks, P) \subseteq 4 .. Len(toks) - 1
         /\ P \subseteq Ends(toks, P) /\ Ends(toks, P) \subseteq Nat
         /\ \A i \in P : i < Len(toks) - 1 /\ toks[i].kind = "ident"
         /\ \A j \in Ends(toks, P) :
              toks[j].text \in {"require", "prefer", "optimize", "fallback", "switch", "}"}
         /\ toks[Len(toks) - 1].kind = "punct" /\ toks[Len(toks) - 1].text = "}"
<1>1. /\ toks \in Seq(Token) /\ Len(toks) \in Nat \ {0} /\ DOMAIN toks = 1 .. Len(toks)
      /\ Len(toks) \in 1 .. Len(toks)
  BY SomeTokens
<1>2. IsCut(toks, P) /\ P \subseteq Keywords(toks)
  BY DEF PlainCuts
<1>3. \A i \in P :
        /\ i \in 4 .. Len(toks) /\ toks[i].kind = "ident"
        /\ toks[i].text \in {"require", "prefer", "optimize", "fallback", "switch"}
  BY <1>2 DEF Keywords, Word, At
<1>4. /\ Len(toks) - 1 \in DOMAIN toks
      /\ toks[Len(toks) - 1].kind = "punct" /\ toks[Len(toks) - 1].text = "}"
      /\ 4 \in Ends(toks, P)
  BY <1>2 DEF IsCut, Mark, At
<1>5. toks[Len(toks)].kind = "eof"
  BY <1>1, Tokens
<1>6. \A i \in P : i < Len(toks) - 1
  <2>1. ASSUME NEW i \in P
        PROVE  i # Len(toks) /\ i # Len(toks) - 1
    BY <1>3, <1>4, <1>5
  <2>. QED
    BY <1>1, <1>3, <2>1
<1>7. Len(toks) - 1 \in 4 .. Len(toks)
  <2>1. CASE 4 \in P
    BY <1>1, <1>6, <2>1
  <2>2. CASE 4 = Len(toks) - 1
    <3>1. \A l \in Nat : 4 = l - 1 => l - 1 \in 4 .. l
      OBVIOUS
    <3>. QED
      BY <1>1, <2>2, <3>1
  <2>. QED
    BY <1>4, <2>1, <2>2 DEF Ends
<1>8. IsFiniteSet(P)
  <2>1. IsFiniteSet(4 .. Len(toks)) /\ P \subseteq 4 .. Len(toks)
    BY <1>1, <1>3, FS_Interval
  <2>. QED
    BY <2>1, FS_Subset
<1>9. Ends(toks, P) \subseteq 4 .. Len(toks) - 1
  <2>1. P \subseteq 4 .. Len(toks) - 1 /\ Len(toks) - 1 \in 4 .. Len(toks) - 1
    BY <1>1, <1>3, <1>6, <1>7
  <2>. QED
    BY <2>1 DEF Ends
<1>10. P \subseteq Ends(toks, P) /\ Ends(toks, P) \subseteq Nat
  <2>1. 4 .. Len(toks) - 1 \subseteq Nat
    BY <1>1
  <2>. QED
    BY <1>9, <2>1 DEF Ends
<1>11. \A j \in Ends(toks, P) :
         toks[j].text \in {"require", "prefer", "optimize", "fallback", "switch", "}"}
  BY <1>3, <1>4 DEF Ends
<1>. QED
  BY <1>1, <1>3, <1>4, <1>6, <1>7, <1>8, <1>9, <1>10, <1>11, Zenon

\* One clause more.
LEMMA NamedMore ==
  ASSUME WellLexed(toks), NEW P \in PlainCuts(toks), NEW b, NEW j, Spans(toks, P, b, j)
  PROVE  \A w :
           /\ b \notin Named(P, w, b)
           /\ toks[b].text = w => Named(P, w, j) = Named(P, w, b) \cup {b}
           /\ toks[b].text # w => Named(P, w, j) = Named(P, w, b)
<1>1. /\ Ends(toks, P) \subseteq 4 .. Len(toks) - 1 /\ Len(toks) \in Nat
      /\ P \subseteq Ends(toks, P)
  BY CutIs DEF Ends
<1>2. /\ b \in P /\ j \in Ends(toks, P) /\ b < j
      /\ \A k \in P : k <= b \/ j <= k
  BY DEF Spans
<1>3. b \in Nat /\ j \in Nat /\ P \subseteq Nat
  BY <1>1, <1>2
<1>4. \A k \in P : (k < j <=> k < b \/ k = b) /\ ~(b < b)
  BY <1>2, <1>3
<1>5. ASSUME NEW w
      PROVE  /\ b \notin Named(P, w, b)
             /\ toks[b].text = w => Named(P, w, j) = Named(P, w, b) \cup {b}
             /\ toks[b].text # w => Named(P, w, j) = Named(P, w, b)
  <2>1. \A k : k \in Named(P, w, j) <=> k \in P /\ (k < b \/ k = b) /\ toks[k].text = w
    BY <1>4 DEF Named
  <2>2. \A k : k \in Named(P, w, b) <=> k \in P /\ k < b /\ toks[k].text = w
    BY DEF Named
  <2>. QED
    BY <1>2, <1>4, <2>1, <2>2
<1>. QED
  BY <1>5

\* The gate of a require clause, in a policy that has it beside those before.
Pairs(gates) == {<<gates[g].from, gates[g].to + 1>> : g \in DOMAIN gates}

LEMMA GateMore ==
  ASSUME NEW old \in Seq(Gate), NEW g \in Gate
  PROVE  Pairs(Append(old, g)) = Pairs(old) \cup {<<g.from, g.to + 1>>}
<1>. DEFINE new == Append(old, g)
<1>1. /\ Len(old) \in Nat /\ DOMAIN old = 1 .. Len(old) /\ DOMAIN new = 1 .. Len(old) + 1
      /\ \A i \in 1 .. Len(old) : new[i] = old[i]
      /\ new[Len(old) + 1] = g
  BY AppendProperties
<1>2. \A i \in DOMAIN new : i = Len(old) + 1 \/ i \in DOMAIN old
  BY <1>1
<1>3. Len(old) + 1 \in DOMAIN new /\ \A i \in DOMAIN old : i \in DOMAIN new
  BY <1>1
<1>. HIDE DEF new
<1>4. \A x : x \in Pairs(new) <=> x \in Pairs(old) \/ x = <<g.from, g.to + 1>>
  BY <1>1, <1>2, <1>3 DEF Pairs
<1>5. Pairs(new) = Pairs(old) \cup {<<g.from, g.to + 1>>}
  BY <1>4
<1>. QED
  BY <1>5 DEF new

\* A field of a policy and the others.
LEMMA Fields ==
  ASSUME NEW p \in PolicyType, NEW x
  PROVE  /\ [p EXCEPT !.requires = x] =
              [requires |-> x, prefers |-> p.prefers, optimize |-> p.optimize,
               fallback |-> p.fallback, switch |-> p.switch]
         /\ [p EXCEPT !.prefers = x] =
              [requires |-> p.requires, prefers |-> x, optimize |-> p.optimize,
               fallback |-> p.fallback, switch |-> p.switch]
         /\ [p EXCEPT !.optimize = x] =
              [requires |-> p.requires, prefers |-> p.prefers, optimize |-> x,
               fallback |-> p.fallback, switch |-> p.switch]
         /\ [p EXCEPT !.fallback = x] =
              [requires |-> p.requires, prefers |-> p.prefers, optimize |-> p.optimize,
               fallback |-> x, switch |-> p.switch]
         /\ [p EXCEPT !.switch = x] =
              [requires |-> p.requires, prefers |-> p.prefers, optimize |-> p.optimize,
               fallback |-> p.fallback, switch |-> x]
BY DEF PolicyType

\* The policy under construction holds the clauses up to j when the clause from
\* b to j has been added to it.
LEMMA CollectedMore ==
  ASSUME WellLexed(toks), pol \in PolicyType, NEW P \in PlainCuts(toks), NEW b, NEW j,
         Spans(toks, P, b, j), Collected(P, b), toks' = toks,
         \/ /\ toks[b].text = "require"
            /\ \E v \in {"compare", "in"} :
                 pol' = [pol EXCEPT !.requires =
                           Append(@, [form |-> v, from |-> b, to |-> j - 1])]
         \/ toks[b].text = "prefer" /\ pol' = [pol EXCEPT !.prefers = @ + 1]
         \/ toks[b].text = "optimize" /\ \E x : pol' = [pol EXCEPT !.optimize = <<x>>]
         \/ toks[b].text = "fallback" /\ \E x : pol' = [pol EXCEPT !.fallback = <<x>>]
         \/ toks[b].text = "switch" /\ \E x : pol' = [pol EXCEPT !.switch = <<x>>]
  PROVE  Collected(P, j)'
<1>. DEFINE Stretches(k) ==
              {s \in Named(P, "require", k) \X Ends(toks, P) : Spans(toks, P, s[1], s[2])}
<1>0. /\ Ends(toks, P) \subseteq 4 .. Len(toks) - 1 /\ Len(toks) \in Nat
      /\ P \subseteq Ends(toks, P)
  BY CutIs DEF Ends
<1>1. /\ pol.requires \in Seq(Gate) /\ pol.prefers \in Nat
      /\ b \in Nat /\ j \in Nat /\ b < j /\ b \in P /\ j \in Ends(toks, P)
  <2>1. b < j /\ b \in P /\ j \in Ends(toks, P)
    BY DEF Spans
  <2>2. pol.requires \in Seq(Gate) /\ pol.prefers \in Nat
    BY DEF PolicyType
  <2>. QED
    BY <1>0, <2>1, <2>2
<1>2. /\ Pairs(pol.requires) = Stretches(b)
      /\ pol.prefers = Cardinality(Named(P, "prefer", b))
      /\ pol.optimize # <<>> <=> Named(P, "optimize", b) # {}
      /\ pol.fallback # <<>> <=> Named(P, "fallback", b) # {}
      /\ pol.switch # <<>> <=> Named(P, "switch", b) # {}
  BY DEF Collected, Pairs
<1>3. /\ toks[b].text = "require" =>
           \E v \in {"compare", "in"} :
             pol'.requires = Append(pol.requires, [form |-> v, from |-> b, to |-> j - 1])
      /\ toks[b].text # "require" => pol'.requires = pol.requires
      /\ toks[b].text = "prefer" => pol'.prefers = pol.prefers + 1
      /\ toks[b].text # "prefer" => pol'.prefers = pol.prefers
      /\ toks[b].text = "optimize" => pol'.optimize # <<>>
      /\ toks[b].text # "optimize" => pol'.optimize = pol.optimize
      /\ toks[b].text = "fallback" => pol'.fallback # <<>>
      /\ toks[b].text # "fallback" => pol'.fallback = pol.fallback
      /\ toks[b].text = "switch" => pol'.switch # <<>>
      /\ toks[b].text # "switch" => pol'.switch = pol.switch
  <2>1. CASE toks[b].text = "require"
    BY <2>1, Fields
  <2>2. CASE toks[b].text = "prefer"
    BY <2>2, Fields
  <2>3. CASE toks[b].text = "optimize"
    <3>1. PICK x : pol' = [pol EXCEPT !.optimize = <<x>>]
      BY <2>3
    <3>2. <<x>> # <<>>
      OBVIOUS
    <3>. QED
      BY <2>3, <3>1, <3>2, Fields
  <2>4. CASE toks[b].text = "fallback"
    <3>1. PICK x : pol' = [pol EXCEPT !.fallback = <<x>>]
      BY <2>4
    <3>2. <<x>> # <<>>
      OBVIOUS
    <3>. QED
      BY <2>4, <3>1, <3>2, Fields
  <2>5. CASE toks[b].text = "switch"
    <3>1. PICK x : pol' = [pol EXCEPT !.switch = <<x>>]
      BY <2>5
    <3>2. <<x>> # <<>>
      OBVIOUS
    <3>. QED
      BY <2>5, <3>1, <3>2, Fields
  <2>. QED
    BY <2>1, <2>2, <2>3, <2>4, <2>5
<1>4. \A w :
        /\ b \notin Named(P, w, b)
        /\ toks[b].text = w => Named(P, w, j) = Named(P, w, b) \cup {b}
        /\ toks[b].text # w => Named(P, w, j) = Named(P, w, b)
  BY NamedMore
<1>5. Pairs(pol'.requires) = Stretches(j)
  <2>1. CASE toks[b].text # "require"
    BY <1>2, <1>3, <1>4, <2>1
  <2>2. CASE toks[b].text = "require"
    <3>1. PICK g \in Gate :
            g.from = b /\ g.to = j - 1 /\ pol'.requires = Append(pol.requires, g)
      <4>1. PICK v \in {"compare", "in"} :
              pol'.requires = Append(pol.requires, [form |-> v, from |-> b, to |-> j - 1])
        BY <1>3, <2>2
      <4>2. [form |-> v, from |-> b, to |-> j - 1] \in Gate
        BY <1>1 DEF Gate
      <4>. QED
        BY <4>1, <4>2
    <3>3. Pairs(pol'.requires) = Pairs(pol.requires) \cup {<<b, (j - 1) + 1>>}
      BY <1>1, <3>1, GateMore
    <3>4. Stretches(j) = Stretches(b) \cup {<<b, j>>}
      <4>1. Named(P, "require", j) = Named(P, "require", b) \cup {b}
        BY <1>4, <2>2
      <4>2. ASSUME NEW k \in Ends(toks, P), Spans(toks, P, b, k)
            PROVE  k = j
        <5>1. /\ k \in P \/ k = Len(toks) - 1
              /\ j \in P \/ j = Len(toks) - 1
              /\ k <= Len(toks) - 1 /\ j <= Len(toks) - 1 /\ k \in Nat /\ Len(toks) \in Nat
          BY <1>0, <1>1 DEF Ends
        <5>2. /\ b < k /\ \A l \in P : l <= b \/ k <= l
              /\ b < j /\ \A l \in P : l <= b \/ j <= l
          BY <4>2 DEF Spans
        <5>. QED
          BY <1>1, <5>1, <5>2
      <4>. QED
        BY <1>1, <4>1, <4>2
    <3>5. (j - 1) + 1 = j
      BY <1>1
    <3>. QED
      BY <1>2, <3>3, <3>4, <3>5
  <2>. QED
    BY <2>1, <2>2
<1>6. pol'.prefers = Cardinality(Named(P, "prefer", j))
  <2>1. CASE toks[b].text # "prefer"
    BY <1>2, <1>3, <1>4, <2>1
  <2>2. CASE toks[b].text = "prefer"
    <3>1. IsFiniteSet(Named(P, "prefer", b))
      BY CutIs, FS_Subset DEF Named
    <3>2. Cardinality(Named(P, "prefer", b) \cup {b}) = Cardinality(Named(P, "prefer", b)) + 1
      BY <1>4, <3>1, FS_AddElement
    <3>. QED
      BY <1>2, <1>3, <1>4, <2>2, <3>2
  <2>. QED
    BY <2>1, <2>2
<1>7. /\ pol'.optimize # <<>> <=> Named(P, "optimize", j) # {}
      /\ pol'.fallback # <<>> <=> Named(P, "fallback", j) # {}
      /\ pol'.switch # <<>> <=> Named(P, "switch", j) # {}
  BY <1>2, <1>3, <1>4
<1>. QED
  BY <1>5, <1>6, <1>7 DEF Collected, Named, Pairs

\* A policy under construction that a step leaves alone.
LEMMA CollectedKeeps ==
  ASSUME toks' = toks, pol' = pol, NEW P, NEW b, Collected(P, b)
  PROVE  Collected(P, b)'
BY DEF Collected, Named

\* The words of the parser and the grammar's, and their numbers.
LEMMA SameWords ==
  /\ Dims = Dimensions /\ "lexicographic" \notin Dimensions
  /\ \A i : Number(toks, i) \/ Integer(toks, i) => IsFloat(i)
<1>1. Dims = Dimensions /\ "lexicographic" \notin Dimensions
  BY DEF Dims, Dimensions
<1>2. \A x : x \in Decimals \/ x \in Wholes => x \notin Malformed
  BY NumbersParse
<1>. QED
  BY <1>1, <1>2 DEF Number, Integer, At, IsFloat

\* What may run where a clause may start.
LEMMA AtClause ==
  ASSUME Next, outcome = "running", stack = InClauses
  PROVE  /\ \A n, fs : Go(n, fs) =>
              pos' = pos + n /\ stack' = fs \o <<>> /\ UNCHANGED <<toks, outcome>>
         /\ \A n : Go(n, <<"clauses">>) => stack' = InClauses
         /\ IsPunct(pos, "}") => Close
         /\ IsIdent(pos) /\ Peek.text = "require" => StartRequire
         /\ IsIdent(pos) /\ Peek.text = "prefer" => PreferClause
         /\ IsIdent(pos) /\ Peek.text = "optimize" => StartOptimize
         /\ IsIdent(pos) /\ Peek.text = "fallback" => FallbackClause
         /\ IsIdent(pos) /\ Peek.text = "switch" => SwitchClause
<1>1. "clauses" \in Frames /\ <<>> \in Seq(Frames) /\ InClauses = Push("clauses", <<>>)
  BY DEF Frames, InClauses
<1>2. /\ Head(stack) = "clauses"
      /\ \A n, fs : Go(n, fs) =>
           pos' = pos + n /\ stack' = fs \o <<>> /\ UNCHANGED <<toks, outcome>>
      /\ \A n : Go(n, <<"clauses">>) => stack' = InClauses
  BY <1>1, Leaves
<1>3. \/ Close \/ NoClause \/ StartRequire \/ PreferClause \/ StartOptimize
      \/ FallbackClause \/ SwitchClause
  BY <1>2, Dispatch
<1>4. /\ Close => AtEnd
      /\ NoClause => /\ ~AtEnd
                     /\ \/ ~IsIdent(pos)
                        \/ Peek.text \notin {"require", "prefer", "optimize", "fallback", "switch"}
      /\ StartRequire => ~AtEnd /\ Peek.text = "require"
      /\ PreferClause => ~AtEnd /\ Peek.text = "prefer"
      /\ StartOptimize => ~AtEnd /\ Peek.text = "optimize"
      /\ FallbackClause => ~AtEnd /\ Peek.text = "fallback"
      /\ SwitchClause => ~AtEnd /\ Peek.text = "switch"
  BY Zenon DEF Close, NoClause, StartRequire, PreferClause, StartOptimize, FallbackClause,
               SwitchClause, Keyword
<1>5. /\ IsPunct(pos, "}") => AtEnd
      /\ IsIdent(pos) /\ Peek.text # "}" => ~AtEnd
  BY DEF IsPunct, IsIdent, AtEnd, Peek
<1>. QED
  BY <1>2, <1>3, <1>4, <1>5

\* The last brace closes the policy.
LEMMA CloseStep ==
  ASSUME WellLexed(toks), Next, NEW P \in PlainCuts(toks), outcome = "running",
         NEW b \in Ends(toks, P), b \notin P, Collected(P, b), stack = InClauses, pos = b
  PROVE  toks' = toks /\ Along(P)'
<1>1. /\ Len(toks) \in Nat /\ P \subseteq Nat
      /\ toks[Len(toks) - 1].kind = "punct" /\ toks[Len(toks) - 1].text = "}"
      /\ \A i \in P : i < Len(toks) - 1
  <2>1. P \subseteq Nat
    BY CutIs
  <2>. QED
    BY <2>1, CutIs
<1>2. b = Len(toks) - 1
  BY DEF Ends
<1>3. AtEnd /\ IsPunct(pos, "}")
  BY <1>1, <1>2 DEF AtEnd, Peek, IsPunct
<1>4. outcome' = "ok" /\ pos' = b + 1 /\ toks' = toks /\ pol' = pol
  BY <1>3, AtClause DEF Close
<1>5. b \in Nat /\ Len(toks) = b + 1
  <2>1. \A l \in Nat : b = l - 1 /\ l > 0 => b \in Nat /\ l = b + 1
    OBVIOUS
  <2>2. Len(toks) > 0
    BY DEF WellLexed
  <2>. QED
    BY <1>1, <1>2, <2>1, <2>2
<1>6. \A i \in P : i < Len(toks) /\ i < b
  <2>1. \A i \in Nat : i < b => i < b + 1
    BY <1>5
  <2>2. \A i \in P : i \in Nat /\ i < b
    BY <1>1, <1>2
  <2>. QED
    BY <1>5, <2>1, <2>2
<1>7. Collected(P, Len(toks))
  <2>1. \A w : Named(P, w, Len(toks)) = Named(P, w, b)
    BY <1>6 DEF Named
  <2>. QED
    BY <2>1 DEF Collected
<1>8. PICK l : l = Len(toks)
  OBVIOUS
<1>9. Collected(P, l)'
  BY <1>4, <1>7, <1>8, CollectedKeeps
<1>. QED
  BY <1>4, <1>5, <1>8, <1>9 DEF Along

\* The option of a clause that ends at j is there or not for both.
LEMMA OptionIs ==
  ASSUME NEW i \in Nat, NEW word, NEW j \in Option(toks, i, word), toks[j].text # word
  PROVE  OptionFits(i, word) /\ i + OptionLength(i, word) = j
<1>1. CASE j = i
  BY <1>1 DEF OptionFits, OptionLength
<1>2. CASE j = i + 2 /\ Word(toks, i, {word}) /\ Integer(toks, i + 1)
  BY <1>2, SameWords DEF OptionFits, OptionLength, Word, At
<1>. QED
  BY <1>1, <1>2 DEF Option

\* A clause is begun, or read in one piece.
LEMMA ClauseStep ==
  ASSUME WellLexed(toks), pol \in PolicyType, Next, NEW P \in PlainCuts(toks),
         outcome = "running",
         NEW b \in P, Collected(P, b), stack = InClauses, pos = b
  PROVE  toks' = toks /\ Along(P)'
<1>1. PICK j \in Ends(toks, P) : Spans(toks, P, b, j) /\ j \in ClausePhrase(toks, b)
  BY DEF PlainCuts, IsCut
<1>2. /\ toks \in Seq(Token) /\ Len(toks) \in Nat
      /\ P \subseteq Ends(toks, P) /\ Ends(toks, P) \subseteq Nat
      /\ toks[b].kind = "ident" /\ b < Len(toks) - 1
      /\ toks[j].text \in {"require", "prefer", "optimize", "fallback", "switch", "}"}
  BY CutIs
<1>3. b \in Ends(toks, P) /\ b \in Nat /\ j \in Nat
  BY <1>2
<1>0. \A i \in DOMAIN toks : i \in 1 .. Len(toks) /\ ~(i > Len(toks))
  <2>1. toks \in Seq(Token)
    BY <1>2
  <2>. QED
    BY <2>1
<1>4. /\ \A n, fs : Go(n, fs) =>
           pos' = pos + n /\ stack' = fs \o <<>> /\ UNCHANGED <<toks, outcome>>
      /\ \A n : Go(n, <<"clauses">>) => stack' = InClauses
  BY AtClause
<1>5. IsIdent(pos) /\ Peek = toks[b]
  BY <1>2 DEF IsIdent, Peek
<1>6. ASSUME toks' = toks, outcome' = "running", pol' = pol,
             Spans(toks, P, b, j)' => (GateBegun(b, j) \/ WeightsBegun(b, j))'
      PROVE  Along(P)'
  <2>1. Collected(P, b)'
    BY <1>6, CollectedKeeps
  <2>2. Spans(toks, P, b, j)' /\ b \in Ends(toks, P)' /\ j \in Ends(toks, P)'
    BY <1>1, <1>3, <1>6 DEF Spans, Ends
  <2>. QED
    BY <1>6, <2>1, <2>2 DEF Along
<1>7. ASSUME NEW n, NEW p, Clause(n, p), b + n = j, Collected(P, j)'
      PROVE  toks' = toks /\ Along(P)'
  <2>1. toks' = toks /\ outcome' = "running" /\ stack' = InClauses /\ pos' = j
    BY <1>4, <1>7 DEF Clause
  <2>2. j \in Ends(toks, P)'
    BY <2>1 DEF Ends
  <2>. QED
    BY <1>7, <2>1, <2>2 DEF Along
<1>8. CASE Word(toks, b, {"require"}) /\ j \in CmpPhrase(toks, b + 1)
  <2>1. toks[b].text = "require"
    BY <1>8 DEF Word, At
  <2>2. StartRequire
    BY <1>5, <2>1, AtClause
  <2>3. PICK m \in OperandPhrase(toks, b + 1) : Rest(m, j)
    BY <1>8 DEF CmpPhrase, Rest
  <2>4. m \in 1 .. Len(toks) /\ toks[m].text \notin {".", "("}
    BY <1>0, <2>3 DEF Rest, Word, Mark, At, Operators
  <2>5. Go(1, <<"operand", "cmp", "and", "or", "require", "clauses">>) /\ from' = b /\ pol' = pol
    BY <2>2 DEF StartRequire
  <2>6. /\ pos' = b + 1 /\ stack' = Push("operand", InCmp)
        /\ toks' = toks /\ outcome' = "running"
    BY <1>4, <2>5, GateStacks
  <2>7. OperandBegun(b + 1, m, InCmp)'
    BY <2>3, <2>4, <2>6 DEF OperandBegun
  <2>8. Rest(m, j)'
    BY <2>3, <2>6 DEF Rest
  <2>9. GateBegun(b, j)'
    BY <2>1, <2>4, <2>5, <2>6, <2>7, <2>8 DEF GateBegun
  <2>. QED
    BY <1>6, <2>5, <2>6, <2>9
<1>9. CASE /\ Word(toks, b, {"prefer"}) /\ Of(toks, b + 1, "ident")
           /\ Word(toks, b + 2, {"weight"}) /\ Number(toks, b + 3) /\ j = b + 4
  <2>1. toks[b].text = "prefer" /\ IsIdent(b + 1) /\ IsIdent(b + 2) /\ IsFloat(b + 3)
    BY <1>9, SameWords DEF Word, Of, At, IsIdent
  <2>2. PreferClause
    BY <1>5, <2>1, AtClause
  <2>3. Clause(4, [pol EXCEPT !.prefers = @ + 1])
    BY <2>1, <2>2 DEF PreferClause
  <2>4. pol' = [pol EXCEPT !.prefers = @ + 1] /\ toks' = toks
    BY <1>4, <2>3 DEF Clause
  <2>5. Collected(P, j)'
    BY <1>1, <2>1, <2>4, CollectedMore
  <2>. QED
    BY <1>7, <1>9, <2>3, <2>5
<1>10. CASE Word(toks, b, {"optimize"}) /\ j \in DimWeightsPhrase(toks, b + 1)
  <2>1. toks[b].text = "optimize"
    BY <1>10 DEF Word, At
  <2>2. StartOptimize
    BY <1>5, <2>1, AtClause
  <2>3. PICK n \in 1 .. Len(toks) :
          /\ j = b + 1 + 2 * n
          /\ \A k \in 0 .. n - 1 :
               Word(toks, b + 1 + 2 * k, Dimensions) /\ Number(toks, b + 1 + 2 * k + 1)
    BY <1>10 DEF DimWeightsPhrase
  <2>4. Word(toks, b + 1, Dimensions) /\ Number(toks, b + 2)
    <3>1. 0 \in 0 .. n - 1 /\ b + 1 + 2 * 0 = b + 1 /\ b + 1 + 2 * 0 + 1 = b + 2
      BY <1>3
    <3>. QED
      BY <2>3, <3>1
  <2>5. IdentOrZero(b + 1) # "lexicographic" /\ IsFloat(b + 2) /\ ~(b + 2 > Len(toks))
    <3>1. IdentOrZero(b + 1) \in Dimensions
      BY <2>4 DEF IdentOrZero, IsIdent, Word, At
    <3>2. b + 2 \in DOMAIN toks
      BY <2>4 DEF Number, At
    <3>3. ~(b + 2 > Len(toks))
      BY <1>0, <3>2
    <3>. QED
      BY <2>4, <3>1, <3>3, SameWords
  <2>6. Go(3, <<"dimWeights", "clauses">>) /\ pol' = pol
    BY <2>2, <2>5 DEF StartOptimize
  <2>7. <<"dimWeights", "clauses">> \o <<>> = Push("dimWeights", InClauses)
    <3>1. {"dimWeights", "clauses"} \subseteq Frames /\ <<>> \in Seq(Frames)
      BY DEF Frames
    <3>. QED
      BY <3>1, PushTwo DEF InClauses
  <2>8. pos' = b + 3 /\ stack' = Push("dimWeights", InClauses) /\ toks' = toks /\ outcome' = "running"
    BY <1>4, <2>6, <2>7
  <2>9. 1 \in 1 .. Len(toks) /\ 1 <= n /\ b + 3 = b + 1 + 2 * 1
    <3>1. \A l \in Nat : \A k \in 1 .. l : 1 \in 1 .. l /\ 1 <= k
      OBVIOUS
    <3>2. b + 3 = b + 1 + 2 * 1
      BY <1>3
    <3>. QED
      BY <1>2, <2>3, <3>1, <3>2
  <2>10. WeightsBegun(b, j)'
    BY <2>1, <2>3, <2>8, <2>9 DEF WeightsBegun
  <2>. QED
    BY <1>6, <2>6, <2>8, <2>10
<1>11. CASE /\ Word(toks, b, {"fallback"}) /\ Word(toks, b + 1, Classes)
            /\ j \in Option(toks, b + 2, "max_attempts")
  <2>1. /\ toks[b].text = "fallback" /\ IsIdent(b + 1)
        /\ OptionFits(b + 2, "max_attempts")
        /\ b + 2 + OptionLength(b + 2, "max_attempts") = j
    <3>1. toks[b].text = "fallback" /\ IsIdent(b + 1)
      BY <1>11 DEF Word, At, IsIdent
    <3>2. b + 2 \in Nat
      BY <1>3
    <3>3. toks[j].text # "max_attempts"
      BY <1>2
    <3>4. OptionFits(b + 2, "max_attempts") /\ b + 2 + OptionLength(b + 2, "max_attempts") = j
      BY <1>11, <3>2, <3>3, OptionIs
    <3>. QED
      BY <3>1, <3>4
  <2>2. FallbackClause
    BY <1>5, <2>1, AtClause
  <2>3. Clause(2 + OptionLength(b + 2, "max_attempts"), [pol EXCEPT !.fallback = <<pos>>])
    BY <2>1, <2>2 DEF FallbackClause
  <2>4. pol' = [pol EXCEPT !.fallback = <<b>>] /\ toks' = toks
    BY <1>4, <2>3 DEF Clause
  <2>5. Collected(P, j)'
    BY <1>1, <2>1, <2>4, CollectedMore
  <2>6. b + (2 + OptionLength(b + 2, "max_attempts")) = j
    BY <1>3, <2>1 DEF OptionLength
  <2>. QED
    BY <1>7, <2>3, <2>5, <2>6
<1>12. CASE /\ Word(toks, b, {"switch"}) /\ Word(toks, b + 1, {"only_if"})
            /\ Word(toks, b + 2, {"expected_gain"})
            /\ Mark(toks, b + 3, {">="}) /\ Number(toks, b + 4)
            /\ j \in Option(toks, b + 5, "min_hold_seconds")
  <2>1. /\ toks[b].text = "switch" /\ IsIdent(b + 1) /\ IsIdent(b + 2)
        /\ IsPunct(b + 3, ">=") /\ IsFloat(b + 4)
    BY <1>12, SameWords DEF Word, Mark, At, IsIdent, IsPunct
  <2>2. /\ OptionFits(b + 5, "min_hold_seconds")
        /\ b + 5 + OptionLength(b + 5, "min_hold_seconds") = j
    <3>1. b + 5 \in Nat
      BY <1>3
    <3>2. toks[j].text # "min_hold_seconds"
      BY <1>2
    <3>. QED
      BY <1>12, <3>1, <3>2, OptionIs
  <2>3. SwitchClause
    BY <1>5, <2>1, AtClause
  <2>4. Clause(5 + OptionLength(b + 5, "min_hold_seconds"), [pol EXCEPT !.switch = <<pos>>])
    BY <2>1, <2>2, <2>3 DEF SwitchClause
  <2>5. pol' = [pol EXCEPT !.switch = <<b>>] /\ toks' = toks
    BY <1>4, <2>4 DEF Clause
  <2>6. Collected(P, j)'
    BY <1>1, <2>1, <2>5, CollectedMore
  <2>7. b + (5 + OptionLength(b + 5, "min_hold_seconds")) = j
    BY <1>3, <2>2 DEF OptionLength
  <2>. QED
    BY <1>7, <2>4, <2>6, <2>7
<1>. QED
  BY <1>1, <1>8, <1>9, <1>10, <1>11, <1>12 DEF ClausePhrase

\* The gate that ends is the one from its require on.
LEMMA GateStep ==
  ASSUME WellLexed(toks), OnlyMarksClose, pol \in PolicyType, pos \in Nat, Next,
         NEW P \in PlainCuts(toks), outcome = "running", NEW b, NEW j,
         Spans(toks, P, b, j), Collected(P, b), GateBegun(b, j)
  PROVE  toks' = toks /\ Along(P)'
<1>1. /\ b \in P /\ j \in Ends(toks, P) /\ b \in Ends(toks, P) /\ b \in Nat /\ j \in Nat
      /\ toks[j].text \in {"require", "prefer", "optimize", "fallback", "switch", "}"}
      /\ toks \in Seq(Token)
  <2>1. b \in P /\ j \in Ends(toks, P)
    BY DEF Spans
  <2>. QED
    BY <2>1, CutIs
<1>2. CASE stack # InGate
  <2>1. UNCHANGED <<toks, outcome, opt, pol>> /\ GateBegun(b, j)'
    BY <1>1, <1>2, GateGoes
  <2>2. Collected(P, b)'
    BY <2>1, CollectedKeeps
  <2>3. Spans(toks, P, b, j)' /\ b \in Ends(toks, P)' /\ j \in Ends(toks, P)'
    BY <1>1, <2>1 DEF Spans, Ends
  <2>. QED
    BY <2>1, <2>2, <2>3 DEF Along
<1>3. CASE stack = InGate
  <2>1. {"require", "operand", "path", "args", "arg", "items", "item", "cmp", "compared",
         "and", "or"} \subseteq Frames
    BY DEF Frames
  <2>2. Head(stack) = "require" /\ InClauses \in Seq(Frames) /\ stack = Push("require", InClauses)
    BY <1>3, <2>1, GateStacks, Pushes DEF InGate
  <2>3. ASSUME NEW f \in Frames, NEW K \in Seq(Frames), stack = Push(f, K)
        PROVE  f = "require"
    BY <2>2, <2>3, Pushes
  <2>4. pos = j /\ val \in {"compare", "in"} /\ from = b /\ toks[b].text = "require"
    <3>1. /\ {InGate, InOr, InAnd, InCmp, InCompared} \subseteq Seq(Frames)
          /\ Push("item", InAnd) \in Seq(Frames)
      BY <2>1, GateStacks, Pushes
    <3>2. ASSUME NEW a, NEW m, NEW K \in Seq(Frames), OperandBegun(a, m, K)
          PROVE  FALSE
      <4>1. Push("arg", K) \in Seq(Frames)
        BY <2>1, Pushes
      <4>. QED
        BY <2>1, <2>3, <3>2, <4>1 DEF OperandBegun
    <3>3. ASSUME NEW a, NEW n, ListBegun(a, n)
          PROVE  FALSE
      BY <2>1, <2>3, <3>1, <3>3 DEF ListBegun
    <3>4. stack \notin {InCmp, InCompared, InAnd, InOr}
      BY <2>1, <2>3, <3>1 DEF InCmp, InCompared, InAnd, InOr
    <3>. QED
      BY <3>1, <3>2, <3>3, <3>4 DEF GateBegun
  <2>5. EndRequire
    BY <2>2, Dispatch
  <2>6. /\ Go(0, <<>>) /\ from' = pos
        /\ pol' = [pol EXCEPT !.requires =
                     Append(@, [form |-> val, from |-> b, to |-> j - 1])]
    BY <2>4, <2>5 DEF EndRequire
  <2>7. toks' = toks /\ outcome' = "running" /\ pos' = j /\ stack' = InClauses
    <3>1. /\ \A n, fs : Go(n, fs) => pos' = pos + n /\ UNCHANGED <<toks, outcome>>
          /\ \A n : Go(n, <<>>) => stack' = InClauses
      BY <2>1, <2>2, Leaves
    <3>2. \A k \in Nat : k + 0 = k
      OBVIOUS
    <3>. QED
      BY <1>1, <2>4, <2>6, <3>1, <3>2
  <2>8. Collected(P, j)'
    BY <2>4, <2>6, <2>7, CollectedMore
  <2>9. j \in Ends(toks, P)'
    BY <1>1, <2>7 DEF Ends
  <2>. QED
    BY <2>7, <2>8, <2>9 DEF Along
<1>. QED
  BY <1>2, <1>3

\* The weights of an optimize clause are taken up to its end.
LEMMA WeightsStep ==
  ASSUME WellLexed(toks), pol \in PolicyType, Next,
         NEW P \in PlainCuts(toks), outcome = "running", NEW b, NEW j,
         Spans(toks, P, b, j), Collected(P, b), WeightsBegun(b, j)
  PROVE  toks' = toks /\ Along(P)'
<1>1. /\ b \in P /\ j \in Ends(toks, P) /\ b \in Ends(toks, P) /\ b \in Nat /\ j \in Nat
      /\ toks[j].text \in {"require", "prefer", "optimize", "fallback", "switch", "}"}
      /\ toks \in Seq(Token) /\ Len(toks) \in Nat
  <2>1. b \in P /\ j \in Ends(toks, P)
    BY DEF Spans
  <2>. QED
    BY <2>1, CutIs
<1>2. /\ "dimWeights" \in Frames /\ InClauses \in Seq(Frames)
      /\ stack = Push("dimWeights", InClauses) /\ toks[b].text = "optimize"
  BY GateStacks DEF Frames, WeightsBegun
<1>3. DimWeights
  BY <1>2, Leaves, Dispatch
<1>4. PICK n, q \in 1 .. Len(toks) :
        /\ j = b + 1 + 2 * n /\ pos = b + 1 + 2 * q /\ q <= n
        /\ \A k \in 0 .. n - 1 :
             Word(toks, b + 1 + 2 * k, Dimensions) /\ Number(toks, b + 1 + 2 * k + 1)
  BY DEF WeightsBegun
<1>5. CASE q = n
  <2>1. pos = j /\ Peek.text \notin Dims
    BY <1>1, <1>4, <1>5 DEF Peek, Dims
  <2>2. Go(0, <<>>) /\ pol' = [pol EXCEPT !.optimize = <<opt>>]
    BY <1>3, <2>1 DEF DimWeights, EndOptimize
  <2>3. toks' = toks /\ outcome' = "running" /\ pos' = j /\ stack' = InClauses
    <3>1. /\ \A k, fs : Go(k, fs) => pos' = pos + k /\ UNCHANGED <<toks, outcome>>
          /\ \A k : Go(k, <<>>) => stack' = InClauses
      BY <1>2, Leaves
    <3>2. \A k \in Nat : k + 0 = k
      OBVIOUS
    <3>. QED
      BY <1>1, <2>1, <2>2, <3>1, <3>2
  <2>4. Collected(P, j)'
    BY <1>2, <2>2, <2>3, CollectedMore
  <2>5. j \in Ends(toks, P)'
    BY <1>1, <2>3 DEF Ends
  <2>. QED
    BY <2>3, <2>4, <2>5 DEF Along
<1>6. CASE q # n
  <2>1. q \in 0 .. n - 1 /\ q + 1 \in 1 .. Len(toks) /\ q + 1 <= n
        /\ pos + 2 = b + 1 + 2 * (q + 1)
    <3>1. \A l \in Nat : \A d, e \in 1 .. l : e <= d /\ e # d =>
            e \in 0 .. d - 1 /\ e + 1 \in 1 .. l /\ e + 1 <= d
      OBVIOUS
    <3>2. q \in 0 .. n - 1 /\ q + 1 \in 1 .. Len(toks) /\ q + 1 <= n
      BY <1>1, <1>4, <1>6, <3>1
    <3>3. pos + 2 = b + 1 + 2 * (q + 1)
      <4>1. \A d, e \in Nat : d + 1 + 2 * e + 2 = d + 1 + 2 * (e + 1)
        OBVIOUS
      <4>2. \A l \in Nat : \A e \in 1 .. l : e \in Nat
        OBVIOUS
      <4>. QED
        BY <1>1, <1>4, <4>1, <4>2
    <3>. QED
      BY <3>2, <3>3
  <2>2. Peek.text \in Dims /\ IsFloat(pos + 1)
    BY <1>4, <2>1, SameWords DEF Peek, Word, At
  <2>3. Go(2, <<"dimWeights">>) /\ UNCHANGED pol
    BY <1>3, <2>2 DEF DimWeights
  <2>4. /\ toks' = toks /\ outcome' = "running" /\ pos' = b + 1 + 2 * (q + 1)
        /\ stack' = Push("dimWeights", InClauses)
    BY <1>2, <2>1, <2>3, Leaves
  <2>5. WeightsBegun(b, j)'
    BY <1>2, <1>4, <2>1, <2>4 DEF WeightsBegun
  <2>6. Collected(P, b)'
    BY <2>3, <2>4, CollectedKeeps
  <2>7. Spans(toks, P, b, j)' /\ b \in Ends(toks, P)' /\ j \in Ends(toks, P)'
    BY <1>1, <2>4 DEF Spans, Ends
  <2>. QED
    BY <2>4, <2>5, <2>6, <2>7 DEF Along
<1>. QED
  BY <1>5, <1>6

\* Before its first step the parser has collected nothing, and its header is
\* the grammar's.
LEMMA FreshAlong ==
  ASSUME Fresh, WellLexed(toks), NEW P \in PlainCuts(toks)
  PROVE  Along(P)
<1>1. P \subseteq Ends(toks, P) /\ Ends(toks, P) \subseteq 4 .. Len(toks) - 1 /\ Len(toks) \in Nat
  BY CutIs
<1>2. \A w : Named(P, w, 4) = {}
  <2>1. \A i \in P : ~(i < 4)
    BY <1>1
  <2>. QED
    BY <2>1 DEF Named
<1>3. /\ stack = Push("header", <<>>) /\ pos = 1 /\ outcome = "running"
      /\ pol.requires = <<>> /\ pol.prefers = 0 /\ pol.optimize = <<>>
      /\ pol.fallback = <<>> /\ pol.switch = <<>>
  BY GateStacks DEF Fresh
<1>4. Collected(P, 4)
  <2>1. {<<pol.requires[g].from, pol.requires[g].to + 1>> : g \in DOMAIN pol.requires} = {}
    BY <1>3
  <2>2. {s \in Named(P, "require", 4) \X Ends(toks, P) : Spans(toks, P, s[1], s[2])} = {}
    BY <1>2
  <2>3. pol.prefers = Cardinality(Named(P, "prefer", 4))
    BY <1>2, <1>3, FS_EmptySet
  <2>. QED
    BY <1>2, <1>3, <2>1, <2>2, <2>3 DEF Collected
<1>. QED
  BY <1>3, <1>4 DEF Along

LEMMA HeaderStep ==
  ASSUME WellLexed(toks), Next, NEW P \in PlainCuts(toks), outcome = "running",
         stack = Push("header", <<>>), pos = 1, Collected(P, 4)
  PROVE  toks' = toks /\ Along(P)'
<1>1. "header" \in Frames /\ <<>> \in Seq(Frames)
  BY DEF Frames
<1>2. Header
  BY <1>1, Leaves, Dispatch
<1>3. IsIdent(1) /\ IsIdent(2) /\ IsPunct(3, "{") /\ 4 \in Ends(toks, P)
  BY CutIs DEF PlainCuts, IsCut, Word, Of, Mark, At, IsIdent, IsPunct
<1>4. Go(3, <<"clauses">>) /\ UNCHANGED pol
  <2>1. pos + 1 = 2 /\ pos + 2 = 3
    OBVIOUS
  <2>. QED
    BY <1>2, <1>3, <2>1 DEF Header
<1>5. toks' = toks /\ outcome' = "running" /\ pos' = 4 /\ stack' = InClauses
  <2>1. /\ \A n, fs : Go(n, fs) => pos' = pos + n /\ UNCHANGED <<toks, outcome>>
        /\ \A n : Go(n, <<"clauses">>) => stack' = InClauses
    BY <1>1, Leaves DEF InClauses
  <2>. QED
    BY <1>4, <2>1
<1>6. Collected(P, 4)' /\ 4 \in Ends(toks, P)'
  BY <1>3, <1>4, <1>5, CollectedKeeps DEF Ends
<1>. QED
  BY <1>5, <1>6 DEF Along

\* Nothing runs after the parser has returned.
LEMMA OnlyRunning ==
  ASSUME Next, outcome # "running"
  PROVE  UNCHANGED vars
BY DEF Next, Policy, Expression, Header, Close, NoClause, StartRequire, EndRequire,
       PreferClause, StartOptimize, LexicographicOrder, DimWeights, FallbackClause,
       SwitchClause, OrChain, AndChain, Chain, Cmp, Compared, Items, Item, Args, Arg,
       Negated, Operand, Path, Keyword, Running, Returned

\* On the way through a plain policy the parser stays on its way.
LEMMA AlongKeeps ==
  ASSUME WellLexed(toks), OnlyMarksClose, pol \in PolicyType, pos \in Nat,
         Next, NEW P \in PlainCuts(toks), Along(P)
  PROVE  toks' = toks /\ Along(P)'
<1>1. CASE outcome = "running" /\ stack = Push("header", <<>>) /\ pos = 1 /\ Collected(P, 4)
  BY <1>1, HeaderStep
<1>2. ASSUME outcome = "running", NEW b \in Ends(toks, P), Collected(P, b),
             stack = InClauses, pos = b
      PROVE  toks' = toks /\ Along(P)'
  BY <1>2, ClauseStep, CloseStep
<1>3. ASSUME outcome = "running", NEW b \in Ends(toks, P), NEW j \in Ends(toks, P),
             Collected(P, b), Spans(toks, P, b, j), GateBegun(b, j) \/ WeightsBegun(b, j)
      PROVE  toks' = toks /\ Along(P)'
  BY <1>3, GateStep, WeightsStep
<1>4. CASE outcome = "ok" /\ pos = Len(toks) /\ Collected(P, pos)
  <2>1. UNCHANGED vars
    BY <1>4, OnlyRunning
  <2>2. toks' = toks /\ pol' = pol /\ pos' = pos /\ outcome' = "ok"
    BY <1>4, <2>1 DEF vars
  <2>. QED
    BY <1>4, <2>2, CollectedKeeps DEF Along, Collected, Named
<1>. QED
  BY <1>1, <1>2, <1>3, <1>4 DEF Along

\* However the tokens may be cut into the clauses of a plain policy, the parser
\* is on its way through them.
OnTheWay == OnlyMarksClose => \A P \in PlainCuts(toks) : Along(P)

\* It sets out there,
LEMMA FreshOnTheWay == WellLexed(toks) /\ Fresh => OnTheWay
BY FreshAlong DEF OnTheWay

\* a step that changes nothing leaves it there,
LEMMA StillAlong ==
  ASSUME UNCHANGED vars, NEW P
  PROVE  Along(P)' = Along(P)
<1>. USE DEF vars
<1>1. \A a, m, K : OperandBegun(a, m, K)' = OperandBegun(a, m, K)
  BY DEF OperandBegun
<1>2. \A a, n : ListBegun(a, n)' = ListBegun(a, n)
  BY DEF ListBegun, IsList
<1>3. \A m, j : Rest(m, j)' = Rest(m, j)
  BY DEF Rest
<1>4. \A b, j : GateBegun(b, j)' = GateBegun(b, j)
  BY <1>1, <1>2, <1>3 DEF GateBegun, Rest
<1>5. \A b, j : WeightsBegun(b, j)' = WeightsBegun(b, j)
  BY DEF WeightsBegun
<1>6. \A b : Collected(P, b)' = Collected(P, b)
  BY DEF Collected, Named
<1>. QED
  BY <1>4, <1>5, <1>6 DEF Along

\* and so does every other.
LEMMA NextOnTheWay ==
  ASSUME IInv, OnTheWay, [Next]_vars
  PROVE  OnTheWay'
<1>1. CASE Next
  <2>1. toks' = toks
    BY <1>1, NextSameTokens
  <2>. SUFFICES ASSUME OnlyMarksClose, NEW P \in PlainCuts(toks)
                PROVE  Along(P)'
    BY <2>1 DEF OnTheWay, OnlyMarksClose
  <2>2. WellLexed(toks) /\ pol \in PolicyType /\ pos \in Nat
    BY DEF IInv, TypeOK
  <2>. QED
    BY <1>1, <2>2, AlongKeeps DEF OnTheWay
<1>2. CASE UNCHANGED vars
  BY <1>2, StillAlong DEF vars, OnTheWay, OnlyMarksClose
<1>. QED
  BY <1>1, <1>2

\* So at its end it has been through all of them.
LEMMA WayEnds == OnTheWay => PlainPoliciesParsed
BY DEF OnTheWay, PlainPoliciesParsed, Along

-----------------------------------------------------------------------------

\* While it runs the parser has a token to look at, whatever the input.
THEOREM TypeCorrect == Spec => []TypeOK
BY Invariance, PTL DEF IInv

\* The parser indexes beyond its tokens only when the input ends right after
\* the word optimize: no other function of it can panic.
THEOREM PanicOnlyThere == Spec => []PanicsOnlyAfterOptimize
BY Invariance, PTL DEF IInv

\* However the functions of an expression nest, each gate of the policy is a
\* stretch of its own behind its own require, in the order of the text, and no
\* require of a policy that is returned is without effect.
THEOREM GatesOrdered == Spec => []GatesKept
BY WordsInvariance, WordsEnd, PTL

\* A policy ends at its first closing brace, but for one right after optimize.
THEOREM FirstBrace == Spec => []FirstBraceCloses
BY WordsInvariance, WordsEnd, PTL

\* Every plain policy, of any length, is accepted, and what comes back holds
\* each of its clauses as the grammar reads them.
THEOREM PlainParsed == Spec => []PlainPoliciesParsed
<1>1. Init => OnTheWay
  BY FreshOnTheWay, InputsEndInEOF DEF Init
<1>2. IInv /\ OnTheWay /\ [Next]_vars => OnTheWay'
  BY NextOnTheWay
<1>. QED
  BY <1>1, <1>2, WayEnds, Invariance, PTL DEF Spec
=============================================================================

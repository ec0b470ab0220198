--------------------------- MODULE PolicyGrammar ---------------------------
(***************************************************************************)
(* The policy language as contracts/dsl/grammar.ebnf writes it, but for    *)
(* and, or and lexicographic, as sets of token positions: a phrase X(t, i) *)
(* is the set of positions where an X that starts at position i of the     *)
(* tokens t may end (one past its last token).  It is the reference that   *)
(* PolicyParser is compared with.                                          *)
(***************************************************************************)
EXTENDS Naturals, Sequences, FiniteSets

CONSTANTS
  Decimals,  \* the texts of the grammar's numbers, which have at most one dot
  Wholes     \* those that are integers, without one

Dimensions == {"quality", "latency", "tcos", "reliability", "energy", "capacity"}
Classes == {"none", "same_or_higher_quality", "any_compliant", "degrade_allowed"}
Operators == {"==", "!=", ">=", "<=", ">", "<"}
Namespaces == {"data", "model", "endpoint", "contract"}

At(t, i, kind, texts) == i \in DOMAIN t /\ t[i].kind = kind /\ t[i].text \in texts
Word(t, i, texts) == At(t, i, "ident", texts)
Mark(t, i, texts) == At(t, i, "punct", texts)
Of(t, i, kind) == i \in DOMAIN t /\ t[i].kind = kind

Number(t, i) == At(t, i, "number", Decimals)
Integer(t, i) == At(t, i, "number", Wholes)

Literal(t, i) == Of(t, i, "string") \/ Number(t, i) \/ Word(t, i, {"true", "false"})

\* path: ns "." ident { "." ident }
PathPhrase(t, i) ==
  IF ~Word(t, i, Namespaces) THEN {}
  ELSE {i + 1 + 2 * n : n \in {m \in 1 .. Len(t) :
          \A k \in 1 .. m : Mark(t, i + 2 * k - 1, {"."}) /\ Of(t, i + 2 * k, "ident")}}

CallPhrase(t, i) ==
  IF /\ Word(t, i, {"model"}) /\ Mark(t, i + 1, {"."})
     /\ Word(t, i + 2, {"eval", "capability"})
     /\ Mark(t, i + 3, {"("}) /\ Of(t, i + 4, "string") /\ Mark(t, i + 5, {")"})
  THEN {i + 6} ELSE {}

OperandPhrase(t, i) ==
  PathPhrase(t, i) \cup CallPhrase(t, i) \cup (IF Literal(t, i) THEN {i + 1} ELSE {})

\* list: "[" literal { "," literal } "]"
ListPhrase(t, i) ==
  {i + 2 * n + 1 : n \in {m \in 1 .. Len(t) :
     /\ Mark(t, i, {"["}) /\ Mark(t, i + 2 * m, {"]"})
     /\ \A k \in 1 .. m : Literal(t, i + 2 * k - 1)
     /\ \A k \in 1 .. m - 1 : Mark(t, i + 2 * k, {","})}}

CmpPhrase(t, i) ==
  UNION {(IF Mark(t, j, Operators) THEN OperandPhrase(t, j + 1) ELSE {})
           \cup (IF Word(t, j, {"in"}) THEN ListPhrase(t, j + 1) ELSE {})
         : j \in OperandPhrase(t, i)}

\* dim number { dim number }
DimWeightsPhrase(t, i) ==
  {i + 2 * n : n \in {m \in 1 .. Len(t) :
     \A k \in 0 .. m - 1 : Word(t, i + 2 * k, Dimensions) /\ Number(t, i + 2 * k + 1)}}

Option(t, i, word) ==
  {i} \cup (IF Word(t, i, {word}) /\ Integer(t, i + 1) THEN {i + 2} ELSE {})

\* One clause, of those the parser reads as the grammar does: a require whose
\* expression is a single comparison, an optimize that is not lexicographic.
ClausePhrase(t, i) ==
  (IF Word(t, i, {"require"}) /\ i < Len(t) THEN CmpPhrase(t, i + 1) ELSE {})
  \cup
  (IF /\ Word(t, i, {"prefer"}) /\ Of(t, i + 1, "ident")
      /\ Word(t, i + 2, {"weight"}) /\ Number(t, i + 3)
   THEN {i + 4} ELSE {})
  \cup
  (IF Word(t, i, {"optimize"}) THEN DimWeightsPhrase(t, i + 1) ELSE {})
  \cup
  (IF Word(t, i, {"fallback"}) /\ Word(t, i + 1, Classes)
   THEN Option(t, i + 2, "max_attempts") ELSE {})
  \cup
  (IF /\ Word(t, i, {"switch"}) /\ Word(t, i + 1, {"only_if"})
      /\ Word(t, i + 2, {"expected_gain"})
      /\ Mark(t, i + 3, {">="}) /\ Number(t, i + 4)
   THEN Option(t, i + 5, "min_hold_seconds") ELSE {})

-----------------------------------------------------------------------------
(* A policy: the positions P where its clauses start. *)

\* Where a clause may start, by its first word.
Keywords(t) ==
  {i \in 4 .. Len(t) : Word(t, i, {"require", "prefer", "optimize", "fallback", "switch"})}

\* Where a clause may end: before another one, or before the closing brace.
Ends(t, P) == P \cup {Len(t) - 1}

\* The clause that starts at i ends before j, the next of these positions.
Spans(t, P, i, j) ==
  /\ i \in P /\ j \in Ends(t, P) /\ i < j
  /\ \A k \in P : k <= i \/ j <= k

\* The tokens are policy, a name and, in braces, the clauses that start at P.
IsCut(t, P) ==
  /\ Word(t, 1, {"policy"}) /\ Of(t, 2, "ident")
  /\ Mark(t, 3, {"{"}) /\ Mark(t, Len(t) - 1, {"}"})
  /\ 4 \in Ends(t, P)
  /\ \A i \in P : \E j \in Ends(t, P) : Spans(t, P, i, j) /\ j \in ClausePhrase(t, i)

\* The ways to cut the tokens into clauses.
PlainCuts(t) == {P \in SUBSET Keywords(t) : IsCut(t, P)}
=============================================================================

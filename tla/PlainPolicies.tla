--------------------------- MODULE PlainPolicies ----------------------------
(***************************************************************************)
(* What the parser of PolicyParser makes of the policies that the grammar  *)
(* (PolicyGrammar) calls plain.                                            *)
(***************************************************************************)
EXTENDS PolicyParser, PolicyGrammar

\* ParseFloat takes the numbers of the grammar.
ASSUME NumbersParse == Wholes \subseteq Decimals /\ Decimals \cap Malformed = {}

\* No string literal has the text of the bracket that closes a list or a call:
\* the parser, which compares texts only, would take it for one.
OnlyMarksClose ==
  \A i \in DOMAIN toks : toks[i].text \in {"]", ")"} => toks[i].kind = "punct"

\* The clauses of P that start with the word, before position b.
Named(P, word, b) == {i \in P : i < b /\ toks[i].text = word}

\* The policy under construction holds the clauses of P before b: each require
\* as a gate over its own tokens, all prefers, and of the others at least one if
\* there is one.
Collected(P, b) ==
  /\ {<<pol.requires[g].from, pol.requires[g].to + 1>> : g \in DOMAIN pol.requires} =
       {s \in Named(P, "require", b) \X Ends(toks, P) : Spans(toks, P, s[1], s[2])}
  /\ pol.prefers = Cardinality(Named(P, "prefer", b))
  /\ pol.optimize # <<>> <=> Named(P, "optimize", b) # {}
  /\ pol.fallback # <<>> <=> Named(P, "fallback", b) # {}
  /\ pol.switch # <<>> <=> Named(P, "switch", b) # {}

\* Every policy of the grammar whose gates are single comparisons and whose
\* optimize is weighted is accepted, with its last brace, and what comes back is
\* what it says: no clause is lost, merged with the next or taken for another.
PlainPoliciesParsed ==
  outcome # "running" /\ OnlyMarksClose =>
    \A P \in PlainCuts(toks) :
      outcome = "ok" /\ pos = Len(toks) /\ Collected(P, pos)
=============================================================================

---------------------------- MODULE MCPolicyText ----------------------------
(***************************************************************************)
(* PolicyText on policies that use every clause and expression form, and   *)
(* on everything near them: cut short anywhere, with a token removed, or   *)
(* with a token replaced by any token of the alphabet.  Each is written as *)
(* a text in one of three ways; the lexer also reads short sequences of    *)
(* any symbols.                                                            *)
(***************************************************************************)
EXTENDS PolicyText, PlainPolicies, SequencesExt

W(text) == [kind |-> "ident", text |-> text]
P(text) == [kind |-> "punct", text |-> text]
S(text) == [kind |-> "string", text |-> text]
N(text) == [kind |-> "number", text |-> text]
EOF == [kind |-> "eof", text |-> ""]

Body(clauses) == <<W("policy"), W("p"), P("{")>> \o clauses \o <<P("}")>>

PathOf(ns, name) == <<W(ns), P("."), W(name)>>

\* Gates of every form the parser takes or refuses.
GateIn == <<W("require")>> \o PathOf("data", "region")
            \o <<W("in"), P("["), S("sg"), P(","), N("1"), P("]")>>
GateCompare == <<W("require")>> \o PathOf("model", "size") \o <<P("."), W("x"), P(">="), N("1.5")>>
GateCall == <<W("require")>> \o PathOf("model", "eval") \o <<P("("), S("suite"), P(")"), P("=="), W("true")>>
GateOr == <<W("require")>> \o PathOf("data", "a") \o <<P("=="), N("1"), W("or")>>
            \o PathOf("data", "b") \o <<P("=="), N("1")>>
GateAnd == <<W("require")>> \o PathOf("data", "a") \o <<P("=="), N("1"), W("and")>>
            \o PathOf("data", "b") \o <<P("=="), N("1")>>
GateNot == <<W("require"), W("not")>> \o PathOf("data", "a") \o <<P("=="), W("false")>>

PreferTokens == <<W("prefer"), W("cache"), W("weight"), N("1")>>
Weighted == <<W("optimize"), W("quality"), N("1"), W("latency"), N("1.5")>>
Lexicographic == <<W("optimize"), W("lexicographic"), W("quality"), W("latency")>>
LexicographicWeights == <<W("optimize"), W("lexicographic"), W("quality"), N("1")>>
FallbackTokens == <<W("fallback"), W("any_compliant"), W("max_attempts"), N("1")>>
SwitchTokens == <<W("switch"), W("only_if"), W("expected_gain"), P(">="), N("1"),
                  W("min_hold_seconds"), N("1")>>

Corpus ==
  {Body(GateIn \o Weighted), Body(GateCompare \o PreferTokens \o GateIn),
   Body(GateCall \o FallbackTokens), Body(GateOr), Body(GateAnd \o Lexicographic \o GateCompare),
   Body(GateNot), Body(SwitchTokens \o PreferTokens),
   Body(LexicographicWeights \o FallbackTokens), Body(Weighted \o FallbackTokens \o SwitchTokens),
   Body(<<W("require")>> \o PathOf("data", "a") \o <<P("==")>> \o PathOf("data", "b"))}

Alphabet ==
  {W("id"), W("model"), W("require"), W("optimize"), W("lexicographic"), W("quality"),
   W("max_attempts"), W("in"), W("not"), W("or"), W("true"), N("1"), N("1.2.3"),
   S("]"), S(")"), S("}"), S("it's # x"), P("{"), P("}"), P("["), P("("), P("."), P(","), P("=="), P(">=")}

Cut(s, n) == SubSeq(s, 1, n)
Without(s, i) == SubSeq(s, 1, i - 1) \o SubSeq(s, i + 1, Len(s))

Near(s) ==
  {Cut(s, n) : n \in 0 .. Len(s)}
    \cup {Without(s, i) : i \in 1 .. Len(s)}
    \cup {[s EXCEPT ![i] = a] : i \in 1 .. Len(s), a \in Alphabet}

MCInputs == {Append(s, EOF) : s \in UNION {Near(c) : c \in Corpus}}
MCMalformed == {"1.2.3"}
MCDecimals == {"1", "1.5"}
MCWholes == {"1"}

-----------------------------------------------------------------------------
(* Texts.  Most tokens are spelled with one symbol, a run of letters. *)

Spelling ==
  [max_attempts |-> <<"max", "_", "attempts">>, min_hold_seconds |-> <<"min_hold", "_", "seconds">>]
    @@ "1.5" :> <<"1", ".", "5">> @@ "1.2.3" :> <<"1", ".", "2", ".", "3">>
    @@ "==" :> <<"=", "=">> @@ ">=" :> <<">", "=">>
    @@ "it's # x" :> <<"it", "'", "s", " ", "#", " ", "x">>

Spell(text) == IF text \in DOMAIN Spelling THEN Spelling[text] ELSE <<text>>

MCTextOf(symbols) == FoldLeft(LAMBDA x, y : x \o y, "", symbols)

ASSUME SpellingsSpell == \A t \in Alphabet : MCTextOf(Spell(t.text)) = t.text

Styles == {"spaced", "tight", "commented"}

\* A string may stand in quotes of either kind that it does not contain.
Symbolic(t, style) ==
  LET quote == IF style = "tight" /\ t.text # "it's # x" THEN "'" ELSE "\""
  IN  CASE t.kind = "string" -> <<quote>> \o Spell(t.text) \o <<quote>>
        [] t.kind = "eof" -> <<>>
        [] OTHER -> Spell(t.text)

\* Whether b may follow a with nothing in between.
MayTouch(a, b) ==
  /\ ~(a.kind \in {"ident", "number"} /\ b.kind \in {"ident", "number"})
  /\ ~(a.kind = "number" /\ b.text = ".")
  /\ ~(a.text = "." /\ b.kind = "number")

Between(a, b, style) ==
  CASE style = "commented" -> <<" ", "#", " ", "}", "\"", "\n">>
    [] style = "tight" /\ MayTouch(a, b) -> <<>>
    [] OTHER -> <<" ">>

\* The tokens t in that style, each with its place.
InStyle(t, style) ==
  LET Put(w, i) ==
        [text |-> w.text \o Symbolic(t[i], style)
                    \o (IF i = Len(t) THEN <<>> ELSE Between(t[i], t[i + 1], style)),
         tokens |-> Append(w.tokens,
                      [kind |-> t[i].kind, pos |-> Len(w.text) + 1,
                       text |-> IF t[i].kind = "eof" THEN <<>> ELSE Spell(t[i].text)])]
  IN  FoldLeftDomain(Put, [text |-> <<>>, tokens |-> <<>>], t)

\* Symbols of every class, among them bytes of UTF-8: 0xC3 is taken for a
\* letter, 0xA0 for a space, 0xA9 for neither, and encoded as 0xC2 0xA9.
Samples == {"id", "1", ".", "_", "-", " ", "\n", "#", "\"", "'", "=", ">", "xC3", "xA0", "xA9"}

MCWritten ==
  {InStyle(Append(c, EOF), style) : c \in Corpus, style \in Styles}
    \cup {InStyle(t, "tight") : t \in MCInputs}
    \cup {[text |-> s, tokens |-> Unmeant] : s \in UNION {[1 .. n -> Samples] : n \in 0 .. 3}}

MCSpaces == {" ", "\n", "xA0"}
MCHighBytes == {"x82", "x83", "xA0", "xA9", "xC2", "xC3"}
MCUtf8(b) ==
  CASE b = "xC2" -> <<"xC3", "x82">>
    [] b = "xC3" -> <<"xC3", "x83">>
    [] OTHER -> <<"xC2", b>>
MCDigits == {"1", "2", "3", "5"}
MCLetters ==
  {"policy", "p", "id", "require", "prefer", "weight", "optimize", "lexicographic", "quality",
   "latency", "fallback", "any_compliant", "none", "max", "attempts", "switch", "only_if",
   "expected_gain", "min_hold", "seconds", "in", "not", "and", "or", "true", "false", "data",
   "model", "region", "size", "eval", "cache", "a", "b", "x", "s", "it", "sg", "suite", "xC2", "xC3"}
MCSymbols == MCLetters \cup MCDigits \cup MCSpaces \cup
  {".", "_", "-", "#", "\"", "'", "=", ">", ",", "{", "}", "[", "]", "(", ")"} \cup MCHighBytes

=============================================================================

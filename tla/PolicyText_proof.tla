-------------------------- MODULE PolicyText_proof --------------------------
(***************************************************************************)
(* Parse from the characters on, for every text: what PolicyLexer_proof    *)
(* says of the lexer is what PolicyParser_proof takes for granted of its   *)
(* tokens, and so the promises of the parser hold of texts; and a text     *)
(* that writes tokens down hands over these.                               *)
(***************************************************************************)
EXTENDS PolicyText, PolicyParser_proof

LexerProof == INSTANCE PolicyLexer_proof

\* What is spelled is a string, and the text of tokEOF is the empty one.
TextsSpell == (\A s \in Seq(Symbols) : TextOf(s) \in STRING) /\ TextOf(<<>>) = ""

\* The lexer and the parser are each in their invariants; until the lexer is
\* through, the parser has not begun.
TextInv ==
  /\ LexerProof!IInv
  /\ IInv /\ WordsInv
  /\ reading = "reading" => Fresh

-----------------------------------------------------------------------------

\* The lexer of PolicyText is the one the theorems are about.
LEMMA SameLexer ==
  /\ Lexer!ClassAssumption <=> LexerProof!ClassAssumption
  /\ Lexer!Fresh <=> LexerProof!Fresh
  /\ Lexer!Step <=> LexerProof!Step
  /\ Lexer!TypeOK <=> LexerProof!TypeOK
  /\ Lexer!NothingLost <=> LexerProof!NothingLost
<1>1. Lexer!ClassAssumption <=> LexerProof!ClassAssumption
  BY Zenon DEF Lexer!ClassAssumption, LexerProof!ClassAssumption, Lexer!Quotes, LexerProof!Quotes
<1>2. Lexer!Fresh <=> LexerProof!Fresh
  BY DEF Lexer!Fresh, LexerProof!Fresh
<1>3. Lexer!Step <=> LexerProof!Step
  <2>. USE DEF Lexer!More, LexerProof!More, Lexer!First, LexerProof!First,
       Lexer!Slice, LexerProof!Slice, Lexer!SkipTo, LexerProof!SkipTo,
       Lexer!Token, LexerProof!Token, Lexer!Quotes, LexerProof!Quotes,
       Lexer!StartsNumber, LexerProof!StartsNumber
  <2>1. Lexer!Blank <=> LexerProof!Blank
    BY Zenon DEF Lexer!Blank, LexerProof!Blank
  <2>2. Lexer!Comment <=> LexerProof!Comment
    BY Zenon DEF Lexer!Comment, LexerProof!Comment
  <2>3. Lexer!End <=> LexerProof!End
    BY Zenon DEF Lexer!End, LexerProof!End
  <2>4. Lexer!String <=> LexerProof!String
    BY Zenon DEF Lexer!String, LexerProof!String
  <2>5. Lexer!Number <=> LexerProof!Number
    BY Zenon DEF Lexer!Number, LexerProof!Number
  <2>6. Lexer!Ident <=> LexerProof!Ident
    BY Zenon DEF Lexer!Ident, LexerProof!Ident
  <2>7. Lexer!Punct <=> LexerProof!Punct
    BY Zenon DEF Lexer!Punct, LexerProof!Punct, Lexer!OtherSymbol, LexerProof!OtherSymbol, Lexer!StartsOther, LexerProof!StartsOther,
       Lexer!Pairs, LexerProof!Pairs, Lexer!StartsPair, LexerProof!StartsPair,
       Lexer!Character, LexerProof!Character
  <2>. QED
    BY <2>1, <2>2, <2>3, <2>4, <2>5, <2>6, <2>7, Zenon DEF Lexer!Step, LexerProof!Step
<1>4. Lexer!TypeOK <=> LexerProof!TypeOK
  BY Zenon DEF Lexer!TypeOK, LexerProof!TypeOK, Lexer!TokenType, LexerProof!TokenType
<1>5. Lexer!NothingLost <=> LexerProof!NothingLost
  BY Zenon DEF Lexer!NothingLost, LexerProof!NothingLost, Lexer!GapStart, LexerProof!GapStart,
     Lexer!GapEnd, LexerProof!GapEnd, Lexer!Skipped, LexerProof!Skipped,
     Lexer!Spelled, LexerProof!Spelled, Lexer!After, LexerProof!After,
     Lexer!IsMark, LexerProof!IsMark, Lexer!Pairs, LexerProof!Pairs,
     Lexer!Character, LexerProof!Character
<1>. QED
  BY <1>1, <1>2, <1>3, <1>4, <1>5

\* A text is a way to write tokens for the one as for the other.
LEMMA SameWriting == \A s, ts : Lexer!IsWriting(s, ts) <=> LexerProof!IsWriting(s, ts)
<1>. USE DEF Lexer!After, LexerProof!After, Lexer!IsMark, LexerProof!IsMark,
     Lexer!Pairs, LexerProof!Pairs
<1>1. \A s, t, S : Lexer!Longest(s, t, S) <=> LexerProof!Longest(s, t, S)
  BY Zenon DEF Lexer!Longest, LexerProof!Longest
<1>2. \A s, i : Lexer!StartsNumber(s, i) <=> LexerProof!StartsNumber(s, i)
  BY Zenon DEF Lexer!StartsNumber, LexerProof!StartsNumber
<1>3. \A s, i : Lexer!StartsOther(s, i) <=> LexerProof!StartsOther(s, i)
  BY <1>2, Zenon DEF Lexer!StartsOther, LexerProof!StartsOther, Lexer!Quotes, LexerProof!Quotes
<1>4. \A s, t : Lexer!WritesIdent(s, t) <=> LexerProof!WritesIdent(s, t)
  BY <1>1, Zenon DEF Lexer!WritesIdent, LexerProof!WritesIdent
<1>5. \A s, t : Lexer!WritesNumber(s, t) <=> LexerProof!WritesNumber(s, t)
  BY <1>1, <1>2, Zenon DEF Lexer!WritesNumber, LexerProof!WritesNumber
<1>6. \A s, t : Lexer!WritesString(s, t) <=> LexerProof!WritesString(s, t)
  BY Zenon DEF Lexer!WritesString, LexerProof!WritesString, Lexer!Quotes, LexerProof!Quotes
<1>7. \A s, t : Lexer!WritesPunct(s, t) <=> LexerProof!WritesPunct(s, t)
  BY <1>3, Zenon DEF Lexer!WritesPunct, LexerProof!WritesPunct, Lexer!StartsPair, LexerProof!StartsPair
<1>8. \A s, t : Lexer!Spelled(s, t) <=> LexerProof!Spelled(s, t)
  BY Zenon DEF Lexer!Spelled, LexerProof!Spelled, Lexer!Character, LexerProof!Character
<1>9. \A s, t : Lexer!Writes(s, t) <=> LexerProof!Writes(s, t)
  BY <1>4, <1>5, <1>6, <1>7, <1>8, Zenon DEF Lexer!Writes, LexerProof!Writes
<1>10. \A s, i, j : Lexer!Separates(s, i, j) <=> LexerProof!Separates(s, i, j)
  BY Zenon DEF Lexer!Separates, LexerProof!Separates, Lexer!Skipped, LexerProof!Skipped
<1>11. \A ts, i : (IF i = 1 THEN 1 ELSE Lexer!After(ts[i - 1]))
                    = (IF i = 1 THEN 1 ELSE LexerProof!After(ts[i - 1]))
  BY Zenon
<1>. HIDE DEF Lexer!After, LexerProof!After, Lexer!IsMark, LexerProof!IsMark,
     Lexer!Pairs, LexerProof!Pairs
<1>12. \A s, ts, i :
         Lexer!Separates(s, IF i = 1 THEN 1 ELSE Lexer!After(ts[i - 1]), ts[i].pos)
         <=> LexerProof!Separates(s, IF i = 1 THEN 1 ELSE LexerProof!After(ts[i - 1]), ts[i].pos)
  BY <1>10, <1>11, Zenon
<1>. QED
  BY <1>9, <1>12, Zenon DEF Lexer!IsWriting, LexerProof!IsWriting,
     Lexer!TokenType, LexerProof!TokenType

\* Tokens of which the last, and no other, is an end mark are well lexed for
\* the parser.
LEMMA HandedWellLexed ==
  ASSUME TextsSpell, NEW ts \in Seq(LexerProof!TokenType), Len(ts) > 0,
         \A i \in 1 .. Len(ts) : ts[i].kind = "eof" <=> i = Len(ts),
         ts[Len(ts)].text = <<>>
  PROVE  WellLexed(HandedOver(ts))
<1>. DEFINE n == Len(ts)
<1>1. n \in Nat \ {0} /\ DOMAIN ts = 1 .. n /\ \A i \in 1 .. n : ts[i] \in LexerProof!TokenType
  OBVIOUS
<1>2. \A i \in 1 .. n : ts[i].kind \in TokenKinds /\ ts[i].text \in Seq(Symbols)
  BY <1>1 DEF LexerProof!TokenType, TokenKinds
<1>. HIDE DEF n
<1>3. /\ DOMAIN HandedOver(ts) = 1 .. n
      /\ \A i \in 1 .. n : /\ HandedOver(ts)[i].kind = ts[i].kind
                           /\ HandedOver(ts)[i].text = TextOf(ts[i].text)
                           /\ HandedOver(ts)[i] \in Token
  BY <1>1, <1>2 DEF HandedOver, TextsSpell, Token
<1>4. HandedOver(ts) = [i \in 1 .. n |-> HandedOver(ts)[i]]
  BY <1>1 DEF HandedOver
<1>. HIDE DEF HandedOver
<1>5. HandedOver(ts) \in Seq(Token) /\ Len(HandedOver(ts)) = n
  BY <1>1, <1>3, <1>4, IsASeq, LenProperties
<1>6. n \in 1 .. n
  BY <1>1
<1>7. HandedOver(ts)[n].text = ""
  BY <1>3, <1>6 DEF TextsSpell, n
<1>8. \A i \in 1 .. n : HandedOver(ts)[i].kind = "eof" <=> i = n
  BY <1>3 DEF n
<1>. DEFINE hs == HandedOver(ts)
<1>. HIDE DEF hs
<1>9. hs \in Seq([kind : TokenKinds, text : STRING])
  BY <1>5, Zenon DEF Token, hs
<1>10. Len(hs) = n /\ n > 0
  BY <1>1, <1>5 DEF hs
<1>11. /\ \A i \in 1 .. Len(hs) : hs[i].kind = "eof" <=> i = Len(hs)
       /\ hs[Len(hs)].text = ""
  BY <1>7, <1>8, <1>10, Zenon DEF hs
<1>12. Len(hs) > 0
  BY <1>10
<1>. QED
  BY <1>9, <1>11, <1>12, Zenon DEF WellLexed, hs

\* A step of the lexer keeps both invariants: the parser does not move, except
\* that it gets its tokens at the end or the lexer's error.
LEMMA LexKeeps ==
  ASSUME TextsSpell, TextInv, Lex
  PROVE  TextInv'
<1>1. LexerProof!IInv' /\ reading = "reading" /\ Fresh
  <2>1. LexerProof!Step
    BY SameLexer DEF Lex
  <2>2. LexerProof!IInv'
    BY <2>1, SameLexer, LexerAssumption, LexerProof!StepIInv DEF TextInv
  <2>3. reading = "reading"
    BY <2>1 DEF LexerProof!Step, LexerProof!Blank, LexerProof!Comment, LexerProof!End,
         LexerProof!String, LexerProof!Number, LexerProof!Ident, LexerProof!Punct,
         LexerProof!OtherSymbol, LexerProof!More
  <2>. QED
    BY <2>2, <2>3 DEF TextInv
<1>2. CASE reading' = "done"
  <2>1. /\ tokens' \in Seq(LexerProof!TokenType) /\ Len(tokens') > 0
        /\ \A i \in 1 .. Len(tokens') : tokens'[i].kind = "eof" <=> i = Len(tokens')
        /\ tokens'[Len(tokens')].text = <<>>
    <3>1. LexerProof!TypeOK' /\ LexerProof!EndLast'
      BY <1>1 DEF LexerProof!IInv
    <3>2. tokens' \in Seq(LexerProof!TokenType) /\ Len(tokens') \in Nat
      BY <3>1 DEF LexerProof!TypeOK
    <3>. QED
      BY <1>2, <3>1, <3>2 DEF LexerProof!EndLast
  <2>2. WellLexed(HandedOver(tokens'))
    BY <2>1, HandedWellLexed
  <2>3. toks' = HandedOver(tokens')
    BY <1>2 DEF Lex
  <2>4. Fresh'
    BY <1>1, <1>2 DEF Lex, Fresh
  <2>5. (WellLexed(toks) /\ Fresh => IInv)'
    BY FreshIInv, PTL
  <2>6. IInv' /\ WordsInv'
    <3>1. (Fresh => WordsInv)'
      BY FreshWords, PTL
    <3>. QED
      BY <2>2, <2>3, <2>4, <2>5, <3>1
  <2>. QED
    BY <1>1, <1>2, <2>6 DEF TextInv
<1>3. CASE reading' = "error"
  <2>1. Fail
    BY <1>1, <1>3 DEF Lex, Fresh, Fail
  <2>2. IInv' /\ WordsInv'
    BY <1>1, <2>1, FailKeeps, EndsWithout DEF TextInv, Fresh, Fail
  <2>. QED
    BY <1>1, <1>3, <2>2 DEF TextInv
<1>4. CASE reading' = "reading"
  <2>1. UNCHANGED vars
    BY <1>4 DEF Lex, vars
  <2>2. IInv' /\ WordsInv' /\ Fresh'
    BY <1>1, <2>1, NextIInv, NextWords DEF TextInv, Fresh, vars
  <2>. QED
    BY <1>1, <2>2 DEF TextInv
<1>5. reading' \in {"reading", "done", "error"}
  BY <1>1 DEF LexerProof!IInv, LexerProof!TypeOK
<1>. QED
  BY <1>2, <1>3, <1>4, <1>5

\* A step of Parse keeps both invariants.
LEMMA TextStepKeeps ==
  ASSUME TextsSpell, TextInv, [TextNext]_textVars
  PROVE  TextInv'
<1>1. CASE ParseTokens
  <2>1. /\ IInv' /\ WordsInv' /\ reading' = reading /\ reading # "reading"
    BY <1>1, NextIInv, NextWords DEF TextInv, ParseTokens, lexVars
  <2>2. LexerProof!IInv'
    BY <1>1, LexerProof!StayKeeps DEF TextInv, ParseTokens, lexVars
  <2>. QED
    BY <2>1, <2>2 DEF TextInv
<1>2. CASE UNCHANGED textVars
  <2>1. IInv' /\ WordsInv' /\ (Fresh => Fresh') /\ reading' = reading
    BY <1>2, NextIInv, NextWords DEF TextInv, textVars, lexVars, vars, Fresh
  <2>2. LexerProof!IInv'
    BY <1>2, LexerProof!StayKeeps DEF TextInv, textVars, lexVars
  <2>. QED
    BY <2>1, <2>2 DEF TextInv
<1>. QED
  BY <1>1, <1>2, LexKeeps DEF TextNext

\* A sequence of one element.
LEMMA Single ==
  ASSUME NEW S, NEW e \in S
  PROVE  <<e>> \in Seq(S) /\ Len(<<e>>) = 1 /\ <<e>>[1] = e
OBVIOUS

\* Parse starts in the invariant: an end of input alone is well lexed.
LEMMA TextInitInv == ASSUME TextsSpell, TextInit PROVE TextInv
<1>1. LexerProof!IInv
  <2>1. src \in Seq(Symbols)
    BY LexerAssumption DEF TextInit, Lexer!ClassAssumption, Sources
  <2>. QED
    BY <2>1, SameLexer, LexerProof!FreshIInv DEF TextInit
<1>2. WellLexed(toks)
  <2>. DEFINE e == [kind |-> "eof", text |-> ""]
  <2>1. "" \in STRING
    BY EmptySeq DEF TextsSpell
  <2>2. e \in [kind : TokenKinds, text : STRING] /\ e.kind = "eof" /\ e.text = ""
    BY <2>1 DEF TokenKinds
  <2>3. toks = <<e>>
    BY DEF TextInit
  <2>. HIDE DEF e
  <2>. DEFINE q == <<e>>
  <2>4. q \in Seq([kind : TokenKinds, text : STRING]) /\ Len(q) = 1 /\ q[1] = e
    BY <2>2, Single, Zenon
  <2>. HIDE DEF q
  <2>5. ASSUME NEW i \in 1 .. Len(q)
        PROVE  q[i].kind = "eof" <=> i = Len(q)
    <3>1. i = 1
      BY <2>4
    <3>. QED
      BY <2>2, <2>4, <3>1, Zenon
  <2>6. Len(q) > 0
    BY <2>4
  <2>7. q[Len(q)].text = ""
    BY <2>2, <2>4, Zenon
  <2>. QED
    BY <2>3, <2>4, <2>5, <2>6, <2>7, Zenon DEF WellLexed, q
<1>. QED
  BY <1>1, <1>2, FreshIInv, FreshWords DEF TextInit, TextInv, Lexer!Fresh

\* The inductive invariant holds in every reachable state.
LEMMA TextInvariance == ASSUME TextsSpell PROVE TextSpec => []TextInv
BY TextInitInv, TextStepKeeps, PTL DEF TextSpec

\* A step of the lexer brings the end of Parse nearer: a symbol counts for more
\* than a token does, and what is handed over is what was collected.
LEMMA LexNearer ==
  ASSUME TextsSpell, TextInv, TextInv', Lex
  PROVE  TextStepsToGo' < TextStepsToGo /\ TextStepsToGo' \in Nat
<1>1. /\ src' = src /\ reading = "reading" /\ at <= Len(src) + 1
      /\ \/ reading' = "error"
         \/ reading' = "done" /\ Len(tokens') = Len(tokens) + 1
         \/ /\ reading' = "reading" /\ at' \in Nat /\ at < at' /\ at' <= Len(src) + 1
            /\ Len(tokens') \in {Len(tokens), Len(tokens) + 1}
  BY SameLexer, LexerProof!StepReads DEF Lex, TextInv
<1>2. /\ at \in Nat /\ Len(src) \in Nat /\ Len(tokens) \in Nat
      /\ outcome = "running" /\ pos = 1 /\ stack = <<"header">>
  BY <1>1 DEF TextInv, LexerProof!IInv, LexerProof!TypeOK, Fresh
<1>3. TextStepsToGo = 9 * (Len(src) + 1 - at) + 8 * Len(tokens) + 15
  BY <1>1 DEF TextStepsToGo
<1>4. CASE reading' = "error"
  <2>1. TextStepsToGo' = 0
    BY <1>4 DEF Lex, TextStepsToGo, StepsToGo
  <2>. QED
    BY <1>1, <1>2, <1>3, <2>1
<1>5. CASE reading' = "done" /\ Len(tokens') = Len(tokens) + 1
  <2>1. toks' = HandedOver(tokens')
    BY <1>5 DEF Lex
  <2>2. Len(toks') = Len(tokens) + 1
    <3>1. DOMAIN tokens' = 1 .. Len(tokens')
      BY DEF TextInv, LexerProof!IInv, LexerProof!TypeOK
    <3>2. DOMAIN toks' = 1 .. Len(tokens) + 1
      BY <1>5, <2>1, <3>1 DEF HandedOver
    <3>3. toks' \in Seq(Token)
      BY DEF TextInv, IInv, WellLexed, Token
    <3>. QED
      BY <1>2, <3>2, <3>3, LenProperties
  <2>3. pos' = 1 /\ outcome' = "running" /\ Len(stack') = 1 /\ Head(stack') = "header"
    BY <1>2, <1>5 DEF Lex
  <2>4. TextStepsToGo' = 8 * ((Len(tokens) + 1) + 1 - 1) + 2 * 1 + 3 + 1
    BY <1>5, <2>2, <2>3 DEF TextStepsToGo, StepsToGo, Credit
  <2>. QED
    BY <1>1, <1>2, <1>3, <2>4
<1>6. CASE /\ reading' = "reading" /\ at' \in Nat /\ at < at' /\ at' <= Len(src) + 1
           /\ Len(tokens') \in {Len(tokens), Len(tokens) + 1}
  <2>1. TextStepsToGo' = 9 * (Len(src) + 1 - at') + 8 * Len(tokens') + 15
    BY <1>1, <1>6 DEF TextStepsToGo
  <2>2. Len(tokens') \in Nat /\ Len(tokens') <= Len(tokens) + 1
    BY <1>2, <1>6
  <2>3. ASSUME NEW n \in Nat, NEW i \in Nat, NEW j \in Nat, NEW k \in Nat, NEW l \in Nat,
               i < j, j <= n + 1, l <= k + 1
        PROVE  /\ 9 * (n + 1 - j) + 8 * l + 15 < 9 * (n + 1 - i) + 8 * k + 15
               /\ 9 * (n + 1 - j) + 8 * l + 15 \in Nat
    BY <2>3
  <2>. QED
    BY <1>2, <1>3, <1>6, <2>1, <2>2, <2>3
<1>. QED
  BY <1>1, <1>4, <1>5, <1>6

\* So does every step of the parser; the only step that changes nothing is the
\* one after its return.
LEMMA TextStepNearer ==
  ASSUME TextsSpell, TextInv, TextInv', TextNext
  PROVE  \/ TextStepsToGo' < TextStepsToGo /\ TextStepsToGo' \in Nat
         \/ outcome # "running" /\ UNCHANGED textVars
<1>1. CASE ParseTokens
  <2>1. /\ reading # "reading" /\ reading' = reading
        /\ Nearer \/ (outcome # "running" /\ UNCHANGED vars)
    BY <1>1, StepNearer DEF ParseTokens, TextInv, lexVars
  <2>2. TextStepsToGo = StepsToGo /\ TextStepsToGo' = StepsToGo'
    BY <2>1 DEF TextStepsToGo
  <2>3. CASE Nearer
    BY <2>2, <2>3 DEF Nearer
  <2>4. CASE outcome # "running" /\ UNCHANGED vars
    BY <1>1, <2>4 DEF ParseTokens, textVars
  <2>. QED
    BY <2>1, <2>3, <2>4
<1>. QED
  BY <1>1, LexNearer DEF TextNext

-----------------------------------------------------------------------------

\* What was meant, if anything, is written in the text, the lexer is on the way
\* to return it, and the parser is given it.
MeantInv ==
  meant # Unmeant =>
    /\ LexerProof!IsWriting(src, meant)
    /\ LexerProof!Follows(meant)
    /\ reading = "done" => toks = HandedOver(meant)

\* The lexer starts before the first token meant.
LEMMA InitMeant == ASSUME TextInit PROVE MeantInv
<1>1. PICK w \in Written : src = w.text /\ meant = w.tokens
  BY DEF TextInit
<1>2. meant # Unmeant => LexerProof!IsWriting(src, meant)
  BY <1>1, WrittenAsMeant, SameWriting, Zenon
<1>3. LexerProof!Fresh /\ reading = "reading"
  BY SameLexer DEF TextInit, LexerProof!Fresh
<1>. QED
  BY <1>2, <1>3, LexerProof!FreshFollows DEF MeantInv

\* Every step of the lexer follows what was meant, no other step disturbs it.
LEMMA StepMeant ==
  ASSUME TextInv, MeantInv, [TextNext]_textVars
  PROVE  MeantInv'
<1>. SUFFICES ASSUME meant # Unmeant
              PROVE  MeantInv'
  BY DEF TextNext, Lex, ParseTokens, textVars, MeantInv
<1>1. PICK ts : ts = meant
  OBVIOUS
<1>2. LexerProof!IsWriting(src, ts) /\ LexerProof!Follows(ts)
  BY <1>1 DEF MeantInv
<1>3. CASE Lex
  <2>1. LexerProof!Step /\ LexerProof!ClassAssumption /\ LexerProof!IInv
    BY <1>3, SameLexer, LexerAssumption DEF Lex, TextInv
  <2>2. LexerProof!Follows(ts)' /\ src' = src /\ meant' = ts
    BY <1>1, <1>2, <1>3, <2>1, LexerProof!StepFollows, LexerProof!StepReads DEF Lex
  <2>3. reading' = "done" => toks' = HandedOver(tokens') /\ tokens' = ts
    BY <1>3, <2>2 DEF Lex, LexerProof!Follows
  <2>4. LexerProof!Follows(meant)'
    BY <2>2 DEF LexerProof!Follows
  <2>. QED
    BY <1>2, <2>2, <2>3, <2>4 DEF MeantInv
<1>4. CASE ParseTokens \/ UNCHANGED textVars
  <2>1. UNCHANGED <<src, at, tokens, reading, meant>>
    BY <1>4 DEF ParseTokens, lexVars, textVars
  <2>2. toks' = toks
    BY <1>4, NextSameTokens DEF ParseTokens, textVars, vars
  <2>. QED
    BY <2>1, <2>2 DEF MeantInv, LexerProof!Follows
<1>. QED
  BY <1>3, <1>4 DEF TextNext

\* So it is in every reachable state.
LEMMA MeantInvariance == ASSUME TextsSpell PROVE TextSpec => [](TextInv /\ MeantInv)
BY TextInvariance, InitMeant, StepMeant, PTL DEF TextSpec

-----------------------------------------------------------------------------

\* Once the parser has its tokens it is on its way through every plain policy
\* they may be; before that it has an end of input alone, which is none.
PlainInv ==
  IF reading = "done" THEN OnTheWay ELSE toks = <<[kind |-> "eof", text |-> ""]>>

\* The step in which the parser gets its tokens puts it on its way, every other
\* keeps it there.
LEMMA StepPlain ==
  ASSUME TextInv, TextInv', PlainInv, [TextNext]_textVars
  PROVE  PlainInv'
<1>1. CASE Lex
  <2>1. reading = "reading"
    BY <1>1, SameLexer, LexerProof!StepReads DEF Lex, TextInv
  <2>2. CASE reading' = "done"
    <3>1. WellLexed(toks)' /\ Fresh'
      BY <1>1, <2>1, <2>2 DEF TextInv, IInv, Lex, Fresh
    <3>2. (WellLexed(toks) /\ Fresh => OnTheWay)'
      BY FreshOnTheWay, PTL
    <3>. QED
      BY <2>2, <3>1, <3>2 DEF PlainInv
  <2>3. CASE reading' # "done"
    BY <1>1, <2>1, <2>3 DEF Lex, PlainInv
  <2>. QED
    BY <2>2, <2>3
<1>2. CASE ParseTokens \/ UNCHANGED textVars
  <2>1. reading' = reading /\ [Next]_vars /\ toks' = toks
    BY <1>2, NextSameTokens DEF ParseTokens, lexVars, textVars, vars
  <2>2. CASE reading = "done"
    BY <2>1, <2>2, NextOnTheWay DEF PlainInv, TextInv
  <2>3. CASE reading # "done"
    BY <2>1, <2>3 DEF PlainInv
  <2>. QED
    BY <2>2, <2>3
<1>. QED
  BY <1>1, <1>2 DEF TextNext

\* At the end of Parse every plain policy has been taken.
LEMMA PlainEnds == TextInv /\ PlainInv => PlainPoliciesParsed
<1>. SUFFICES ASSUME TextInv, PlainInv
              PROVE  PlainPoliciesParsed
  OBVIOUS
<1>1. CASE reading = "done"
  BY <1>1, WayEnds DEF PlainInv
<1>2. CASE reading # "done"
  <2>1. toks = <<[kind |-> "eof", text |-> ""]>>
    BY <1>2 DEF PlainInv
  <2>2. Len(toks) = 1
    BY <2>1
  <2>3. ASSUME NEW P \in PlainCuts(toks)
        PROVE  FALSE
    <3>1. Len(toks) - 1 \in 4 .. Len(toks)
      BY <2>3, CutIs DEF TextInv, IInv
    <3>. QED
      BY <2>2, <3>1
  <2>. QED
    BY <2>3 DEF PlainPoliciesParsed
<1>. QED
  BY <1>1, <1>2

\* So it is in every reachable state.
LEMMA PlainInvariance == ASSUME TextsSpell PROVE TextSpec => [](TextInv /\ PlainInv)
<1>1. TextInit => PlainInv
  BY DEF TextInit, PlainInv, Lexer!Fresh
<1>. QED
  BY <1>1, TextInvariance, StepPlain, PTL DEF TextSpec

-----------------------------------------------------------------------------

\* On every text the lexer keeps its types.
THEOREM LexerTypes == ASSUME TextsSpell PROVE TextSpec => []LexerTypeOK
BY TextInvariance, SameLexer, PTL DEF TextInv, LexerTypeOK, LexerProof!IInv

\* On every text each symbol is in one token or between two, and a token's text
\* is the symbols at its place; of a mark outside ASCII, its character.
THEOREM TextKept == ASSUME TextsSpell PROVE TextSpec => []NothingLost
BY TextInvariance, SameLexer, PTL DEF TextInv, NothingLost, LexerProof!IInv

\* Whatever a text is written with, the parser is given the tokens meant by it:
\* no comment, quote, missing or odd blank changes one, and there is one reading.
THEOREM TextMeant == ASSUME TextsSpell PROVE TextSpec => []TextAsTokens
<1>1. TextInv /\ MeantInv => TextAsTokens
  BY DEF TextInv, MeantInv, TextAsTokens, LexerProof!Follows, LexerProof!IInv, LexerProof!TypeOK
<1>. QED
  BY <1>1, MeantInvariance, PTL

\* Whatever the text, what reaches the parser is what its theorems assume.
THEOREM TokensFit == ASSUME TextsSpell PROVE TextSpec => []TokensAsAssumed
BY TextInvariance, PTL DEF TextInv, IInv, TokensAsAssumed

\* So from the characters of any text on: the parser looks at tokens there are,
THEOREM TextTypes == ASSUME TextsSpell PROVE TextSpec => []TypeOK
BY TextInvariance, PTL DEF TextInv, IInv

\* Parse indexes beyond its tokens only if the text ends after optimize,
THEOREM TextPanics == ASSUME TextsSpell PROVE TextSpec => []PanicsOnlyAfterOptimize
BY TextInvariance, PTL DEF TextInv, IInv

\* each require of a policy returned is a gate of its own, unless it stands where
\* a name does, and the gates are apart and in their order,
THEOREM TextGates == ASSUME TextsSpell PROVE TextSpec => []GatesKept
<1>1. TextInv => GatesKept
  BY DEF TextInv, IInv, WordsInv, GatesKept
<1>. QED
  BY <1>1, TextInvariance, PTL

\* and a policy ends at the first brace of the text that closes anything, at
\* nothing else and no later.
THEOREM TextFirstBrace == ASSUME TextsSpell PROVE TextSpec => []FirstBraceCloses
<1>1. TextInv => FirstBraceCloses
  BY DEF TextInv, WordsInv, FirstBraceCloses
<1>. QED
  BY <1>1, TextInvariance, PTL

\* A text of a plain policy, of any length, is accepted, and what comes back
\* holds each of its clauses as the grammar reads them.
THEOREM TextPlain == ASSUME TextsSpell PROVE TextSpec => []PlainPoliciesParsed
BY PlainInvariance, PlainEnds, PTL

\* On every text, however its expressions nest and wherever it breaks off, every
\* step of Parse lowers a bound that is linear in the text.
THEOREM TextLinear == ASSUME TextsSpell PROVE TextSpec => ParseIsLinear
<1>. DEFINE Lower == TextStepsToGo' < TextStepsToGo /\ TextStepsToGo' \in Nat
<1>1. TextInv /\ TextInv' /\ [TextNext]_textVars => [Lower]_textVars
  BY TextStepNearer
<1>. QED
  BY <1>1, TextInvariance, PTL DEF TextSpec, ParseIsLinear
=============================================================================

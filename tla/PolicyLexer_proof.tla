-------------------------- MODULE PolicyLexer_proof -------------------------
(***************************************************************************)
(* For every text over every classification of its symbols: the lexer      *)
(* keeps its types, puts each symbol into one token or into what separates *)
(* two, and ends with the one end mark the parser counts on.               *)
(***************************************************************************)
EXTENDS PolicyLexer, SequenceTheorems, WellFoundedInduction, TLAPS

\* tokEOF is appended last, and by no other step.
EndLast ==
  /\ \A i \in 1 .. Len(tokens) :
       tokens[i].kind = "eof" => reading = "done" /\ i = Len(tokens) /\ tokens[i].text = <<>>
  /\ reading = "done" => Len(tokens) > 0 /\ tokens[Len(tokens)].kind = "eof"

IInv == TypeOK /\ NothingLost /\ EndLast

-----------------------------------------------------------------------------

\* Among numbers with a bound there is a least one.
LEMMA Least ==
  ASSUME NEW T, T \subseteq Nat, T # {}
  PROVE  \E x \in T : \A y \in T : x <= y
<1>. DEFINE R == OpToRel(<, Nat)
<1>1. IsWellFoundedOn(R, Nat)
  BY NatLessThanWellFounded
<1>2. \A x, y \in Nat : y < x => <<y, x>> \in R
  BY DEF OpToRel
<1>. HIDE DEF R
<1>3. PICK x \in T : \A y \in T : ~(<<y, x>> \in R)
  BY <1>1, WFMin
<1>4. ASSUME NEW y \in T
      PROVE  x <= y
  <2>1. x \in Nat /\ y \in Nat
    OBVIOUS
  <2>2. ~(y < x)
    BY <1>2, <1>3, <2>1, Zenon
  <2>. QED
    BY <2>1, <2>2
<1>. QED
  BY <1>4

\* What First returns, wherever the search starts.
LEMMA FirstIs ==
  ASSUME src \in Seq(Symbols), NEW i \in 1 .. Len(src) + 1, NEW S
  PROVE  /\ First(i, S) \in i .. Len(src) + 1
         /\ \A k \in i .. First(i, S) - 1 : src[k] \notin S
         /\ First(i, S) <= Len(src) => src[First(i, S)] \in S
<1>. DEFINE T == {j \in i .. Len(src) + 1 : j <= Len(src) => src[j] \in S}
            Is(j) == /\ \A k \in i .. j - 1 : src[k] \notin S
                     /\ j <= Len(src) => src[j] \in S
<1>1. Len(src) \in Nat /\ i \in Nat
  OBVIOUS
<1>2. T \subseteq Nat /\ Len(src) + 1 \in T
  BY <1>1
<1>3. PICK x \in T : \A y \in T : x <= y
  BY <1>2, Least
<1>4. x \in i .. Len(src) + 1 /\ (x <= Len(src) => src[x] \in S)
  BY <1>3
<1>5. ASSUME NEW k \in i .. x - 1
      PROVE  src[k] \notin S
  BY <1>1, <1>3, <1>4, <1>5
<1>6. \E j \in i .. Len(src) + 1 : Is(j)
  BY <1>4, <1>5
<1>. HIDE DEF Is
<1>7. First(i, S) = CHOOSE j \in i .. Len(src) + 1 : Is(j)
  BY DEF First, Is
<1>8. First(i, S) \in i .. Len(src) + 1 /\ Is(First(i, S))
  BY <1>6, <1>7
<1>. QED
  BY <1>8 DEF Is

\* A stretch of the text.
LEMMA SliceIs ==
  ASSUME src \in Seq(Symbols), NEW i \in 1 .. Len(src) + 1, NEW j \in i .. Len(src) + 1
  PROVE  /\ Slice(i, j) \in Seq(Symbols)
         /\ Len(Slice(i, j)) = j - i
         /\ Slice(i, j) = SubSeq(src, i, i + Len(Slice(i, j)) - 1)
<1>1. i \in Int /\ j - 1 \in Int /\ \A k \in i .. j - 1 : src[k] \in Symbols
  OBVIOUS
<1>2. /\ SubSeq(src, i, j - 1) \in Seq(Symbols)
      /\ Len(SubSeq(src, i, j - 1)) = IF i <= j - 1 THEN (j - 1) - i + 1 ELSE 0
  BY <1>1, SubSeqProperties
<1>3. Len(SubSeq(src, i, j - 1)) = j - i /\ i + (j - i) - 1 = j - 1
  BY <1>2
<1>. QED
  BY <1>2, <1>3 DEF Slice

-----------------------------------------------------------------------------

\* A step that reads nothing, or gives up.
LEMMA StayKeeps ==
  ASSUME IInv, UNCHANGED <<src, at, tokens>>,
         \/ reading' = reading
         \/ reading = "reading" /\ reading' = "error"
  PROVE  IInv'
<1>1. src' = src /\ at' = at /\ tokens' = tokens
  OBVIOUS
<1>2. TypeOK'
  BY <1>1 DEF IInv, TypeOK
<1>3. NothingLost'
  <2>1. ASSUME NEW i \in 1 .. Len(tokens) + 1
        PROVE  Skipped(src, GapStart(i), GapEnd(i))'
    BY <1>1 DEF IInv, NothingLost, GapStart, GapEnd, Skipped
  <2>2. ASSUME NEW i \in 1 .. Len(tokens)
        PROVE  Spelled(src, tokens[i])'
    BY <1>1 DEF IInv, NothingLost, Spelled
  <2>. QED
    BY <1>1, <2>1, <2>2 DEF NothingLost
<1>4. EndLast'
  BY <1>1 DEF IInv, EndLast
<1>. QED
  BY <1>2, <1>3, <1>4 DEF IInv

\* A step over blanks or a comment.
LEMMA SkipKeeps ==
  ASSUME IInv, More, NEW j, SkipTo(j),
         j \in at .. Len(src) + 1,
         \/ \A k \in at .. j - 1 : src[k] \in Spaces
         \/ src[at] = "#" /\ \A k \in at .. j - 1 : src[k] # "\n"
  PROVE  IInv'
<1>1. /\ at \in 1 .. Len(src) + 1 /\ Len(src) \in Nat /\ Len(tokens) \in Nat
      /\ tokens \in Seq(TokenType)
  BY DEF IInv, TypeOK
<1>2. at' = j /\ src' = src /\ tokens' = tokens /\ reading' = reading
  BY DEF SkipTo
<1>3. TypeOK' /\ EndLast'
  BY <1>1, <1>2 DEF IInv, TypeOK, EndLast
<1>. DEFINE n == Len(tokens)
<1>4. \A i \in 1 .. n + 1 : GapStart(i)' = GapStart(i)
  BY <1>2 DEF GapStart
<1>5. \A i \in 1 .. n : GapEnd(i)' = GapEnd(i)
  BY <1>1, <1>2 DEF GapEnd
<1>6. GapEnd(n + 1) = at /\ GapEnd(n + 1)' = j
  BY <1>2 DEF GapEnd
<1>7. \A i \in 1 .. n : Skipped(src, GapStart(i), GapEnd(i))'
  BY <1>1, <1>2, <1>4, <1>5 DEF IInv, NothingLost, Skipped
<1>8. Skipped(src, GapStart(n + 1), j)
  <2>. DEFINE g == GapStart(n + 1)
  <2>1. g \in Nat
    <3>1. CASE n = 0
      BY <3>1 DEF GapStart
    <3>2. CASE n # 0
      <4>1. tokens[n] \in TokenType
        BY <1>1, <3>2
      <4>. QED
        BY <1>1, <3>2, <4>1 DEF GapStart, After, TokenType
    <3>. QED
      BY <3>1, <3>2
  <2>2. Skipped(src, g, at)
    BY <1>1, <1>6 DEF IInv, NothingLost
  <2>. HIDE DEF g, n
  <2>3. g <= j
    BY <1>1, <2>1, <2>2 DEF Skipped
  <2>4. ASSUME NEW k \in g .. j - 1
        PROVE  src[k] \in Spaces \/ \E h \in g .. k : src[h] = "#" /\ \A l \in h .. k : src[l] # "\n"
    <3>1. CASE k < at
      <4>1. k \in g .. at - 1
        BY <1>1, <2>1, <3>1
      <4>. QED
        BY <2>2, <4>1 DEF Skipped
    <3>2. CASE ~(k < at)
      <4>1. k \in at .. j - 1 /\ at \in g .. k
        BY <1>1, <2>1, <2>2, <3>2 DEF Skipped
      <4>2. CASE src[at] = "#" /\ \A l \in at .. j - 1 : src[l] # "\n"
        <5>1. \A l \in at .. k : src[l] # "\n"
          BY <1>1, <2>1, <4>1, <4>2
        <5>. QED
          BY <4>1, <4>2, <5>1
      <4>. QED
        BY <4>1, <4>2
    <3>. QED
      BY <3>1, <3>2
  <2>. QED
    BY <2>3, <2>4 DEF Skipped, g
<1>9. Skipped(src, GapStart(n + 1), GapEnd(n + 1))'
  BY <1>2, <1>4, <1>6, <1>8 DEF Skipped
<1>10. \A i \in 1 .. n : Spelled(src, tokens[i])'
  BY <1>2 DEF IInv, NothingLost, Spelled
<1>. QED
  BY <1>1, <1>2, <1>3, <1>7, <1>9, <1>10 DEF IInv, NothingLost

\* A step that returns a token: it starts where the lexer stands, it ends where
\* the lexer goes on.
LEMMA TokenKeeps ==
  ASSUME IInv, NEW t \in TokenType, NEW done,
         tokens' = Append(tokens, t), at' = After(t), src' = src, reading' = done,
         t.pos = at, Spelled(src, t), After(t) \in at .. Len(src) + 1,
         \/ t.kind # "eof" /\ reading = "reading" /\ done = "reading"
         \/ t.kind = "eof" /\ t.text = <<>> /\ reading = "reading" /\ done = "done"
  PROVE  IInv'
<1>0. PICK n \in Nat : n = Len(tokens)
  BY DEF IInv, TypeOK
<1>1. /\ at \in 1 .. Len(src) + 1 /\ Len(src) \in Nat
      /\ tokens \in Seq(TokenType) /\ n = Len(tokens)
  BY <1>0 DEF IInv, TypeOK
<1>2. /\ tokens' \in Seq(TokenType) /\ Len(tokens') = n + 1
      /\ \A i \in 1 .. n : tokens'[i] = tokens[i]
      /\ tokens'[n + 1] = t
  BY <1>1, AppendProperties
<1>3. TypeOK'
  BY <1>1, <1>2 DEF IInv, TypeOK
<1>4. EndLast'
  BY <1>1, <1>2 DEF IInv, EndLast
<1>5. \A i \in 1 .. n + 1 : GapStart(i)' = GapStart(i)
  BY <1>1, <1>2 DEF GapStart
<1>6. \A i \in 1 .. n + 1 : GapEnd(i)' = GapEnd(i)
  BY <1>1, <1>2 DEF GapEnd
<1>7. \A i \in 1 .. n + 1 : Skipped(src, GapStart(i), GapEnd(i))'
  BY <1>1, <1>5, <1>6 DEF IInv, NothingLost, Skipped
<1>8. GapStart(n + 2)' = After(t) /\ GapEnd(n + 2)' = After(t)
  <2>1. n + 2 # 1 /\ (n + 2) - 1 = n + 1 /\ n + 2 = (n + 1) + 1
    OBVIOUS
  <2>. QED
    BY <1>2, <2>1 DEF GapStart, GapEnd, After
<1>9. Skipped(src, GapStart(n + 2), GapEnd(n + 2))'
  BY <1>1, <1>8 DEF Skipped
<1>10. \A i \in 1 .. n + 1 : Spelled(src, tokens[i])'
  <2>. SUFFICES ASSUME NEW i \in 1 .. n + 1
                PROVE  Spelled(src, tokens[i])'
    OBVIOUS
  <2>1. CASE i \in 1 .. n
    BY <1>1, <1>2, <2>1 DEF IInv, NothingLost, Spelled
  <2>2. CASE i = n + 1
    BY <1>2, <2>2 DEF Spelled
  <2>3. i \in 1 .. n \/ i = n + 1
    OBVIOUS
  <2>. QED
    BY <2>1, <2>2, <2>3, Zenon
<1>11. NothingLost'
  <2>1. ASSUME NEW i \in 1 .. (n + 1) + 1
        PROVE  Skipped(src, GapStart(i), GapEnd(i))'
    BY <1>1, <1>7, <1>9
  <2>. QED
    BY <1>2, <1>10, <2>1 DEF NothingLost
<1>. QED
  BY <1>3, <1>4, <1>11 DEF IInv

\* An operator of two symbols.
LEMMA PairIs ==
  ASSUME src \in Seq(Symbols), NEW i \in 1 .. Len(src), i < Len(src)
  PROVE  Slice(i, i + 2) = <<src[i], src[i + 1]>> /\ Slice(i, i + 2) \in Seq(Symbols)
<1>. DEFINE s == SubSeq(src, i, i + 1)
<1>1. /\ i \in Int /\ i + 1 \in Int /\ (i + 2) - 1 = i + 1 /\ (i + 1) - i + 1 = 2
      /\ i + 1 - 1 = i /\ i + 2 - 1 = i + 1 /\ i <= i + 1
      /\ \A k \in i .. i + 1 : src[k] \in Symbols
  OBVIOUS
<1>2. /\ s \in Seq(Symbols) /\ Len(s) = 2
      /\ \A k \in 1 .. 2 : s[k] = src[i + k - 1]
  BY <1>1, SubSeqProperties
<1>3. Slice(i, i + 2) = s
  BY <1>1 DEF Slice
<1>. HIDE DEF s
<1>4. s[1] = src[i] /\ s[2] = src[i + 1]
  <2>1. 1 \in 1 .. 2 /\ 2 \in 1 .. 2
    OBVIOUS
  <2>. QED
    BY <1>1, <1>2, <2>1, Zenon
<1>5. s = <<s[1], s[2]>>
  BY <1>2
<1>. QED
  BY <1>2, <1>3, <1>4, <1>5, Zenon

\* The text of a single mark is no operator of two symbols, though it may be
\* two bytes long.
LEMMA MarkIs ==
  ASSUME ClassAssumption, NEW c \in Symbols
  PROVE  Character(c) \in Seq(Symbols) /\ Character(c) \notin Pairs
<1>1. \A p \in Pairs : Len(p) = 2 /\ p[2] = "="
  BY DEF Pairs
<1>2. CASE c \in HighBytes
  <2>1. /\ Utf8(c) \in Seq(HighBytes) /\ Len(Utf8(c)) = 2 /\ HighBytes \subseteq Symbols
        /\ "=" \notin HighBytes
    BY <1>2 DEF ClassAssumption
  <2>. DEFINE u == Utf8(c)
  <2>. HIDE DEF u
  <2>2. ASSUME NEW s \in Seq(HighBytes), Len(s) = 2
        PROVE  s[2] \in HighBytes /\ s \in Seq(Symbols)
    <3>1. \A k \in 1 .. 2 : s[k] \in HighBytes /\ s[k] \in Symbols
      BY <2>1, <2>2
    <3>2. s = [k \in 1 .. 2 |-> s[k]]
      BY <2>2
    <3>. QED
      BY <3>1, <3>2, IsASeq
  <2>. QED
    BY <1>1, <1>2, <2>1, <2>2 DEF Character
<1>3. CASE c \notin HighBytes
  BY <1>1, <1>3 DEF Character
<1>. QED
  BY <1>2, <1>3

\* Every turn of the lexer keeps the invariant.
LEMMA StepIInv ==
  ASSUME ClassAssumption, IInv, Step
  PROVE  IInv'
<1>1. /\ src \in Seq(Symbols) /\ at \in 1 .. Len(src) + 1 /\ Len(src) \in Nat
      /\ More => at + 1 \in 1 .. Len(src) + 1
  BY DEF IInv, TypeOK, More
<1>2. ASSUME NEW S
      PROVE  /\ First(at, S) \in at .. Len(src) + 1
             /\ \A k \in at .. First(at, S) - 1 : src[k] \notin S
             /\ More => First(at + 1, S) \in at + 1 .. Len(src) + 1
  BY <1>1, FirstIs
<1>3. CASE Blank
  <2>. DEFINE j == First(at, Symbols \ Spaces)
  <2>1. \A k \in at .. j - 1 : src[k] \in Spaces
    BY <1>1, <1>2
  <2>. QED
    BY <1>2, <1>3, <2>1, SkipKeeps DEF Blank
<1>4. CASE Comment
  <2>. DEFINE j == First(at, {"\n"})
  <2>1. \A k \in at .. j - 1 : src[k] # "\n"
    BY <1>2
  <2>. QED
    BY <1>2, <1>4, <2>1, SkipKeeps DEF Comment
<1>5. ASSUME NEW kind \in {"number", "ident"}, NEW j \in at .. Len(src) + 1,
             More, Token(kind, Slice(at, j), j)
      PROVE  IInv'
  <2>. DEFINE t == [kind |-> kind, text |-> Slice(at, j), pos |-> at]
  <2>1. /\ Slice(at, j) \in Seq(Symbols) /\ Len(Slice(at, j)) = j - at
        /\ Slice(at, j) = SubSeq(src, at, at + Len(Slice(at, j)) - 1)
    BY <1>1, SliceIs
  <2>2. t \in TokenType
    BY <1>1, <2>1 DEF TokenType
  <2>. HIDE DEF Slice
  <2>3. Spelled(src, t)
    BY <2>1 DEF Spelled, IsMark
  <2>4. After(t) = j
    BY <1>1, <2>1 DEF After, IsMark
  <2>. QED
    BY <1>5, <2>2, <2>3, <2>4, TokenKeeps DEF Token, More
<1>6. CASE String
  <2>. DEFINE close == First(at + 1, {src[at]})
              t == [kind |-> "string", text |-> Slice(at + 1, close), pos |-> at]
  <2>1. More /\ close \in at + 1 .. Len(src) + 1
    BY <1>2, <1>6 DEF String
  <2>. HIDE DEF close
  <2>2. CASE close > Len(src)
    <3>1. reading' = "error" /\ UNCHANGED <<src, at, tokens>> /\ reading = "reading"
      BY <1>6, <2>1, <2>2 DEF String, More, close
    <3>. QED
      BY <3>1, StayKeeps
  <2>3. CASE ~(close > Len(src))
    <3>1. Token("string", Slice(at + 1, close), close + 1)
      BY <1>6, <2>3 DEF String, close
    <3>2. /\ Slice(at + 1, close) \in Seq(Symbols) /\ Len(Slice(at + 1, close)) = close - (at + 1)
          /\ Slice(at + 1, close) = SubSeq(src, at + 1, (at + 1) + Len(Slice(at + 1, close)) - 1)
      BY <1>1, <2>1, SliceIs
    <3>3. t \in TokenType /\ Spelled(src, t)
      BY <1>1, <3>2 DEF TokenType, Spelled, IsMark
    <3>4. After(t) = close + 1
      <4>1. After(t) = at + (close - (at + 1)) + 2
        BY <3>2 DEF After, IsMark
      <4>. QED
        BY <1>1, <2>1, <4>1
    <3>5. close + 1 \in at .. Len(src) + 1
      BY <1>1, <2>1, <2>3
    <3>. QED
      BY <2>1, <3>1, <3>3, <3>4, <3>5, TokenKeeps DEF Token, More
  <2>. QED
    BY <2>2, <2>3
<1>7. CASE Number \/ Ident
  BY <1>2, <1>5, <1>7 DEF Number, Ident
<1>8. CASE Punct
  <2>1. More /\ at \in 1 .. Len(src) /\ at \in Nat /\ src[at] \in Symbols
    BY <1>1, <1>8 DEF Punct, OtherSymbol, More
  <2>2. ASSUME NEW text \in Seq(Symbols), NEW m \in {1, 2}, at + m <= Len(src) + 1,
               Token("punct", text, at + m),
               IF m = 2 THEN text \in Pairs /\ text = Slice(at, at + 2)
                        ELSE text \notin Pairs /\ text = Character(src[at])
        PROVE  IInv'
    <3>. DEFINE t == [kind |-> "punct", text |-> text, pos |-> at]
    <3>1. t \in TokenType /\ (IsMark(t) <=> m = 1)
      BY <2>1, <2>2 DEF TokenType, IsMark
    <3>2. m = 2 => Len(text) = 2 /\ text = SubSeq(src, at, at + 1)
      <4>1. \A p \in Pairs : Len(p) = 2
        BY DEF Pairs
      <4>2. Slice(at, at + 2) = SubSeq(src, at, at + 1)
        <5>1. (at + 2) - 1 = at + 1
          BY <2>1
        <5>. QED
          BY <5>1, Zenon DEF Slice
      <4>. QED
        BY <2>2, <4>1, <4>2, Zenon
    <3>3. t.kind = "punct" /\ t.text = text /\ t.pos = at
      OBVIOUS
    <3>4. /\ tokens' = Append(tokens, t) /\ at' = at + m
          /\ src' = src /\ reading' = reading /\ reading = "reading"
      BY <2>1, <2>2 DEF Token, More
    <3>. HIDE DEF t
    <3>5. Spelled(src, t) /\ After(t) = at + m
      <4>1. CASE m = 1
        <5>1. IsMark(t) /\ t.text = Character(src[t.pos])
          BY <2>2, <3>1, <3>3, <4>1
        <5>. QED
          BY <2>1, <3>3, <4>1, <5>1 DEF Spelled, After
      <4>2. CASE m = 2
        <5>1. ~IsMark(t) /\ Len(t.text) = 2 /\ t.text = SubSeq(src, at, at + 1)
          BY <3>1, <3>2, <3>3, <4>2
        <5>2. at + 2 - 1 = at + 1
          BY <2>1
        <5>. QED
          BY <2>1, <3>3, <4>2, <5>1, <5>2 DEF Spelled, After
      <4>. QED
        BY <4>1, <4>2
    <3>6. at + m \in at .. Len(src) + 1
      BY <1>1, <2>1, <2>2
    <3>. QED
      BY <3>1, <3>3, <3>4, <3>5, <3>6, TokenKeeps
  <2>3. CASE StartsPair(src, at)
    <3>1. Token("punct", Slice(at, at + 2), at + 2)
      BY <1>8, <2>3 DEF Punct
    <3>2. at < Len(src) /\ <<src[at], src[at + 1]>> \in Pairs
      BY <2>3 DEF StartsPair
    <3>3. Slice(at, at + 2) \in Pairs /\ Slice(at, at + 2) \in Seq(Symbols)
      BY <1>1, <2>1, <3>2, PairIs
    <3>4. at + 2 <= Len(src) + 1
      BY <1>1, <2>1, <3>2
    <3>. QED
      BY <2>2, <3>1, <3>3, <3>4
  <2>4. CASE ~StartsPair(src, at)
    <3>1. Token("punct", Character(src[at]), at + 1)
      BY <1>8, <2>4 DEF Punct
    <3>2. at + 1 <= Len(src) + 1
      BY <1>1, <2>1
    <3>. QED
      BY <2>1, <2>2, <3>1, <3>2, MarkIs
  <2>. QED
    BY <2>3, <2>4
<1>9. CASE End
  <2>. DEFINE t == [kind |-> "eof", text |-> <<>>, pos |-> at]
  <2>1. t \in TokenType /\ After(t) = at
    BY <1>1, EmptySeq DEF TokenType, After, IsMark
  <2>2. Spelled(src, t)
    BY <1>1, SubSeqEmpty DEF Spelled, IsMark
  <2>. QED
    BY <1>1, <1>9, <2>1, <2>2, TokenKeeps DEF End
<1>. QED
  BY <1>3, <1>4, <1>6, <1>7, <1>8, <1>9 DEF Step

\* Every turn of the lexer that does not end it reads at least one symbol, and
\* returns at most one token; the end mark is one token more.
LEMMA StepReads ==
  ASSUME IInv, Step
  PROVE  /\ src' = src /\ reading = "reading" /\ at <= Len(src) + 1
         /\ \/ reading' = "error"
            \/ reading' = "done" /\ Len(tokens') = Len(tokens) + 1
            \/ /\ reading' = "reading" /\ at' \in Nat /\ at < at' /\ at' <= Len(src) + 1
               /\ Len(tokens') \in {Len(tokens), Len(tokens) + 1}
<1>1. /\ src \in Seq(Symbols) /\ at \in 1 .. Len(src) + 1 /\ Len(src) \in Nat /\ at \in Nat
      /\ tokens \in Seq(TokenType)
  BY DEF IInv, TypeOK
<1>2. /\ src' = src /\ reading = "reading" /\ (More => src[at] \in Symbols /\ at <= Len(src))
  <2>1. src' = src /\ reading = "reading"
    <3>1. \A j : SkipTo(j) => src' = src
      BY DEF SkipTo
    <3>2. \A kind, text, j : Token(kind, text, j) => src' = src
      BY DEF Token
    <3>. QED
      BY <3>1, <3>2, Zenon DEF Step, Blank, Comment, End, String, Number, Ident, Punct,
         OtherSymbol, More
  <2>. QED
    BY <1>1, <2>1 DEF More
<1>3. ASSUME NEW S, More, src[at] \notin S
      PROVE  First(at, S) \in at + 1 .. Len(src) + 1
  <2>1. /\ First(at, S) \in at .. Len(src) + 1
        /\ First(at, S) <= Len(src) => src[First(at, S)] \in S
    BY <1>1, FirstIs
  <2>. QED
    BY <1>1, <1>2, <1>3, <2>1
<1>4. ASSUME NEW j \in at + 1 .. Len(src) + 1, SkipTo(j)
      PROVE  /\ reading' = "reading" /\ at' \in Nat /\ at < at' /\ at' <= Len(src) + 1
             /\ Len(tokens') \in {Len(tokens), Len(tokens) + 1}
  BY <1>1, <1>2, <1>4 DEF SkipTo
<1>5. ASSUME NEW j \in at + 1 .. Len(src) + 1, NEW kind, NEW text, Token(kind, text, j)
      PROVE  /\ reading' = "reading" /\ at' \in Nat /\ at < at' /\ at' <= Len(src) + 1
             /\ Len(tokens') \in {Len(tokens), Len(tokens) + 1}
  <2>1. /\ tokens' = Append(tokens, [kind |-> kind, text |-> text, pos |-> at])
        /\ at' = j /\ reading' = reading
    BY <1>5 DEF Token
  <2>2. Len(tokens') = Len(tokens) + 1
    BY <1>1, <2>1
  <2>. QED
    BY <1>1, <1>2, <2>1, <2>2
<1>6. CASE Blank
  <2>1. More /\ src[at] \notin Symbols \ Spaces /\ SkipTo(First(at, Symbols \ Spaces))
    BY <1>6 DEF Blank
  <2>. QED
    BY <1>1, <1>2, <1>3, <1>4, <2>1
<1>7. CASE Comment
  <2>1. More /\ src[at] \notin {"\n"} /\ SkipTo(First(at, {"\n"}))
    BY <1>7 DEF Comment
  <2>. QED
    BY <1>1, <1>2, <1>3, <1>4, <2>1
<1>8. CASE End
  <2>1. tokens' = Append(tokens, [kind |-> "eof", text |-> <<>>, pos |-> at]) /\ reading' = "done"
    BY <1>8 DEF End
  <2>2. Len(tokens') = Len(tokens) + 1
    BY <1>1, <2>1
  <2>. QED
    BY <1>1, <1>2, <2>1, <2>2
<1>9. CASE String
  <2>. DEFINE close == First(at + 1, {src[at]})
  <2>1. close \in at + 1 .. Len(src) + 1
    BY <1>1, <1>2, <1>9, FirstIs DEF String
  <2>2. \/ reading' = "error"
        \/ close <= Len(src) /\ Token("string", Slice(at + 1, close), close + 1)
    BY <1>1, <1>9, <2>1 DEF String
  <2>. HIDE DEF close
  <2>3. close <= Len(src) => close + 1 \in at + 1 .. Len(src) + 1
    BY <1>1, <2>1
  <2>. QED
    BY <1>1, <1>2, <1>5, <2>2, <2>3
<1>10. CASE Number
  <2>1. src[at] \notin Symbols \ (Digits \cup {"."})
    BY <1>10 DEF Number, StartsNumber
  <2>. QED
    BY <1>1, <1>2, <1>3, <1>5, <1>10, <2>1 DEF Number
<1>11. CASE Ident
  <2>. DEFINE j == First(at, Symbols \ (Letters \cup Digits \cup {"_", "-"}))
  <2>1. /\ More /\ src[at] \notin Symbols \ (Letters \cup Digits \cup {"_", "-"})
        /\ Token("ident", Slice(at, j), j)
    BY <1>11 DEF Ident
  <2>2. j \in at + 1 .. Len(src) + 1
    BY <1>3, <2>1
  <2>. DEFINE text == Slice(at, j)
  <2>3. Token("ident", text, j)
    BY <2>1
  <2>. HIDE DEF j, text
  <2>. QED
    BY <1>1, <1>2, <1>5, <2>2, <2>3
<1>12. CASE Punct
  <2>1. More
    BY <1>12 DEF Punct, OtherSymbol
  <2>2. CASE StartsPair(src, at)
    <3>1. at + 2 \in at + 1 .. Len(src) + 1
      BY <1>1, <2>2 DEF StartsPair
    <3>2. Token("punct", Slice(at, at + 2), at + 2)
      BY <1>12, <2>2 DEF Punct
    <3>. QED
      BY <1>1, <1>2, <1>5, <3>1, <3>2
  <2>3. CASE ~StartsPair(src, at)
    <3>1. at + 1 \in at + 1 .. Len(src) + 1
      BY <1>1, <1>2, <2>1
    <3>2. Token("punct", Character(src[at]), at + 1)
      BY <1>12, <2>3 DEF Punct
    <3>. QED
      BY <1>1, <1>2, <1>5, <3>1, <3>2
  <2>. QED
    BY <2>2, <2>3
<1>. QED
  BY <1>1, <1>2, <1>6, <1>7, <1>8, <1>9, <1>10, <1>11, <1>12 DEF Step

-----------------------------------------------------------------------------
(* The lexer returns the tokens that were written. *)

\* How far the lexer has come with the tokens ts it is to return: those it has
\* collected are the first of them, and it stands before the next.
Follows(ts) ==
  /\ reading # "error"
  /\ reading = "done" => tokens = ts
  /\ reading = "reading" =>
       /\ Len(tokens) < Len(ts)
       /\ \A i \in 1 .. Len(tokens) : tokens[i] = ts[i]
       /\ Separates(src, at, ts[Len(tokens) + 1].pos)

\* What the classes of symbols have to do with each other.
LEMMA Classes ==
  ASSUME ClassAssumption
  PROVE  /\ "#" \notin Spaces \cup Letters \cup Digits \cup Quotes \cup {".", "_", "\n"}
         /\ "." \notin Spaces \cup Letters \cup Digits \cup Quotes \cup {"_"}
         /\ "_" \notin Spaces \cup Letters \cup Digits \cup Quotes
         /\ \A q \in Quotes : q \notin Spaces \cup Letters \cup Digits
         /\ \A x \in Letters : x \notin Digits \cup Spaces
         /\ \A x \in Digits : x \notin Spaces
BY DEF ClassAssumption, Quotes

\* What each branch of the lexer looks at.
LEMMA Guards ==
  /\ End => at > Len(src)
  /\ Blank => More /\ src[at] \in Spaces
  /\ Comment => More /\ src[at] = "#"
  /\ String => More /\ src[at] \in Quotes
  /\ Number => More /\ StartsNumber(src, at)
  /\ Ident => More /\ src[at] \in Letters \cup {"_"}
  /\ Punct => More /\ StartsOther(src, at)
  /\ StartsNumber(src, at) => src[at] \in Digits \cup {"."}
  /\ StartsOther(src, at) =>
       src[at] \notin Spaces \cup Quotes \cup Letters \cup {"#", "_"} /\ ~StartsNumber(src, at)
<1>1. End => at > Len(src)
  BY DEF End
<1>2. Blank => More /\ src[at] \in Spaces
  BY DEF Blank
<1>3. Comment => More /\ src[at] = "#"
  BY DEF Comment
<1>4. String => More /\ src[at] \in Quotes
  BY DEF String
<1>5. Number => More /\ StartsNumber(src, at)
  BY DEF Number
<1>6. Ident => More /\ src[at] \in Letters \cup {"_"}
  BY DEF Ident
<1>7. Punct => More /\ StartsOther(src, at)
  BY DEF Punct, OtherSymbol
<1>8. StartsNumber(src, at) => src[at] \in Digits \cup {"."}
  BY DEF StartsNumber
<1>9. StartsOther(src, at) =>
        src[at] \notin Spaces \cup Quotes \cup Letters \cup {"#", "_"} /\ ~StartsNumber(src, at)
  BY DEF StartsOther
<1>. QED
  BY <1>1, <1>2, <1>3, <1>4, <1>5, <1>6, <1>7, <1>8, <1>9

\* No token but the last starts with what may separate it from the one before,
\* and the last stands at the end of the text.
LEMMA NextToken ==
  ASSUME ClassAssumption, src \in Seq(Symbols), NEW ts, IsWriting(src, ts),
         NEW n \in 1 .. Len(ts)
  PROVE  /\ ts \in Seq(TokenType) /\ Len(ts) \in Nat /\ ts[n] \in TokenType
         /\ ts[n].pos \in 1 .. Len(src) + 1
         /\ n < Len(ts) => Writes(src, ts[n]) /\ ts[n].pos <= Len(src)
         /\ n = Len(ts) => ts[n] = [kind |-> "eof", text |-> <<>>, pos |-> Len(src) + 1]
         /\ ts[n].pos <= Len(src) => src[ts[n].pos] \notin Spaces \cup {"#"}
<1>1. ts \in Seq(TokenType) /\ Len(ts) \in Nat /\ ts[n] \in TokenType /\ Len(src) \in Nat
  BY DEF IsWriting
<1>2. CASE n < Len(ts)
  <2>1. n \in 1 .. Len(ts) - 1
    BY <1>1, <1>2
  <2>2. Writes(src, ts[n])
    BY <2>1 DEF IsWriting
  <2>3. ts[n].pos \in 1 .. Len(src)
    BY <2>2 DEF Writes
  <2>. DEFINE x == src[ts[n].pos]
  <2>4. \/ x \in Letters \cup {"_"} \/ x \in Digits \cup {"."} \/ x \in Quotes
        \/ x \notin Spaces \cup {"#"}
    BY <2>2 DEF Writes, WritesIdent, WritesNumber, WritesString, WritesPunct, StartsNumber,
       StartsOther
  <2>. HIDE DEF x
  <2>5. x \notin Spaces \cup {"#"}
    BY <2>4, Classes
  <2>. QED
    BY <1>1, <1>2, <2>2, <2>3, <2>5 DEF x
<1>3. CASE n = Len(ts)
  <2>1. ts[n] = [kind |-> "eof", text |-> <<>>, pos |-> Len(src) + 1]
    BY <1>3 DEF IsWriting
  <2>. QED
    BY <1>1, <1>3, <2>1
<1>4. n < Len(ts) \/ n = Len(ts)
  BY <1>1
<1>. QED
  BY <1>2, <1>3, <1>4

\* A step over what separates two tokens never goes beyond the second.
LEMMA SkipFollows ==
  ASSUME ClassAssumption, src \in Seq(Symbols), at \in 1 .. Len(src) + 1,
         NEW b \in 1 .. Len(src) + 1, Separates(src, at, b),
         b <= Len(src) => src[b] \notin Spaces \cup {"#"},
         Blank \/ Comment
  PROVE  /\ at < b
         /\ \E j \in at .. b : SkipTo(j) /\ Separates(src, j, b)
<1>1. Len(src) \in Nat /\ at \in Nat /\ b \in Nat /\ at <= b
  BY DEF Separates, Skipped
<1>2. at <= Len(src)
  BY DEF Blank, Comment, More
<1>3. at < b
  BY <1>1, <1>2 DEF Blank, Comment
<1>4. \A k \in at .. b - 1 :
        src[k] \in Spaces \/ \E h \in at .. k : src[h] = "#" /\ \A l \in h .. k : src[l] # "\n"
  BY DEF Separates, Skipped
<1>5. ASSUME NEW j \in at .. b,
             \A k \in j .. b - 1 :
               src[k] \in Spaces \/ \E h \in j .. k : src[h] = "#" /\ \A l \in h .. k : src[l] # "\n"
      PROVE  Separates(src, j, b)
  <2>1. Skipped(src, j, b)
    BY <1>1, <1>5 DEF Skipped
  <2>2. ASSUME b <= Len(src), NEW h \in j .. b - 1, src[h] = "#"
        PROVE  \E l \in h .. b - 1 : src[l] = "\n"
    <3>1. h \in at .. b - 1
      BY <1>1
    <3>. QED
      BY <2>2, <3>1 DEF Separates
  <2>. QED
    BY <2>1, <2>2 DEF Separates
<1>6. CASE Blank
  <2>. DEFINE j == First(at, Symbols \ Spaces)
  <2>1. /\ j \in at .. Len(src) + 1
        /\ \A k \in at .. j - 1 : src[k] \notin Symbols \ Spaces
    BY FirstIs
  <2>2. SkipTo(j)
    BY <1>6 DEF Blank
  <2>. HIDE DEF j
  <2>3. ASSUME NEW k \in at .. j - 1
        PROVE  src[k] \in Spaces
    <3>1. k \in 1 .. Len(src)
      BY <1>1, <2>1
    <3>2. src[k] \in Symbols
      BY <3>1
    <3>. QED
      BY <2>1, <3>2
  <2>4. j <= b
    <3>1. CASE b = Len(src) + 1
      BY <1>1, <2>1, <3>1
    <3>2. CASE b <= Len(src)
      BY <1>1, <2>1, <2>3, <3>2
    <3>. QED
      BY <1>1, <3>1, <3>2
  <2>5. j \in at .. b
    BY <1>1, <2>1, <2>4
  <2>6. ASSUME NEW k \in j .. b - 1, src[k] \notin Spaces
        PROVE  \E h \in j .. k : src[h] = "#" /\ \A l \in h .. k : src[l] # "\n"
    <3>1. k \in at .. b - 1
      BY <1>1, <2>1
    <3>2. PICK h \in at .. k : src[h] = "#" /\ \A l \in h .. k : src[l] # "\n"
      BY <1>4, <2>6, <3>1
    <3>3. src[h] \notin Spaces
      BY <3>2, Classes
    <3>4. h \in j .. k
      BY <1>1, <2>1, <2>3, <3>1, <3>3
    <3>. QED
      BY <3>2, <3>4
  <2>7. Separates(src, j, b)
    BY <1>5, <2>5, <2>6
  <2>. QED
    BY <1>3, <2>2, <2>5, <2>7
<1>7. CASE Comment
  <2>. DEFINE j == First(at, {"\n"})
  <2>1. /\ j \in at .. Len(src) + 1
        /\ \A k \in at .. j - 1 : src[k] # "\n"
        /\ j <= Len(src) => src[j] = "\n"
    BY FirstIs
  <2>2. SkipTo(j) /\ src[at] = "#"
    BY <1>7 DEF Comment
  <2>. HIDE DEF j
  <2>3. j <= b
    <3>1. CASE b = Len(src) + 1
      BY <1>1, <2>1, <3>1
    <3>2. CASE b <= Len(src)
      <4>1. at \in at .. b - 1
        BY <1>1, <1>3
      <4>2. PICK l \in at .. b - 1 : src[l] = "\n"
        BY <2>2, <3>2, <4>1 DEF Separates
      <4>. QED
        BY <1>1, <2>1, <4>2
    <3>. QED
      BY <1>1, <3>1, <3>2
  <2>4. j \in at .. b
    BY <1>1, <2>1, <2>3
  <2>5. ASSUME NEW k \in j .. b - 1, src[k] \notin Spaces
        PROVE  \E h \in j .. k : src[h] = "#" /\ \A l \in h .. k : src[l] # "\n"
    <3>1. k \in at .. b - 1 /\ j <= Len(src)
      BY <1>1, <2>1
    <3>2. PICK h \in at .. k : src[h] = "#" /\ \A l \in h .. k : src[l] # "\n"
      BY <1>4, <2>5, <3>1
    <3>3. ~(j \in h .. k)
      BY <2>1, <3>1, <3>2
    <3>4. h \in j .. k
      BY <1>1, <2>1, <3>1, <3>3
    <3>. QED
      BY <3>2, <3>4
  <2>6. Separates(src, j, b)
    BY <1>5, <2>4, <2>5
  <2>. QED
    BY <1>3, <2>2, <2>4, <2>6
<1>. QED
  BY <1>6, <1>7

\* A step on the first symbol of a token that stands in the text returns it.
LEMMA TokenFollows ==
  ASSUME ClassAssumption, src \in Seq(Symbols), NEW t \in TokenType, Writes(src, t), at = t.pos,
         Step
  PROVE  /\ tokens' = Append(tokens, t) /\ at' = After(t)
         /\ UNCHANGED <<src, reading>>
<1>. DEFINE e == After(t)
            x == src[at]
<1>1. /\ Len(src) \in Nat /\ at \in 1 .. Len(src) /\ at \in Nat
      /\ e \in Nat /\ at < e /\ e <= Len(src) + 1
      /\ t.text \in Seq(Symbols) /\ Len(t.text) \in Nat
      /\ t = [kind |-> t.kind, text |-> t.text, pos |-> at]
  BY DEF Writes, TokenType, After
<1>2. Spelled(src, t)
  BY DEF Writes
<1>3. ASSUME NEW kind, t.kind = kind, Token(kind, t.text, e)
      PROVE  tokens' = Append(tokens, t) /\ at' = e /\ UNCHANGED <<src, reading>>
  BY <1>1, <1>3 DEF Token
<1>4. t.kind \notin {"string", "punct"} => t.text = Slice(at, e) /\ e = at + Len(t.text)
  BY <1>1, <1>2 DEF Spelled, Slice, After, IsMark
<1>5. ASSUME NEW S, Longest(src, t, S)
      PROVE  First(at, Symbols \ S) = e
  <2>. DEFINE j == First(at, Symbols \ S)
  <2>1. /\ j \in at .. Len(src) + 1
        /\ \A k \in at .. j - 1 : src[k] \notin Symbols \ S
        /\ j <= Len(src) => src[j] \in Symbols \ S
    BY <1>1, FirstIs
  <2>. HIDE DEF j
  <2>2. \A k \in at .. e - 1 : src[k] \in S
    BY <1>5 DEF Longest
  <2>3. e <= Len(src) => src[e] \in Symbols \ S
    BY <1>1, <1>5 DEF Longest
  <2>4. ~(j < e)
    BY <1>1, <2>1, <2>2
  <2>5. ~(e < j)
    BY <1>1, <2>1, <2>3
  <2>6. j = e
    BY <1>1, <2>1, <2>4, <2>5
  <2>. QED
    BY <2>6 DEF j
<1>. HIDE DEF e
<1>6. /\ ~End
      /\ Blank => x \in Spaces
      /\ Comment => x = "#"
      /\ String => x \in Quotes
      /\ Number => StartsNumber(src, at)
      /\ Ident => x \in Letters \cup {"_"}
      /\ Punct => StartsOther(src, at)
      /\ StartsNumber(src, at) => x \in Digits \cup {"."}
      /\ StartsOther(src, at) =>
           x \notin Spaces \cup Quotes \cup Letters \cup {"#", "_"} /\ ~StartsNumber(src, at)
  <2>1. ~(at > Len(src))
    BY <1>1
  <2>. QED
    BY <2>1, Guards, Zenon
<1>7. CASE WritesIdent(src, t)
  <2>1. t.kind = "ident" /\ x \in Letters \cup {"_"}
        /\ Longest(src, t, Letters \cup Digits \cup {"_", "-"})
    BY <1>7 DEF WritesIdent
  <2>2. Ident
    BY <1>6, <2>1, Classes DEF Step
  <2>3. First(at, Symbols \ (Letters \cup Digits \cup {"_", "-"})) = e
    BY <1>5, <2>1 DEF e
  <2>4. Token("ident", Slice(at, e), e)
    BY <2>2, <2>3 DEF Ident
  <2>. QED
    BY <1>3, <1>4, <2>1, <2>4 DEF e
<1>8. CASE WritesNumber(src, t)
  <2>1. t.kind = "number" /\ StartsNumber(src, at) /\ Longest(src, t, Digits \cup {"."})
    BY <1>8 DEF WritesNumber
  <2>2. Number
    BY <1>6, <2>1, Classes DEF Step
  <2>3. First(at, Symbols \ (Digits \cup {"."})) = e
    BY <1>5, <2>1 DEF e
  <2>4. Token("number", Slice(at, e), e)
    BY <2>2, <2>3 DEF Number
  <2>. QED
    BY <1>3, <1>4, <2>1, <2>4 DEF e
<1>9. CASE WritesString(src, t)
  <2>1. /\ t.kind = "string" /\ x \in Quotes /\ src[e - 1] = x
        /\ \A k \in at + 1 .. e - 2 : src[k] # x
    BY <1>9 DEF WritesString, e
  <2>2. String
    BY <1>6, <2>1, Classes DEF Step
  <2>3. e = at + Len(t.text) + 2 /\ t.text = SubSeq(src, at + 1, (at + 1) + Len(t.text) - 1)
    BY <1>1, <1>2, <2>1 DEF Spelled, After, IsMark, e
  <2>. DEFINE close == First(at + 1, {x})
  <2>4. /\ close \in at + 1 .. Len(src) + 1
        /\ \A k \in at + 1 .. close - 1 : src[k] # x
        /\ close <= Len(src) => src[close] = x
    <3>1. at + 1 \in 1 .. Len(src) + 1
      BY <1>1
    <3>2. /\ close \in at + 1 .. Len(src) + 1
          /\ \A k \in at + 1 .. close - 1 : src[k] \notin {x}
          /\ close <= Len(src) => src[close] \in {x}
      BY <3>1, FirstIs
    <3>. QED
      BY <3>2
  <2>5. IF close > Len(src) THEN reading' = "error" /\ UNCHANGED <<src, at, tokens>>
        ELSE Token("string", Slice(at + 1, close), close + 1)
    BY <2>2 DEF String
  <2>. HIDE DEF close
  <2>6. close = e - 1
    <3>1. e - 1 \in at + 1 .. Len(src) /\ e - 1 \in Nat
      BY <1>1, <2>3
    <3>2. ~(close < e - 1)
      BY <1>1, <2>1, <2>4, <3>1
    <3>3. ~(e - 1 < close)
      BY <1>1, <2>1, <2>4, <3>1
    <3>. QED
      BY <1>1, <2>4, <3>1, <3>2, <3>3
  <2>7. Slice(at + 1, close) = t.text /\ close + 1 = e /\ ~(close > Len(src))
    <3>1. close - 1 = (at + 1) + Len(t.text) - 1
      BY <1>1, <2>3, <2>6
    <3>. QED
      BY <1>1, <2>3, <2>6, <3>1 DEF Slice
  <2>. QED
    BY <1>3, <2>1, <2>5, <2>7 DEF e
<1>10. CASE WritesPunct(src, t)
  <2>1. /\ t.kind = "punct" /\ StartsOther(src, at)
        /\ StartsPair(src, at) => t.text \in Pairs
    BY <1>10 DEF WritesPunct
  <2>2. Punct
    BY <1>6, <2>1, Classes DEF Step
  <2>3. CASE t.text \in Pairs
    <3>1. Len(t.text) = 2 /\ ~IsMark(t)
      BY <2>3 DEF Pairs, IsMark
    <3>2. t.text = SubSeq(src, at, at + 1) /\ e = at + 2
      BY <1>1, <1>2, <2>1, <3>1 DEF Spelled, After, e
    <3>3. at < Len(src) /\ t.text = Slice(at, at + 2)
      BY <1>1, <3>2 DEF Slice
    <3>4. t.text = <<src[at], src[at + 1]>>
      BY <1>1, <3>3, PairIs, Zenon
    <3>5. StartsPair(src, at)
      BY <2>3, <3>3, <3>4 DEF StartsPair
    <3>6. Token("punct", Slice(at, at + 2), at + 2)
      BY <2>2, <3>5 DEF Punct
    <3>. QED
      BY <1>3, <2>1, <3>2, <3>3, <3>6, Zenon DEF e
  <2>4. CASE t.text \notin Pairs
    <3>1. IsMark(t) /\ ~StartsPair(src, at)
      BY <2>1, <2>4 DEF IsMark
    <3>2. t.text = Character(src[at]) /\ e = at + 1
      BY <1>1, <1>2, <3>1 DEF Spelled, After, e
    <3>3. Token("punct", Character(src[at]), at + 1)
      BY <2>2, <3>1 DEF Punct
    <3>. QED
      BY <1>3, <2>1, <3>2, <3>3, Zenon DEF e
  <2>. QED
    BY <2>3, <2>4
<1>. QED
  BY <1>7, <1>8, <1>9, <1>10 DEF Writes

\* Every turn of the lexer follows what was written.
LEMMA StepFollows ==
  ASSUME ClassAssumption, IInv, NEW ts, IsWriting(src, ts), Follows(ts), Step
  PROVE  Follows(ts)'
<1>. DEFINE n == Len(tokens) + 1
            b == ts[n].pos
<1>1. /\ src \in Seq(Symbols) /\ at \in 1 .. Len(src) + 1 /\ Len(src) \in Nat
      /\ tokens \in Seq(TokenType) /\ reading = "reading" /\ src' = src
  BY StepReads DEF IInv, TypeOK
<1>2. /\ n \in 1 .. Len(ts) /\ n \in Nat /\ Len(ts) \in Nat
      /\ \A i \in 1 .. Len(tokens) : tokens[i] = ts[i]
      /\ Separates(src, at, b)
  BY <1>1 DEF Follows, IsWriting
<1>. HIDE DEF b, n
<1>3. /\ ts \in Seq(TokenType) /\ ts[n] \in TokenType /\ b \in 1 .. Len(src) + 1
      /\ n < Len(ts) => Writes(src, ts[n]) /\ b <= Len(src)
      /\ n = Len(ts) => ts[n] = [kind |-> "eof", text |-> <<>>, pos |-> Len(src) + 1]
      /\ b <= Len(src) => src[b] \notin Spaces \cup {"#"}
  BY <1>1, <1>2, NextToken DEF b
<1>4. CASE Blank \/ Comment
  <2>1. PICK j \in at .. b : SkipTo(j) /\ Separates(src, j, b)
    BY <1>1, <1>2, <1>3, <1>4, SkipFollows
  <2>2. at' = j /\ tokens' = tokens /\ reading' = "reading"
    BY <1>1, <2>1 DEF SkipTo
  <2>. QED
    BY <1>1, <1>2, <2>1, <2>2 DEF Follows, b, n
<1>5. CASE ~(Blank \/ Comment)
  <2>1. at = b
    <3>1. at <= b
      BY <1>2 DEF Separates, Skipped
    <3>2. ASSUME at < b
          PROVE  FALSE
      <4>1. at \in at .. b - 1 /\ More
        BY <1>1, <1>3, <3>2 DEF More
      <4>2. src[at] \in Spaces
              \/ \E h \in at .. at : src[h] = "#" /\ \A l \in h .. at : src[l] # "\n"
        BY <1>2, <4>1 DEF Separates, Skipped
      <4>3. src[at] \in Spaces \cup {"#"}
        BY <1>1, <4>2
      <4>4. /\ src[at] \notin Quotes \cup Letters \cup {"_"} \cup Digits \cup {"."}
        BY <4>3, Classes
      <4>. QED
        <5>1. ~(at > Len(src))
          BY <1>1, <4>1 DEF More
        <5>. QED
          BY <1>5, <4>1, <4>3, <4>4, <5>1, Guards, Zenon DEF Step
    <3>. QED
      BY <1>1, <1>3, <3>1, <3>2
  <2>2. CASE n < Len(ts)
    <3>1. /\ tokens' = Append(tokens, ts[n]) /\ at' = After(ts[n])
          /\ UNCHANGED <<src, reading>>
      BY <1>1, <1>3, <2>1, <2>2, TokenFollows DEF b
    <3>2. /\ Len(tokens') = n
          /\ \A i \in 1 .. n : tokens'[i] = ts[i]
      BY <1>1, <1>2, <1>3, <3>1, AppendProperties DEF n
    <3>3. n + 1 \in 1 .. Len(ts) /\ n + 1 # 1 /\ (n + 1) - 1 = n
      BY <1>2, <2>2
    <3>4. Separates(src, After(ts[n]), ts[n + 1].pos)
      <4>1. Separates(src, IF n + 1 = 1 THEN 1 ELSE After(ts[(n + 1) - 1]), ts[n + 1].pos)
        BY <3>3 DEF IsWriting
      <4>. QED
        BY <3>3, <4>1
    <3>. QED
      BY <1>1, <2>2, <3>1, <3>2, <3>4 DEF Follows
  <2>3. CASE n = Len(ts)
    <3>1. at = Len(src) + 1
      BY <1>3, <2>1, <2>3 DEF b
    <3>2. End
      <4>1. ~More
        BY <1>1, <3>1 DEF More
      <4>. QED
        BY <1>5, <4>1, Guards, Zenon DEF Step
    <3>3. tokens' = Append(tokens, ts[n]) /\ reading' = "done"
      BY <1>3, <2>3, <3>1, <3>2 DEF End
    <3>4. /\ tokens' \in Seq(TokenType) /\ Len(tokens') = n
          /\ \A i \in 1 .. n : tokens'[i] = ts[i]
      BY <1>1, <1>2, <1>3, <3>3, AppendProperties DEF n
    <3>5. tokens' = ts
      BY <1>2, <1>3, <2>3, <3>4
    <3>. QED
      BY <3>3, <3>5 DEF Follows
  <2>. QED
    BY <1>2, <2>2, <2>3
<1>. QED
  BY <1>4, <1>5

\* So does a lexer that has not looked at its text yet.
LEMMA FreshFollows ==
  ASSUME NEW ts, IsWriting(src, ts), Fresh
  PROVE  Follows(ts)
<1>1. Len(ts) \in Nat /\ 1 \in 1 .. Len(ts) /\ Len(tokens) = 0
  BY DEF IsWriting, Fresh
<1>2. Separates(src, IF 1 = 1 THEN 1 ELSE After(ts[1 - 1]), ts[1].pos)
  BY <1>1 DEF IsWriting
<1>3. Separates(src, at, ts[Len(tokens) + 1].pos)
  BY <1>1, <1>2 DEF Fresh
<1>. QED
  BY <1>1, <1>3 DEF Fresh, Follows

-----------------------------------------------------------------------------

\* A lexer that has not looked at its text yet.
LEMMA FreshIInv == src \in Seq(Symbols) /\ Fresh => IInv
<1>. SUFFICES ASSUME src \in Seq(Symbols), Fresh
              PROVE  IInv
  OBVIOUS
<1>1. TypeOK
  BY EmptySeq DEF Fresh, TypeOK
<1>2. NothingLost
  BY DEF Fresh, NothingLost, GapStart, GapEnd, Skipped
<1>. QED
  BY <1>1, <1>2 DEF Fresh, IInv, EndLast

\* The inductive invariant holds in every reachable state.
LEMMA Invariance == ASSUME ClassAssumption PROVE Spec => []IInv
<1>1. Init => IInv
  BY FreshIInv DEF Init, ClassAssumption
<1>2. IInv /\ [Next]_vars => IInv'
  <2>1. IInv /\ UNCHANGED vars => IInv'
    BY StayKeeps DEF vars
  <2>. QED
    BY <2>1, StepIInv DEF Next, Finished
<1>. QED
  BY <1>1, <1>2, PTL DEF Spec

-----------------------------------------------------------------------------

\* The lexer stays within its text and returns tokens of its kinds only.
THEOREM TypeCorrect == ASSUME ClassAssumption PROVE Spec => []TypeOK
BY Invariance, PTL DEF IInv

\* On any text the lexer loses and repeats nothing: every symbol it has passed
\* is in the one token that says so, or blank, or in a comment; and it invents
\* nothing, except that a mark outside ASCII becomes the character of its number.
THEOREM Lossless == ASSUME ClassAssumption PROVE Spec => []NothingLost
BY Invariance, PTL DEF IInv
=============================================================================

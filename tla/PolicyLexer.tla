---------------------------- MODULE PolicyLexer -----------------------------
(***************************************************************************)
(* The lexer of the policy language (sdk/go/policy/parser.go), driven by   *)
(* Parse: one step is one turn of the loop that skips blanks and comments, *)
(* or the token that next returns.                                         *)
(*                                                                         *)
(* A text is a sequence of symbols.  The code looks at one byte at a time, *)
(* taken for a Unicode character of that number; a symbol is such a byte,  *)
(* or a run of letters that no branch of the lexer tells apart from one.   *)
(***************************************************************************)
EXTENDS Naturals, Sequences

CONSTANTS
  Symbols,   \* what texts are made of; the marks below are among them
  Letters,   \* unicode.IsLetter, also of single bytes of UTF-8: 0xC3 is one
  Digits,    \* unicode.IsDigit
  Spaces,    \* unicode.IsSpace, among them the byte 0xA0
  HighBytes, \* the symbols that are single bytes of UTF-8 from 0x80 on
  Utf8(_),   \* the two bytes that encode the character of that number
  Sources    \* the texts to read

Quotes == {"\"", "'"}
Pairs == {<<"=", "=">>, <<"!", "=">>, <<">", "=">>, <<"<", "=">>}

\* What is assumed of them: the classes are disjoint and leave the marks alone;
\* a newline is a space; what is not ASCII is encoded in bytes that are not.
ClassAssumption ==
  /\ "\n" \in Spaces
  /\ Letters \cap Digits = {} /\ (Letters \cup Digits) \cap Spaces = {}
  /\ (Quotes \cup {"#", ".", "_", "-", "=", "!", ">", "<"})
       \cap (Letters \cup Digits \cup Spaces \cup HighBytes) = {}
  /\ HighBytes \subseteq Symbols
  /\ \A b \in HighBytes : Utf8(b) \in Seq(HighBytes) /\ Len(Utf8(b)) = 2
  /\ Sources \subseteq Seq(Symbols)

VARIABLES
  src,      \* lexer.src, never changed
  at,       \* lexer.pos (1-based)
  tokens,   \* the tokens Parse has collected
  reading   \* "reading", "done", or "error"

vars == <<src, at, tokens, reading>>

\* What a lexer starts with besides its text.
Fresh == at = 1 /\ tokens = <<>> /\ reading = "reading"

Init == src \in Sources /\ Fresh

-----------------------------------------------------------------------------

More == reading = "reading" /\ at <= Len(src)

\* The first position from i on with a symbol of S, or the end of the text.
First(i, S) ==
  CHOOSE j \in i .. Len(src) + 1 :
    /\ \A k \in i .. j - 1 : src[k] \notin S
    /\ j <= Len(src) => src[j] \in S

Slice(i, j) == SubSeq(src, i, j - 1)

SkipTo(j) == at' = j /\ UNCHANGED <<src, tokens, reading>>

\* next returns the token, the lexer stands on j.
Token(kind, text, j) ==
  /\ tokens' = Append(tokens, [kind |-> kind, text |-> text, pos |-> at])
  /\ at' = j
  /\ UNCHANGED <<src, reading>>

Blank == More /\ src[at] \in Spaces /\ SkipTo(First(at, Symbols \ Spaces))

\* Mutant of Comment: a comment is a word to skip, not a line.
CommentWord == More /\ src[at] = "#" /\ SkipTo(First(at, Spaces))

\* To the end of the line, whatever is in it.
Comment == More /\ src[at] = "#" /\ SkipTo(First(at, {"\n"}))

\* Mutant of End: tokEOF is not appended.
EndBare ==
  /\ reading = "reading" /\ at > Len(src)
  /\ reading' = "done"
  /\ UNCHANGED <<src, at, tokens>>

\* tokEOF has no text; Parse stops asking.
End ==
  /\ reading = "reading" /\ at > Len(src)
  /\ tokens' = Append(tokens, [kind |-> "eof", text |-> <<>>, pos |-> at])
  /\ reading' = "done"
  /\ UNCHANGED <<src, at>>

\* Mutant of String: the end of the text ends a string too.
StringUnterminated ==
  /\ More /\ src[at] \in Quotes
  /\ LET close == First(at + 1, {src[at]})
     IN  Token("string", Slice(at + 1, close), close + 1)

\* Either quote, up to the next one of its kind: no escapes, and neither a
\* comment nor a newline means anything inside.
String ==
  /\ More /\ src[at] \in Quotes
  /\ LET close == First(at + 1, {src[at]})
     IN  IF close > Len(src)
           THEN reading' = "error" /\ UNCHANGED <<src, at, tokens>>
           ELSE Token("string", Slice(at + 1, close), close + 1)

\* Digits and dots, in any order; it may start with a dot before a digit.
StartsNumber(s, i) ==
  \/ s[i] \in Digits
  \/ s[i] = "." /\ i < Len(s) /\ s[i + 1] \in Digits

Number ==
  /\ More /\ StartsNumber(src, at)
  /\ LET j == First(at, Symbols \ (Digits \cup {"."}))
     IN  Token("number", Slice(at, j), j)

Ident ==
  /\ More /\ src[at] \in Letters \cup {"_"}
  /\ LET j == First(at, Symbols \ (Letters \cup Digits \cup {"_", "-"}))
     IN  Token("ident", Slice(at, j), j)

StartsOther(s, i) ==
  /\ s[i] \notin Spaces \cup Quotes \cup Letters \cup {"#", "_"}
  /\ ~StartsNumber(s, i)

OtherSymbol == More /\ StartsOther(src, at)

StartsPair(s, i) == i < Len(s) /\ <<s[i], s[i + 1]>> \in Pairs

\* string(c) of a byte is the character of that number: a byte outside ASCII
\* does not stay what it is.
Character(c) == IF c \in HighBytes THEN Utf8(c) ELSE <<c>>

\* Mutant of Punct: only the first symbol is looked at.
PunctGreedy ==
  /\ OtherSymbol
  /\ IF src[at] \in {"=", "!", ">", "<"} /\ at < Len(src)
       THEN Token("punct", <<src[at], "=">>, at + 2)
       ELSE Token("punct", Character(src[at]), at + 1)

\* The four operators of two symbols; any other symbol is a token of its own.
Punct ==
  /\ OtherSymbol
  /\ IF StartsPair(src, at) THEN Token("punct", Slice(at, at + 2), at + 2)
                           ELSE Token("punct", Character(src[at]), at + 1)

Step == Blank \/ Comment \/ End \/ String \/ Number \/ Ident \/ Punct

Finished == reading # "reading" /\ UNCHANGED vars

Next == Step \/ Finished

Spec == Init /\ [][Next]_vars /\ WF_vars(Step)

-----------------------------------------------------------------------------
(* Properties. *)

TokenType ==
  [kind : {"ident", "number", "string", "punct", "eof"}, text : Seq(Symbols), pos : Nat]

TypeOK ==
  /\ src \in Seq(Symbols)
  /\ at \in 1 .. Len(src) + 1
  /\ tokens \in Seq(TokenType)
  /\ reading \in {"reading", "done", "error"}

\* A token of one symbol, whose text need not be that symbol.
IsMark(t) == t.kind = "punct" /\ t.text \notin Pairs

\* The position after token t.
After(t) ==
  IF IsMark(t) THEN t.pos + 1
  ELSE t.pos + Len(t.text) + (IF t.kind = "string" THEN 2 ELSE 0)

\* Where the text between token i - 1 and token i begins, and where it ends.
GapStart(i) == IF i = 1 THEN 1 ELSE After(tokens[i - 1])
GapEnd(i) == IF i = Len(tokens) + 1 THEN at ELSE tokens[i].pos

\* Nothing but blanks and comments, which start with # and hold no newline.
Skipped(s, i, j) ==
  /\ i <= j
  /\ \A k \in i .. j - 1 :
       s[k] \in Spaces \/ \E h \in i .. k : s[h] = "#" /\ \A l \in h .. k : s[l] # "\n"

\* The text of token t is what stands at its place in the text s; of a mark
\* outside ASCII, which is no token of the language, it is the character instead.
Spelled(s, t) ==
  LET inside == IF t.kind = "string" THEN t.pos + 1 ELSE t.pos
  IN  IF IsMark(t) THEN t.text = Character(s[t.pos])
      ELSE t.text = SubSeq(s, inside, inside + Len(t.text) - 1)

\* Every symbol read is in exactly one token or between two of them; what is
\* between is blank up to a comment's start; and a token's text is the symbols at
\* its place, unchanged, with the one exception of a single mark outside ASCII,
\* which string(c) encodes anew (Spelled).
NothingLost ==
  /\ \A i \in 1 .. Len(tokens) + 1 : Skipped(src, GapStart(i), GapEnd(i))
  /\ \A i \in 1 .. Len(tokens) : Spelled(src, tokens[i])

-----------------------------------------------------------------------------
(* How tokens are written, by their author. *)

\* All of token t is made of symbols of S, and the symbol after it is not.
Longest(s, t, S) ==
  /\ \A k \in t.pos .. After(t) - 1 : s[k] \in S
  /\ After(t) <= Len(s) => s[After(t)] \notin S

WritesIdent(s, t) ==
  /\ t.kind = "ident" /\ s[t.pos] \in Letters \cup {"_"}
  /\ Longest(s, t, Letters \cup Digits \cup {"_", "-"})

WritesNumber(s, t) ==
  /\ t.kind = "number" /\ StartsNumber(s, t.pos)
  /\ Longest(s, t, Digits \cup {"."})

\* Between two quotes of one kind stands no other of that kind.
WritesString(s, t) ==
  /\ t.kind = "string" /\ s[t.pos] \in Quotes
  /\ s[After(t) - 1] = s[t.pos]
  /\ \A k \in t.pos + 1 .. After(t) - 2 : s[k] # s[t.pos]

\* A symbol that would start an operator of two symbols is not one by itself.
WritesPunct(s, t) ==
  /\ t.kind = "punct" /\ StartsOther(s, t.pos)
  /\ StartsPair(s, t.pos) => t.text \in Pairs

\* Token t stands in the text s as what it is.
Writes(s, t) ==
  /\ t.pos \in 1 .. Len(s) /\ t.pos < After(t) /\ After(t) <= Len(s) + 1
  /\ Spelled(s, t)
  /\ WritesIdent(s, t) \/ WritesNumber(s, t) \/ WritesString(s, t) \/ WritesPunct(s, t)

\* What may stand between two tokens: blanks, and comments that end before the
\* second of them.
Separates(s, i, j) ==
  /\ Skipped(s, i, j)
  /\ j <= Len(s) => \A h \in i .. j - 1 : s[h] = "#" => \E l \in h .. j - 1 : s[l] = "\n"

\* The text s is a way to write the tokens ts, up to and including tokEOF.
IsWriting(s, ts) ==
  /\ ts \in Seq(TokenType) /\ ts # <<>>
  /\ ts[Len(ts)] = [kind |-> "eof", text |-> <<>>, pos |-> Len(s) + 1]
  /\ \A i \in 1 .. Len(ts) - 1 : Writes(s, ts[i])
  /\ \A i \in 1 .. Len(ts) :
       Separates(s, IF i = 1 THEN 1 ELSE After(ts[i - 1]), ts[i].pos)
=============================================================================

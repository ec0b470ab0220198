----------------------------- MODULE PolicyText -----------------------------
(***************************************************************************)
(* Parse as a whole (sdk/go/policy/parser.go): the lexer of PolicyLexer    *)
(* reads the text to its end, and only then does the parser of             *)
(* PolicyParser start on the tokens collected.  An error of the lexer is   *)
(* the error of Parse.                                                     *)
(***************************************************************************)
EXTENDS PolicyParser

CONSTANTS
  Symbols, Letters, Digits, Spaces, HighBytes, Utf8(_),   \* as in PolicyLexer
  TextOf(_),  \* the string that a sequence of symbols spells
  Written     \* what authors wrote: the text, and the tokens they meant by it,
              \* each with its kind, its text and its place

Sources == {w.text : w \in Written}

\* The tokens of a text that no author meant anything by.
Unmeant == <<>>

VARIABLES
  meant,                    \* history: the tokens the author meant
  src, at, tokens, reading  \* the lexer

lexVars == <<src, at, tokens, reading>>
textVars == <<vars, meant, lexVars>>

Lexer == INSTANCE PolicyLexer

ASSUME LexerAssumption == Lexer!ClassAssumption

\* An author who means anything by a text writes the tokens as they are written,
\* with whatever separates them.
ASSUME WrittenAsMeant ==
  \A w \in Written : w.tokens # Unmeant => Lexer!IsWriting(w.text, w.tokens)

\* While the lexer reads, the parser has nothing but an end of input.
TextInit ==
  /\ \E w \in Written : src = w.text /\ meant = w.tokens
  /\ Lexer!Fresh
  /\ toks = <<[kind |-> "eof", text |-> ""]>>
  /\ Fresh

\* The position of a token is used in messages only.
HandedOver(ts) ==
  [i \in DOMAIN ts |-> [kind |-> ts[i].kind, text |-> TextOf(ts[i].text)]]

Lex ==
  /\ Lexer!Step
  /\ toks' = IF reading' = "done" THEN HandedOver(tokens') ELSE toks
  /\ outcome' = IF reading' = "error" THEN "error" ELSE outcome
  /\ UNCHANGED <<meant, pos, stack, val, from, opt, pol>>

ParseTokens ==
  /\ reading # "reading"
  /\ Next
  /\ UNCHANGED <<meant, lexVars>>

TextNext == Lex \/ ParseTokens

TextSpec == TextInit /\ [][TextNext]_textVars /\ WF_textVars(TextNext)

-----------------------------------------------------------------------------
(* Properties. *)

LexerTypeOK == Lexer!TypeOK

\* The lexer loses, repeats and reorders nothing, on any text; no token says
\* anything but the symbols at its place, a mark outside ASCII excepted
\* (Lexer!NothingLost).
NothingLost == Lexer!NothingLost

\* What the parser takes for granted of its tokens, and its theorems assume,
\* holds of every text: one tokEOF, at the end, without a text.
TokensAsAssumed == reading = "done" => WellLexed(toks)

\* The parser is given the tokens the author meant, whatever stands between
\* them: blanks, comments full of quotes and braces, or nothing where two
\* tokens may touch.
TextAsTokens ==
  reading # "reading" /\ meant # Unmeant => reading = "done" /\ toks = HandedOver(meant)

\* The same of Parse as a whole: a text of n symbols takes at most 9n + 15 steps,
\* since no symbol is read twice and every token but the last has one of its own.
TextStepsToGo ==
  IF reading = "reading" THEN 9 * (Len(src) + 1 - at) + 8 * Len(tokens) + 15
  ELSE StepsToGo

\* Parse is linear in its text: every turn of a loop of the lexer, and every
\* call, loop test and return of the parser, brings the end nearer, however
\* lists, arguments, paths and negations nest and wherever the text breaks off.
ParseIsLinear == [][TextStepsToGo' < TextStepsToGo /\ TextStepsToGo' \in Nat]_textVars
=============================================================================

----------------------------- MODULE SseStream ------------------------------
(***************************************************************************)
(* The streaming generators of the Python SDK (Client.chat_stream) and of  *)
(* the TypeScript SDK (Client.chatStream).  Both append decoded bytes to a *)
(* buffer, cut it at each empty line, and yield the contents found in the  *)
(* data lines of every event cut off.  They differ in how much they read   *)
(* at a time, in how they decode it, and in what stops them.               *)
(*                                                                         *)
(* Three parties interleave: the gateway and the network, the generator,   *)
(* and the consumer, who may close the generator while it is suspended at  *)
(* a yield.  The text of a line is one byte, since no code looks inside it *)
(* but the JSON parser; line ends, and the two bytes of a character        *)
(* outside ASCII, are bytes of their own.                                  *)
(***************************************************************************)
EXTENDS Naturals, Sequences

CONSTANTS
  Sdks,      \* which of the two generators are modelled; a behaviour has one
  MaxLines,  \* bound on the lines the gateway writes (the program has none)
  Written,   \* for each of them, the kinds of line the gateway writes
  Ends       \* and the line ends it uses

\* The kinds of a line:
\*   delta   data: an object with one choice that has a content
\*   pair    data: the same with two choices
\*   role    data: an object with nothing to yield
\*   finish  data: an object with done = true
\*   DONE    data: [DONE]
\*   bad     data: text that is not JSON
\*   alien   data: JSON of a shape the code trips over (Python: not an
\*           object; TypeScript: a choice without a delta)
\*   noise   any other field, or a comment
\*   blank   the empty line
DataKinds == {"delta", "pair", "role", "finish", "DONE", "bad", "alien"}
TextKinds == DataKinds \cup {"noise"}
LineKinds == TextKinds \cup {"blank"}

Bytes == TextKinds \cup {"nl", "cr", "lead", "cont"}

ASSUME SdksAssumption == Sdks \subseteq {"python", "typescript"}
ASSUME BoundAssumption == MaxLines \in Nat
ASSUME WrittenAssumption == \A s \in Sdks : Written[s] \subseteq LineKinds
ASSUME EndsAssumption == \A s \in Sdks : Ends[s] \subseteq {"lf", "crlf"}

VARIABLES
  sdk,      \* whose generator runs, never changed
  wire,     \* the bytes of the response body, in the order written
  lineNo,   \* how many lines that is
  net,      \* the connection: "open", "ended" or "broken"
  rd,       \* how many bytes the generator has read
  held,     \* whether the first byte of a character waits in TextDecoder
  buffer,   \* the text that is not yet cut into events
  event,    \* the lines of the current event still to be handled
  contents, \* contents of the current line still to be yielded
  pc,       \* where the generator is
  bodyOpen, \* the response is neither closed nor read to its end
  out       \* what was yielded

vars == <<sdk, wire, lineNo, net, rd, held, buffer, event, contents, pc, bodyOpen, out>>

gatewayVars == <<sdk, wire, lineNo, net>>
readVars == <<rd, held, buffer>>

\* Where a generator that will never run again is.
Final == {"returned", "raised", "closed", "refused"}

Init ==
  /\ sdk \in Sdks
  /\ wire = <<>>
  /\ lineNo = 0
  /\ net = "open"
  /\ rd = 0
  /\ held = FALSE
  /\ buffer = <<>>
  /\ event = <<>>
  /\ contents = <<>>
  /\ pc = "created"
  /\ bodyOpen = FALSE
  /\ out = <<>>

-----------------------------------------------------------------------------
(* The gateway and the network.  The gateway is not part of the repository. *)

EndOf(e) == IF e = "lf" THEN <<"nl">> ELSE <<"cr", "nl">>

\* A line of kind k, whose content has a two-byte character when accented.
TextOf(k, accented) ==
  CASE k = "blank" -> <<>>
    [] accented    -> <<k, "lead", "cont">>
    [] OTHER       -> <<k>>

\* The body of a refusal, which nobody reads, stays out of wire.
WriteLine ==
  /\ bodyOpen /\ net = "open" /\ lineNo < MaxLines
  /\ pc # "refused"
  /\ \E k \in Written[sdk], e \in Ends[sdk], accented \in BOOLEAN :
        /\ accented => k = "delta"
        /\ wire' = wire \o (TextOf(k, accented) \o EndOf(e))
  /\ lineNo' = lineNo + 1
  /\ UNCHANGED <<sdk, net, readVars, event, contents, pc, bodyOpen, out>>

\* The end of the body as the transport understands it: a connection closed
\* without framing, or under read(amt) of http.client, looks like this too.
EndBody ==
  /\ bodyOpen /\ net = "open"
  /\ net' = "ended"
  /\ UNCHANGED <<sdk, wire, lineNo, readVars, event, contents, pc, bodyOpen, out>>

\* A reset; or the timeout of 120 s: of one socket read in Python, of the whole
\* call (AbortSignal.timeout) in TypeScript.
Break ==
  /\ bodyOpen /\ net = "open"
  /\ net' = "broken"
  /\ UNCHANGED <<sdk, wire, lineNo, readVars, event, contents, pc, bodyOpen, out>>

-----------------------------------------------------------------------------
(* Reading and decoding. *)

\* urlopen and fetch run when the consumer asks for the first item.
Opened ==
  /\ pc = "created"
  /\ pc' = "read"
  /\ bodyOpen' = TRUE
  /\ UNCHANGED <<gatewayVars, readVars, event, contents, out>>

\* No connection, no answer in time, or in TypeScript a success without a body:
\* an exception, and nothing is open.
Unreachable ==
  /\ pc = "created"
  /\ pc' = "raised"
  /\ UNCHANGED <<gatewayVars, readVars, event, contents, bodyOpen, out>>

\* A status that is not a success: an exception before the first read, and the
\* response stays open.  Python has not got to "with resp": the response is the
\* HTTPError it re-raises from.  TypeScript leaves resp.body unread.
Refused ==
  /\ pc = "created"
  /\ pc' = "refused"
  /\ bodyOpen' = TRUE
  /\ UNCHANGED <<gatewayVars, readVars, event, contents, out>>

\* Mutant of Holds: decode(value) without { stream: true }, which keeps nothing
\* at the end of a chunk.
HoldsInChunk(byte, more) == sdk = "typescript" /\ byte = "lead" /\ more

\* decoder.decode(value, { stream: true }): a first byte waits for its second,
\* whether there is more in the chunk or not.
Holds(byte, more) == sdk = "typescript" /\ byte = "lead"

\* The characters a byte adds to the text.  chunk.decode("utf-8",
\* errors="replace") sees each byte on its own.
Decoded(byte) ==
  IF byte \notin {"lead", "cont"} THEN <<byte>>
  ELSE IF sdk = "typescript" /\ byte = "lead" THEN <<>>
  ELSE IF held THEN <<"char">> ELSE <<"repl">>

\* resp.read(1) gives one byte, reader.read() a chunk of what has arrived; the
\* loops over the buffer run when all of it has been decoded.  A character of
\* the text carries the place of its last byte, which no code looks at.
Read ==
  /\ pc \in {"read", "chunk"}
  /\ rd < Len(wire)
  /\ rd' = rd + 1
  /\ buffer' = IF Decoded(wire[rd + 1]) = <<>> THEN buffer
               ELSE Append(buffer, [k |-> Decoded(wire[rd + 1])[1], n |-> rd + 1])
  /\ \E more \in BOOLEAN :
        /\ more => sdk = "typescript" /\ rd + 1 < Len(wire)
        /\ held' = Holds(wire[rd + 1], more)
        /\ pc' = IF more THEN "chunk" ELSE "cut"
  /\ UNCHANGED <<gatewayVars, event, contents, bodyOpen, out>>

\* The generator returns at the end of the body; what is left in the buffer,
\* and the byte held by TextDecoder, are dropped.
BodyEnds ==
  /\ pc = "read"
  /\ net = "ended"
  /\ rd = Len(wire)
  /\ pc' = "returned"
  /\ bodyOpen' = FALSE
  /\ UNCHANGED <<gatewayVars, readVars, event, contents, out>>

\* Mutant of ReadFails: the exception of a read is taken for the end of the body.
ReadFailsSilently ==
  /\ pc = "read"
  /\ net = "broken"
  /\ pc' = "returned"
  /\ bodyOpen' = FALSE
  /\ UNCHANGED <<gatewayVars, readVars, event, contents, out>>

\* Bytes that had arrived before the failure may be lost with it.
ReadFails ==
  /\ pc = "read"
  /\ net = "broken"
  /\ pc' = "raised"
  /\ bodyOpen' = FALSE
  /\ UNCHANGED <<gatewayVars, readVars, event, contents, out>>

-----------------------------------------------------------------------------
(* Cutting events and handling their lines. *)

\* Positions i at which "\n\n" occurs in text.
Separators(text) ==
  {i \in 1 .. Len(text) - 1 : text[i].k = "nl" /\ text[i + 1].k = "nl"}

\* while "\n\n" in buffer: the first one ends the event.
CutEvent ==
  /\ pc = "cut"
  /\ Separators(buffer) # {}
  /\ LET sep == CHOOSE i \in Separators(buffer) :
                  \A j \in Separators(buffer) : i <= j
     IN  /\ event' = SubSeq(buffer, 1, sep - 1)
         /\ buffer' = SubSeq(buffer, sep + 2, Len(buffer))
  /\ pc' = "line"
  /\ UNCHANGED <<gatewayVars, rd, held, contents, bodyOpen, out>>

\* Mutant of NoEvent: the buffer is created anew for every chunk.
NoEventForgets ==
  /\ pc = "cut"
  /\ Separators(buffer) = {}
  /\ pc' = "read"
  /\ buffer' = <<>>
  /\ UNCHANGED <<gatewayVars, rd, held, event, contents, bodyOpen, out>>

\* Mutant of NoEvent: the inner loop is not left when nothing is found.
NoEventSpins ==
  /\ pc = "cut"
  /\ Separators(buffer) = {}
  /\ UNCHANGED vars

NoEvent ==
  /\ pc = "cut"
  /\ Separators(buffer) = {}
  /\ pc' = "read"
  /\ UNCHANGED <<gatewayVars, readVars, event, contents, bodyOpen, out>>

\* The end of the first line of a text, and the lines behind it.
LineEnd(text) ==
  LET ends == {i \in 1 .. Len(text) : text[i].k = "nl"}
  IN  IF ends = {} THEN Len(text) + 1
      ELSE CHOOSE i \in ends : \A j \in ends : i <= j

RestOf(text) == SubSeq(text, LineEnd(text) + 1, Len(text))

\* What the handler makes of that line.  event.splitlines() also splits at "\r";
\* split("\n") leaves it to trim().  Either way no "\r" is left in a payload.
KindOf(text) == IF text[1].k \in {"nl", "cr"} THEN "blank" ELSE text[1].k

EventDone ==
  /\ pc = "line"
  /\ event = <<>>
  /\ pc' = "cut"
  /\ UNCHANGED <<gatewayVars, readVars, event, contents, bodyOpen, out>>

\* The kinds that are passed over: Python continues after a JSONDecodeError.
Skipped ==
  {"blank", "noise", "role"} \cup IF sdk = "python" THEN {"bad"} ELSE {}

SkipLine ==
  /\ pc = "line"
  /\ event # <<>>
  /\ KindOf(event) \in Skipped
  /\ event' = RestOf(event)
  /\ UNCHANGED <<gatewayVars, readVars, contents, pc, bodyOpen, out>>

\* The contents of a line: where it stands, which choice of it, and what
\* characters outside ASCII came of it.
ContentsOf(text) ==
  LET chars == {text[i].k : i \in 2 .. LineEnd(text) - 1} \ {"cr"}
      content(c) == [n |-> text[1].n, choice |-> c, chars |-> chars]
  IN  IF text[1].k = "pair" THEN <<content(1), content(2)>> ELSE <<content(1)>>

TakeLine ==
  /\ pc = "line"
  /\ event # <<>>
  /\ KindOf(event) \in {"delta", "pair"}
  /\ contents' = ContentsOf(event)
  /\ event' = RestOf(event)
  /\ pc' = "choices"
  /\ UNCHANGED <<gatewayVars, readVars, bodyOpen, out>>

\* Mutant of Leave: the response is not opened in a with statement.
LeaveOpen(how) ==
  /\ pc' = how
  /\ UNCHANGED <<gatewayVars, readVars, bodyOpen, out>>

\* A return or an exception inside "with resp" closes the response; in
\* TypeScript the reader is neither cancelled nor released.
Leave(how) ==
  /\ pc' = how
  /\ bodyOpen' = IF sdk = "python" THEN FALSE ELSE bodyOpen
  /\ UNCHANGED <<gatewayVars, readVars, out>>

Finish ==
  /\ pc = "line"
  /\ event # <<>>
  /\ KindOf(event) \in {"finish", "DONE"}
  /\ Leave("returned")
  /\ UNCHANGED <<event, contents>>

\* The kinds that raise: JSON.parse throws on "bad", nothing catches "alien".
Fatal == {"alien"} \cup IF sdk = "python" THEN {} ELSE {"bad"}

Trip ==
  /\ pc = "line"
  /\ event # <<>>
  /\ KindOf(event) \in Fatal
  /\ Leave("raised")
  /\ UNCHANGED <<event, contents>>

Yield ==
  /\ pc = "choices"
  /\ contents # <<>>
  /\ out' = Append(out, Head(contents))
  /\ contents' = Tail(contents)
  /\ pc' = "yielded"
  /\ UNCHANGED <<gatewayVars, readVars, event, bodyOpen>>

\* Mutant of ChoicesDone: a break in the loop over choices leaves the loop
\* over lines as well.
ChoicesDoneBreaks ==
  /\ pc = "choices"
  /\ contents = <<>>
  /\ pc' = "cut"
  /\ UNCHANGED <<gatewayVars, readVars, event, contents, bodyOpen, out>>

ChoicesDone ==
  /\ pc = "choices"
  /\ contents = <<>>
  /\ pc' = "line"
  /\ UNCHANGED <<gatewayVars, readVars, event, contents, bodyOpen, out>>

-----------------------------------------------------------------------------
(* The consumer, at a yield. *)

Resume ==
  /\ pc = "yielded"
  /\ pc' = "choices"
  /\ UNCHANGED <<gatewayVars, readVars, event, contents, bodyOpen, out>>

\* The consumer breaks out of its loop: GeneratorExit, or return().
Close ==
  /\ pc = "yielded"
  /\ Leave("closed")
  /\ UNCHANGED <<event, contents>>

\* Mutant of Abort: no signal is passed to fetch; only a complete body ends.
AbortAtEnd ==
  /\ sdk = "typescript"
  /\ pc \in Final
  /\ bodyOpen
  /\ net = "ended"
  /\ bodyOpen' = FALSE
  /\ UNCHANGED <<gatewayVars, readVars, event, contents, pc, out>>

\* The runtime ends a connection nobody reads any more when the AbortSignal
\* fires (or, for a body that is complete, at once).
Abort ==
  /\ sdk = "typescript"
  /\ pc \in Final
  /\ bodyOpen
  /\ bodyOpen' = FALSE
  /\ UNCHANGED <<gatewayVars, readVars, event, contents, pc, out>>

Gateway == WriteLine \/ EndBody \/ Break

Generator ==
  \/ Opened \/ Unreachable \/ Refused \/ Read \/ BodyEnds \/ ReadFails
  \/ CutEvent \/ NoEvent \/ EventDone
  \/ SkipLine \/ TakeLine \/ Finish \/ Trip \/ Yield \/ ChoicesDone

Terminated ==
  /\ pc \in Final
  /\ UNCHANGED vars

Next == Gateway \/ Generator \/ Resume \/ Close \/ Abort \/ Terminated

\* The generator runs when it is asked, the consumer asks again or closes, and
\* the timeout ends a body the gateway leaves open.  In Python it is the timeout
\* of one read: MaxLines stands for a gateway that stops sending some day,
\* which TypeScript's timeout, of the whole call, does not need.
Fairness ==
  /\ WF_vars(Generator)
  /\ WF_vars(Resume \/ Close)
  /\ WF_vars(Break)
  /\ WF_vars(Abort)

Spec == Init /\ [][Next]_vars /\ Fairness

-----------------------------------------------------------------------------
(* Properties. *)

Texts == Seq([k : TextKinds \cup {"nl", "cr", "repl", "char"}, n : 1 .. rd])
Contents == Seq([n : 1 .. rd, choice : {1, 2}, chars : SUBSET {"repl", "char"}])

TypeOK ==
  /\ sdk \in Sdks
  /\ wire \in Seq(Bytes)
  /\ lineNo \in 0 .. MaxLines
  /\ net \in {"open", "ended", "broken"}
  /\ rd \in 0 .. Len(wire)
  /\ held \in BOOLEAN
  /\ buffer \in Texts
  /\ event \in Texts
  /\ contents \in Contents
  /\ out \in Contents
  /\ pc \in {"created", "read", "chunk", "cut", "line", "choices", "yielded"} \cup Final
  /\ bodyOpen \in BOOLEAN
  /\ event # <<>> \/ contents # <<>> => pc \in {"line", "choices", "yielded"} \cup Final

\* The number of a content in the order of the stream: that of a choice of the
\* line whose text is byte i.
Nth(i, choice) == 2 * i + choice

\* What ought to be yielded once the first rd bytes are there, with no buffer
\* and no chunks: the contents of the data lines that an empty line follows,
\* up to the first line among these that ends the stream.
Closed(i) == \E j \in i .. rd - 1 : wire[j] = "nl" /\ wire[j + 1] = "nl"

Stops(i) == wire[i] \in {"finish", "DONE"} \cup Fatal /\ Closed(i)

Numbers(i) == IF wire[i] = "pair" THEN {Nth(i, 1), Nth(i, 2)} ELSE {Nth(i, 1)}

Due ==
  UNION {Numbers(i) : i \in {p \in 1 .. rd : /\ wire[p] \in {"delta", "pair"}
                                             /\ Closed(p)
                                             /\ \A j \in 1 .. p : ~Stops(j)}}

Yielded == {Nth(out[i].n, out[i].choice) : i \in 1 .. Len(out)}

\* Chunk boundaries are invisible: however the body is split into reads, what
\* was yielded is what the bytes read so far call for, nothing skipped, twice
\* or out of order, and all of it whenever the generator waits for more bytes
\* or has stopped by itself.
ChunkingInvisible ==
  /\ \A i, j \in 1 .. Len(out) :
        i < j => Nth(out[i].n, out[i].choice) < Nth(out[j].n, out[j].choice)
  /\ Yielded \subseteq Due
  /\ \A d \in Due \ Yielded, y \in Yielded : y < d
  /\ pc \in {"read", "returned", "raised"} => Yielded = Due

\* A character whose bytes arrive in two chunks is put together again by
\* TextDecoder, so that a content is never damaged by where the network cut it.
DeltasIntact ==
  sdk = "typescript" =>
    \A i \in 1 .. Len(out) : out[i].chars \subseteq {"char"}

\* "Yield delta content chunks from an SSE stream." (the comment on Python's
\* chat_stream): what is yielded is the content the gateway sent.
ContentsIntact ==
  \A i \in 1 .. Len(out) : out[i].chars \subseteq {"char"}

\* Python: once the call was accepted, the response is closed however the
\* generator ends, at the latest when it is closed at a yield.  The response of
\* a refusal is the only one left open.
ClosedAtEnd == sdk = "python" /\ pc \in Final /\ bodyOpen => pc = "refused"

\* For a consumer, who sees neither reads nor buffer, each of the two generators
\* behaves as SseDelivery says.
Delivery ==
  INSTANCE SseDelivery WITH
    stops <- {"finish", "DONE"} \cup Fatal,
    body <- wire,
    got <- [i \in 1 .. Len(out) |-> Nth(out[i].n, out[i].choice)],
    verdict <- CASE pc = "returned" -> "complete"
                 [] pc = "raised"   -> "error"
                 [] pc = "refused"  -> "error"
                 [] pc = "closed"   -> "left"
                 [] OTHER           -> "none"

\* Contents are given in the order of the body, none skipped, and none after the
\* end; and a generator that returns, instead of raising, has given all that the
\* whole body calls for: a read that fails is never taken for the end of the body.
ImplementsDelivery == Delivery!Spec

\* A consumer that asks again or closes gets to the end of every call.
Finishes == <>(pc \in Final)

\* The connection is given back in the end, in TypeScript by the timeout alone,
\* refused or not.  In Python nothing gives back that of a refusal.
Released == <>[](bodyOpen => sdk = "python" /\ pc = "refused")
=============================================================================

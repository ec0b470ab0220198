---------------------------- MODULE SseDelivery -----------------------------
(***************************************************************************)
(* What a streaming generator promises its consumer, with no reads, no     *)
(* chunks, no buffer and no decoder in it.  The gateway writes a body; the *)
(* consumer is given numbers of contents of that body and, at most once,   *)
(* a verdict.                                                              *)
(*                                                                         *)
(*   - contents arrive in the order of the body, none twice, and none that *)
(*     is due is skipped between two of them;                              *)
(*   - a stream that is reported complete was given whole, up to its end   *)
(*     mark or the end of the body;                                        *)
(*   - nothing arrives once the stream has ended.                          *)
(*                                                                         *)
(* SseStream implements this specification.                                *)
(***************************************************************************)
EXTENDS Naturals, Sequences

VARIABLES
  stops,    \* the kinds of line that end a stream, never changed
  body,     \* the bytes written, a line of kind k being the byte k
  got,      \* the numbers of the contents the consumer was given
  verdict   \* how the stream ended for the consumer

vars == <<stops, body, got, verdict>>

Verdicts == {"none", "complete", "error", "left"}

\* Byte i belongs to an event whose empty line has been written.
InEvent(i) == \E j \in i .. Len(body) - 1 : body[j] = "nl" /\ body[j + 1] = "nl"

\* The numbers of the contents of the line whose text is byte i: one for each
\* choice, in the order of the body.
NumbersOf(i) == IF body[i] = "pair" THEN {2 * i + 1, 2 * i + 2} ELSE {2 * i + 1}

\* The lines of events that no end mark stands before.
Live(i) ==
  /\ InEvent(i)
  /\ \A j \in 1 .. i : body[j] \notin stops

Due ==
  UNION {NumbersOf(i) : i \in {p \in 1 .. Len(body) : body[p] \in {"delta", "pair"} /\ Live(p)}}

LastGot == IF got = <<>> THEN 0 ELSE got[Len(got)]

Init ==
  /\ body = <<>>
  /\ got = <<>>
  /\ verdict = "none"

\* What is written is not taken back.
Write ==
  /\ Len(body) < Len(body')
  /\ \A p \in 1 .. Len(body) : body'[p] = body[p]
  /\ UNCHANGED <<stops, got, verdict>>

\* The next content that is due.
Deliver ==
  /\ verdict = "none"
  /\ \E d \in Due :
        /\ LastGot < d
        /\ \A e \in Due : e < d => e <= LastGot
        /\ got' = Append(got, d)
  /\ UNCHANGED <<stops, body, verdict>>

Conclude ==
  /\ verdict = "none"
  /\ verdict' \in Verdicts \ {"none"}
  /\ verdict' = "complete" => \A d \in Due : d <= LastGot
  /\ UNCHANGED <<stops, body, got>>

Next == Write \/ Deliver \/ Conclude

Spec == Init /\ [][Next]_vars
=============================================================================

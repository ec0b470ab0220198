--------------------------- MODULE StreamDelivery ---------------------------
(***************************************************************************)
(* What a streaming chat call promises its caller, with no goroutine, no   *)
(* channel and no socket in it.  The gateway writes a log of lines; the    *)
(* caller is handed positions of that log and, at most once, a verdict.    *)
(*                                                                         *)
(*   - chunks arrive in the order they were written, none twice, and with  *)
(*     no chunk, end mark or undecodable line skipped between two of them; *)
(*   - nothing arrives once the call has ended.                            *)
(*                                                                         *)
(* ChatStream implements this specification.                               *)
(***************************************************************************)
EXTENDS Naturals, Sequences

\* The kinds of a line of the event stream, as ChatStream tells them apart:
\*   chunk  a data line whose JSON is a ChatChunk
\*   done   a data line whose JSON has done = true
\*   bad    a data line whose JSON does not decode into a ChatChunk
\*   noise  a line without the data: prefix (blank, comment, other field)
\*   long   a line beyond the 64 KiB token limit of bufio.Scanner
Kinds == {"chunk", "done", "bad", "noise", "long"}

Verdicts == {"none", "clean", "error", "abandoned"}

VARIABLES
  wire,     \* every line the gateway has put into the response body
  got,      \* positions of wire handed to the caller, in order
  verdict   \* how the call ended for the caller

vars == <<wire, got, verdict>>

\* The position of the newest chunk the caller has.
LastGot == IF got = <<>> THEN 0 ELSE got[Len(got)]

Init ==
  /\ wire = <<>>
  /\ got = <<>>
  /\ verdict = "none"

Write ==
  /\ \E k \in Kinds : wire' = Append(wire, k)
  /\ UNCHANGED <<got, verdict>>

\* p is the first line after the caller's last chunk that is not noise.
Deliver ==
  /\ verdict = "none"
  /\ \E p \in 1 .. Len(wire) :
        /\ LastGot < p
        /\ wire[p] = "chunk"
        /\ \A i \in LastGot + 1 .. p - 1 : wire[i] = "noise"
        /\ got' = Append(got, p)
  /\ UNCHANGED <<wire, verdict>>

Conclude ==
  /\ verdict = "none"
  /\ verdict' \in Verdicts \ {"none"}
  /\ UNCHANGED <<wire, got>>

Next == Write \/ Deliver \/ Conclude

Spec == Init /\ [][Next]_vars
=============================================================================

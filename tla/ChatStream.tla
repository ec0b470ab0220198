----------------------------- MODULE ChatStream -----------------------------
(***************************************************************************)
(* Client.ChatStream of the Go SDK (sdk/go/client/client.go) with its SSE  *)
(* reader (sse.go): one goroutine reads the response body and offers each  *)
(* chunk on an unbuffered channel ch; an error goes to errCh, which holds  *)
(* one value; the caller ranges over ch and, once it is closed, polls      *)
(* errCh without blocking (the loop of TestChatStream).                    *)
(*                                                                         *)
(* Three parties interleave: the gateway and the network, the producer     *)
(* goroutine, and the caller, who may stop receiving at any time.  A line  *)
(* is one of the kinds of StreamDelivery; its text is abstracted away.     *)
(***************************************************************************)
EXTENDS Naturals, Sequences

CONSTANT MaxLines   \* bound on the lines the gateway writes (the program has none)

ASSUME BoundAssumption == MaxLines \in Nat

Kinds == {"chunk", "done", "bad", "noise", "long"}

\* What the goroutine can report on errCh, named by where it comes from.
Failures == {"request", "status", "decode"}

\* Why the goroutine stopped reading; the last four are never reported.
Stops == {"none"} \cup Failures \cup {"done", "eof", "readerr", "toolong"}

VARIABLES
  wire,      \* the lines in the response body, in the order written
  net,       \* the connection: "open", "ended" (EOF) or "broken"
  rd,        \* how many lines the scanner has consumed
  pc,        \* where the goroutine is
  bodyOpen,  \* resp.Body is not closed yet
  chClosed,  \* ch is closed
  errCh,     \* the buffer of errCh
  caller,    \* "ranging" over ch, "polling" errCh, "finished", or "gone"
  got,       \* positions of wire received by the caller
  seen,      \* the error the caller's poll returned, "nil" if none
  stop       \* history: why the goroutine stopped reading

vars == <<wire, net, rd, pc, bodyOpen, chClosed, errCh, caller, got, seen, stop>>

gatewayVars == <<wire, net>>
callerVars == <<caller, got, seen>>

\* Mutant of ErrCap: errCh := make(chan error), without a buffer.
ErrCapZero == 0

\* errCh := make(chan error, 1).
ErrCap == 1

Init ==
  /\ wire = <<>>
  /\ net = "open"
  /\ rd = 0
  /\ pc = "dial"
  /\ bodyOpen = FALSE
  /\ chClosed = FALSE
  /\ errCh = <<>>
  /\ caller = "ranging"
  /\ got = <<>>
  /\ seen = "nil"
  /\ stop = "none"

-----------------------------------------------------------------------------
(* The gateway and the network.  The gateway is not part of the repository. *)

Streaming == pc \notin {"dial", "exited"} /\ bodyOpen /\ net = "open"

WriteLine ==
  /\ Streaming
  /\ Len(wire) < MaxLines
  /\ \E k \in Kinds : wire' = Append(wire, k)
  /\ UNCHANGED <<net, rd, pc, bodyOpen, chClosed, errCh, callerVars, stop>>

EndBody ==
  /\ Streaming
  /\ net' = "ended"
  /\ UNCHANGED <<wire, rd, pc, bodyOpen, chClosed, errCh, callerVars, stop>>

\* Mutant of Break: http.Client without a Timeout; only a connection that is
\* delivering data is ever cut.
BreakInUse ==
  /\ Streaming
  /\ rd < Len(wire)
  /\ net' = "broken"
  /\ UNCHANGED <<wire, rd, pc, bodyOpen, chClosed, errCh, callerVars, stop>>

\* The connection is reset, the context is cancelled, or the 120 s timeout of
\* http.Client runs out while the body is read.  The cut may fall inside a
\* line: bufio.Scanner hands out the fragment it holds as a last token.
Break ==
  /\ Streaming
  /\ net' = "broken"
  /\ \/ wire' = wire
     \/ /\ Len(wire) < MaxLines
        /\ \E k \in {"bad", "noise"} : wire' = Append(wire, k)
  /\ UNCHANGED <<rd, pc, bodyOpen, chClosed, errCh, callerVars, stop>>

-----------------------------------------------------------------------------
(* The producer goroutine. *)

\* newRequest or HTTP.Do fails: no response, so no body to close.
RequestFails ==
  /\ pc = "dial"
  /\ pc' = "report"
  /\ stop' = "request"
  /\ UNCHANGED <<gatewayVars, rd, bodyOpen, chClosed, errCh, callerVars>>

\* A status other than 200; ReadAll drains the body and its error is dropped.
Refused ==
  /\ pc = "dial"
  /\ pc' = "report"
  /\ stop' = "status"
  /\ bodyOpen' = TRUE
  /\ net' \in {"ended", "broken"}
  /\ UNCHANGED <<wire, rd, chClosed, errCh, callerVars>>

Accepted ==
  /\ pc = "dial"
  /\ pc' = "scan"
  /\ bodyOpen' = TRUE
  /\ UNCHANGED <<gatewayVars, rd, chClosed, errCh, callerVars, stop>>

\* Lines consumed from the body reach the scanner in order.
Reads(k) ==
  /\ pc = "scan"
  /\ rd < Len(wire)
  /\ wire[rd + 1] = k

SkipLine ==
  /\ Reads("noise")
  /\ rd' = rd + 1
  /\ UNCHANGED <<gatewayVars, pc, bodyOpen, chClosed, errCh, callerVars, stop>>

TakeChunk ==
  /\ Reads("chunk")
  /\ rd' = rd + 1
  /\ pc' = "offer"
  /\ UNCHANGED <<gatewayVars, bodyOpen, chClosed, errCh, callerVars, stop>>

TakeDone ==
  /\ Reads("done")
  /\ rd' = rd + 1
  /\ pc' = "closeBody"
  /\ stop' = "done"
  /\ UNCHANGED <<gatewayVars, bodyOpen, chClosed, errCh, callerVars>>

\* Mutant of TakeBad: a chunk that does not decode is skipped (continue).
TakeBadSkips ==
  /\ Reads("bad")
  /\ rd' = rd + 1
  /\ UNCHANGED <<gatewayVars, pc, bodyOpen, chClosed, errCh, callerVars, stop>>

TakeBad ==
  /\ Reads("bad")
  /\ rd' = rd + 1
  /\ pc' = "report"
  /\ stop' = "decode"
  /\ UNCHANGED <<gatewayVars, bodyOpen, chClosed, errCh, callerVars>>

\* Scan returns false with ErrTooLong, which nobody asks for: the loop breaks.
TokenTooLong ==
  /\ Reads("long")
  /\ pc' = "closeBody"
  /\ stop' = "toolong"
  /\ UNCHANGED <<gatewayVars, rd, bodyOpen, chClosed, errCh, callerVars>>

\* Mutant of BodyEnds: io.EOF is sent to errCh like any other error.
BodyEndsReported ==
  /\ pc = "scan"
  /\ net = "ended"
  /\ rd = Len(wire)
  /\ pc' = "report"
  /\ stop' = "eof"
  /\ UNCHANGED <<gatewayVars, rd, bodyOpen, chClosed, errCh, callerVars>>

\* Mutant of BodyEnds: the end of the body ends the loop at once, with lines
\* still in the scanner's buffer.
BodyEndsEarly ==
  /\ pc = "scan"
  /\ net = "ended"
  /\ pc' = "closeBody"
  /\ stop' = "eof"
  /\ UNCHANGED <<gatewayVars, rd, bodyOpen, chClosed, errCh, callerVars>>

BodyEnds ==
  /\ pc = "scan"
  /\ net = "ended"
  /\ rd = Len(wire)
  /\ pc' = "closeBody"
  /\ stop' = "eof"
  /\ UNCHANGED <<gatewayVars, rd, bodyOpen, chClosed, errCh, callerVars>>

\* The read fails, perhaps before lines that had arrived: Scan returns false
\* and the loop breaks exactly as at the end of the body.
ReadFails ==
  /\ pc = "scan"
  /\ net = "broken"
  /\ pc' = "closeBody"
  /\ stop' = "readerr"
  /\ UNCHANGED <<gatewayVars, rd, bodyOpen, chClosed, errCh, callerVars>>

\* Mutant of Report: the error is sent in a select with a default case and no
\* receiver is ready (errCh without a buffer), so it is dropped.
ReportDropped ==
  /\ pc = "report"
  /\ pc' = IF bodyOpen THEN "closeBody" ELSE "closeCh"
  /\ UNCHANGED <<gatewayVars, rd, bodyOpen, chClosed, errCh, callerVars, stop>>

\* errCh <- err; the deferred Body.Close is only registered when there is one.
Report ==
  /\ pc = "report"
  /\ Len(errCh) < ErrCap
  /\ errCh' = Append(errCh, stop)
  /\ pc' = IF bodyOpen THEN "closeBody" ELSE "closeCh"
  /\ UNCHANGED <<gatewayVars, rd, bodyOpen, chClosed, callerVars, stop>>

\* Mutant of CloseBody: defer resp.Body.Close() is missing.
CloseBodyMissing ==
  /\ pc = "closeBody"
  /\ pc' = "closeCh"
  /\ UNCHANGED <<gatewayVars, rd, bodyOpen, chClosed, errCh, callerVars, stop>>

\* The deferred calls run last in, first out: Body.Close, then close(ch).
CloseBody ==
  /\ pc = "closeBody"
  /\ bodyOpen' = FALSE
  /\ pc' = "closeCh"
  /\ UNCHANGED <<gatewayVars, rd, chClosed, errCh, callerVars, stop>>

CloseChannel ==
  /\ pc = "closeCh"
  /\ chClosed' = TRUE
  /\ pc' = "exited"
  /\ UNCHANGED <<gatewayVars, rd, bodyOpen, errCh, callerVars, stop>>

-----------------------------------------------------------------------------
(* The caller, and the rendezvous on the unbuffered channel. *)

\* ch <- chunk: completes only while the caller is receiving.
Handoff ==
  /\ pc = "offer"
  /\ caller = "ranging"
  /\ got' = Append(got, rd)
  /\ pc' = "scan"
  /\ UNCHANGED <<gatewayVars, rd, bodyOpen, chClosed, errCh, caller, seen, stop>>

SeeClosed ==
  /\ caller = "ranging"
  /\ chClosed
  /\ caller' = "polling"
  /\ UNCHANGED <<gatewayVars, rd, pc, bodyOpen, chClosed, errCh, got, seen, stop>>

\* select { case err := <-errCh: ... default: }
Poll ==
  /\ caller = "polling"
  /\ caller' = "finished"
  /\ IF errCh = <<>>
       THEN UNCHANGED <<seen, errCh>>
       ELSE seen' = Head(errCh) /\ errCh' = Tail(errCh)
  /\ UNCHANGED <<gatewayVars, rd, pc, bodyOpen, chClosed, got, stop>>

\* The caller leaves its loop early and never receives again.
Abandon ==
  /\ caller = "ranging"
  /\ caller' = "gone"
  /\ UNCHANGED <<gatewayVars, rd, pc, bodyOpen, chClosed, errCh, got, seen, stop>>

-----------------------------------------------------------------------------

Gateway == WriteLine \/ EndBody \/ Break

Dial == RequestFails \/ Refused \/ Accepted

Scan ==
  \/ SkipLine \/ TakeChunk \/ TakeDone \/ TakeBad \/ TokenTooLong
  \/ BodyEnds \/ ReadFails

Return == Report \/ CloseBody \/ CloseChannel

CallerStep == SeeClosed \/ Poll

\* Both sides are done, or the goroutine waits for a caller who has left:
\* nothing is left to happen.
Terminated ==
  /\ \/ pc = "exited" /\ caller \in {"finished", "gone"}
     \/ pc = "offer" /\ caller = "gone"
  /\ UNCHANGED vars

Next ==
  \/ Gateway \/ Dial \/ Scan \/ Return \/ Handoff \/ CallerStep \/ Abandon
  \/ Terminated

\* The goroutine is scheduled, a caller that has not left keeps receiving, and
\* http.Client.Timeout ends a body the gateway leaves open.  Nothing is assumed
\* of the gateway, and nothing makes a caller leave.
Fairness ==
  /\ WF_vars(Dial \/ Scan \/ Return)
  /\ WF_vars(Handoff)
  /\ WF_vars(CallerStep)
  /\ WF_vars(Break)

Spec == Init /\ [][Next]_vars /\ Fairness

-----------------------------------------------------------------------------
(* Properties. *)

TypeOK ==
  /\ wire \in Seq(Kinds)
  /\ net \in {"open", "ended", "broken"}
  /\ rd \in 0 .. Len(wire)
  /\ pc \in {"dial", "scan", "offer", "report", "closeBody", "closeCh", "exited"}
  /\ bodyOpen \in BOOLEAN
  /\ chClosed \in BOOLEAN
  /\ errCh \in Seq(Failures)
  /\ caller \in {"ranging", "polling", "finished", "gone"}
  /\ got \in Seq(Nat)
  /\ seen \in {"nil"} \cup Failures
  /\ stop \in Stops

LastGot == IF got = <<>> THEN 0 ELSE got[Len(got)]

\* The caller's poll with a default case is enough: an error the goroutine
\* reported is never missed, and what the poll returns is why it stopped.
PollSeesError ==
  caller = "finished" => seen = IF stop \in Failures THEN stop ELSE "nil"

\* When ranging ends, nothing of the call is left behind: the goroutine is past
\* its last send and the response body is closed.
ReleasedWhenFinished ==
  caller \in {"polling", "finished"} => pc = "exited" /\ ~bodyOpen

\* A stream that ended with its done event, or at the end of the body, was
\* delivered whole: after the caller's last chunk the scanner met only lines
\* without data, up to the done line or to the end of everything written.
WholeWhenEnded ==
  caller = "finished" =>
    /\ stop = "done" =>
         /\ wire[rd] = "done"
         /\ \A i \in LastGot + 1 .. rd - 1 : wire[i] = "noise"
    /\ stop = "eof" =>
         \A i \in LastGot + 1 .. Len(wire) : wire[i] = "noise"

\* A caller that does not leave gets to the end of every call, whatever the
\* gateway does: the request fails, is refused, ends, breaks or times out.
CallerFinishes == <>(caller \in {"finished", "gone"})

\* The goroutine always returns, unless it offers a chunk to a caller who has
\* left: ch <- chunk watches neither the context nor the timeout.
ExitsOrAbandoned == <>[](pc = "exited" \/ (pc = "offer" /\ caller = "gone"))

\* The order and completeness of what is received, whatever interleaves.
Delivery == INSTANCE StreamDelivery WITH
  verdict <- CASE caller = "finished" -> IF seen = "nil" THEN "clean" ELSE "error"
               [] caller = "gone" -> "abandoned"
               [] OTHER -> "none"

ImplementsDelivery == Delivery!Spec

\* "Errors from the stream surface ... on the channel" (the comment on
\* ChatStream): a caller who sees no error has a stream that really ended.
StreamErrorsSurface ==
  caller = "finished" /\ seen = "nil" => stop \in {"done", "eof"}
=============================================================================

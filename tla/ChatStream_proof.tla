-------------------------- MODULE ChatStream_proof --------------------------
(***************************************************************************)
(* The safety properties of ChatStream and its refinement of               *)
(* StreamDelivery, for every bound on the lines and with or without a      *)
(* caller who leaves.                                                      *)
(***************************************************************************)
EXTENDS ChatStream, SequenceTheorems, TLAPS

\* No line of wire from the one after p up to q carries data.
Silent(p, q) == \A i \in p + 1 .. q : wire[i] = "noise"

\* Where the goroutine is, against what it holds and why it stopped.
Control ==
  /\ pc = "dial" => rd = 0 /\ got = <<>>
  /\ pc \in {"scan", "offer", "closeBody"} => bodyOpen
  /\ pc \in {"dial", "closeCh", "exited"} => ~bodyOpen
  /\ chClosed <=> pc = "exited"
  /\ caller \in {"polling", "finished"} => chClosed
  /\ pc \in {"dial", "scan", "offer"} <=> stop = "none"
  /\ pc = "report" => stop \in Failures

\* What was reported is still in errCh until the caller's poll takes it.
Errors ==
  /\ caller # "finished" =>
       /\ seen = "nil"
       /\ errCh = IF pc \in {"closeBody", "closeCh", "exited"} /\ stop \in Failures
                    THEN <<stop>> ELSE <<>>
  /\ PollSeesError

\* What was delivered, against how far the scanner is.
Reading ==
  /\ LastGot \in 0 .. rd
  /\ pc = "scan" => Silent(LastGot, rd)
  /\ pc = "offer" =>
       rd > LastGot /\ wire[rd] = "chunk" /\ Silent(LastGot, rd - 1)
  /\ stop = "done" =>
       rd > LastGot /\ wire[rd] = "done" /\ Silent(LastGot, rd - 1)
  /\ stop = "eof" => net = "ended" /\ rd = Len(wire) /\ Silent(LastGot, rd)

IInv == TypeOK /\ Control /\ Errors /\ Reading

-----------------------------------------------------------------------------

\* Appending a line leaves the lines already there, and the caller's last
\* position, as they were: what was silent stays silent.
LEMMA AppendKeepsLines ==
  ASSUME TypeOK, NEW k \in Kinds, wire' = Append(wire, k)
  PROVE  /\ wire' \in Seq(Kinds)
         /\ Len(wire') = Len(wire) + 1
         /\ \A i \in 1 .. Len(wire) : wire'[i] = wire[i]
BY AppendProperties DEF TypeOK

\* One more position received becomes the caller's last one.
LEMMA AppendSetsLastGot ==
  ASSUME TypeOK, got' = Append(got, rd)
  PROVE  got' \in Seq(Nat) /\ LastGot' = rd
<1>1. rd \in Nat /\ got \in Seq(Nat)
  BY DEF TypeOK
<1>2. /\ got' \in Seq(Nat)
      /\ got' # <<>>
      /\ Len(got') = Len(got) + 1
      /\ got'[Len(got) + 1] = rd
  BY <1>1, AppendProperties
<1>. QED
  BY <1>2 DEF LastGot

\* The call starts in the inductive invariant.
LEMMA InitIInv == Init => IInv
<1>. SUFFICES ASSUME Init
              PROVE  IInv
  OBVIOUS
<1>. USE DEF Init
<1>1. TypeOK
  <2>1. wire \in Seq(Kinds) /\ errCh \in Seq(Failures) /\ got \in Seq(Nat)
    BY EmptySeq
  <2>2. rd \in 0 .. Len(wire) /\ stop \in Stops
    BY DEF Stops
  <2>. QED
    BY <2>1, <2>2 DEF TypeOK
<1>2. Control
  BY DEF Control
<1>3. Errors
  BY DEF Errors, PollSeesError, Failures
<1>4. Reading
  BY DEF Reading, LastGot
<1>. QED
  BY <1>1, <1>2, <1>3, <1>4 DEF IInv

\* Every step of the gateway, the goroutine and the caller keeps it.
LEMMA NextIInv == IInv /\ [Next]_vars => IInv'
<1>. SUFFICES ASSUME IInv, [Next]_vars
              PROVE  IInv'
  OBVIOUS
<1>. USE DEF IInv
<1>1. CASE WriteLine
  <2>. PICK k \in Kinds : wire' = Append(wire, k)
    BY <1>1 DEF WriteLine
  <2>1. /\ wire' \in Seq(Kinds)
        /\ Len(wire') = Len(wire) + 1
        /\ \A i \in 1 .. Len(wire) : wire'[i] = wire[i]
    BY AppendKeepsLines
  <2>2. net = "open" /\ UNCHANGED <<net, rd, pc, bodyOpen, chClosed, errCh, callerVars, stop>>
    BY <1>1 DEF WriteLine, Streaming
  <2>3. TypeOK'
    BY <2>1, <2>2 DEF TypeOK, callerVars
  <2>4. Control' /\ Errors'
    BY <2>2 DEF Control, Errors, PollSeesError, callerVars
  <2>5. Reading'
    BY <2>1, <2>2 DEF Reading, Silent, LastGot, TypeOK, callerVars
  <2>. QED
    BY <2>3, <2>4, <2>5
<1>2. CASE EndBody
  BY <1>2 DEF EndBody, Streaming, TypeOK, Control, Errors, PollSeesError, Reading,
              Silent, LastGot, callerVars
<1>3. CASE Break
  <2>1. /\ net = "open"
        /\ net' = "broken"
        /\ UNCHANGED <<rd, pc, bodyOpen, chClosed, errCh, callerVars, stop>>
    BY <1>3 DEF Break, Streaming
  <2>2. /\ wire' \in Seq(Kinds)
        /\ Len(wire') >= Len(wire)
        /\ \A i \in 1 .. Len(wire) : wire'[i] = wire[i]
    <3>1. CASE wire' = wire
      BY <3>1 DEF TypeOK
    <3>2. CASE \E k \in {"bad", "noise"} : wire' = Append(wire, k)
      <4>. PICK k \in Kinds : wire' = Append(wire, k)
        BY <3>2 DEF Kinds
      <4>. QED
        BY AppendKeepsLines DEF TypeOK
    <3>. QED
      BY <1>3, <3>1, <3>2 DEF Break
  <2>3. TypeOK'
    BY <2>1, <2>2 DEF TypeOK, callerVars
  <2>4. Control' /\ Errors'
    BY <2>1 DEF Control, Errors, PollSeesError, callerVars
  <2>5. LastGot' = LastGot /\ LastGot \in 0 .. rd /\ rd \in 0 .. Len(wire)
    BY <2>1 DEF Reading, LastGot, TypeOK, callerVars
  <2>6. \A q \in 0 .. rd : Silent(LastGot, q) => Silent(LastGot, q)'
    BY <2>1, <2>2, <2>5 DEF Silent
  <2>7. Reading'
    BY <2>1, <2>2, <2>5, <2>6 DEF Reading
  <2>. QED
    BY <2>3, <2>4, <2>7
<1>4. CASE Dial
  <2>1. TypeOK'
    BY <1>4 DEF Dial, RequestFails, Refused, Accepted, TypeOK, Stops, Failures,
                gatewayVars, callerVars
  <2>2. Control'
    BY <1>4 DEF Dial, RequestFails, Refused, Accepted, Control, Failures,
                gatewayVars, callerVars
  <2>3. Errors'
    BY <1>4 DEF Dial, RequestFails, Refused, Accepted, Control, Errors,
                PollSeesError, gatewayVars, callerVars
  <2>4. Reading'
    BY <1>4 DEF Dial, RequestFails, Refused, Accepted, Control, Reading, Silent,
                LastGot, gatewayVars, callerVars
  <2>. QED
    BY <2>1, <2>2, <2>3, <2>4
<1>5. CASE Scan
  <2>. USE DEF Scan, SkipLine, TakeChunk, TakeDone, TakeBad, TokenTooLong,
               BodyEnds, ReadFails, Reads, gatewayVars, callerVars
  <2>1. TypeOK'
    BY <1>5 DEF TypeOK, Stops, Failures
  <2>2. Control'
    BY <1>5 DEF Control, Failures
  <2>3. Errors'
    BY <1>5 DEF Control, Errors, PollSeesError, Failures
  <2>4. Reading'
    BY <1>5 DEF Control, Reading, Silent, LastGot, TypeOK
  <2>. QED
    BY <2>1, <2>2, <2>3, <2>4
<1>6. CASE Return
  <2>1. /\ pc \in {"report", "closeBody", "closeCh"}
        /\ pc' \in {"closeBody", "closeCh", "exited"}
        /\ UNCHANGED <<wire, net, rd, caller, got, seen, stop>>
    BY <1>6 DEF Return, Report, CloseBody, CloseChannel, gatewayVars, callerVars
  <2>2. TypeOK'
    <3>1. bodyOpen' \in BOOLEAN /\ chClosed' \in BOOLEAN
      BY <1>6 DEF Return, Report, CloseBody, CloseChannel, TypeOK
    <3>2. errCh' \in Seq(Failures)
      <4>1. CASE Report
        BY <4>1, AppendProperties DEF Report, TypeOK, Control
      <4>2. CASE CloseBody \/ CloseChannel
        BY <4>2 DEF CloseBody, CloseChannel, TypeOK
      <4>. QED
        BY <1>6, <4>1, <4>2 DEF Return
    <3>. QED
      BY <2>1, <3>1, <3>2 DEF TypeOK
  <2>3. Control'
    <3>1. CASE Report
      BY <2>1, <3>1 DEF Report, Control, TypeOK, Failures
    <3>2. CASE CloseBody
      BY <2>1, <3>2 DEF CloseBody, Control
    <3>3. CASE CloseChannel
      BY <2>1, <3>3 DEF CloseChannel, Control
    <3>. QED
      BY <1>6, <3>1, <3>2, <3>3 DEF Return
  <2>4. Errors'
    <3>1. CASE Report
      <4>1. caller # "finished"
        BY <3>1 DEF Report, Control
      <4>2. errCh = <<>> /\ stop \in Failures
        BY <3>1, <4>1 DEF Report, Control, Errors
      <4>3. errCh' = <<stop>>
        BY <3>1, <4>2 DEF Report
      <4>4. pc' \in {"closeBody", "closeCh"}
        BY <3>1 DEF Report
      <4>. QED
        BY <2>1, <4>1, <4>2, <4>3, <4>4 DEF Errors, PollSeesError
    <3>2. CASE CloseBody
      BY <2>1, <3>2 DEF CloseBody, Errors, PollSeesError
    <3>3. CASE CloseChannel
      BY <2>1, <3>3 DEF CloseChannel, Errors, PollSeesError
    <3>. QED
      BY <1>6, <3>1, <3>2, <3>3 DEF Return
  <2>5. Reading'
    BY <2>1 DEF Reading, Silent, LastGot
  <2>. QED
    BY <2>2, <2>3, <2>4, <2>5
<1>7. CASE Handoff
  <2>1. got' \in Seq(Nat) /\ LastGot' = rd
    BY <1>7, AppendSetsLastGot DEF Handoff
  <2>2. pc = "offer" /\ pc' = "scan" /\ caller = "ranging"
    BY <1>7 DEF Handoff
  <2>3. UNCHANGED <<wire, net, rd, bodyOpen, chClosed, errCh, caller, seen, stop>>
    BY <1>7 DEF Handoff, gatewayVars
  <2>4. TypeOK'
    BY <2>1, <2>2, <2>3 DEF TypeOK
  <2>5. Control' /\ Errors'
    BY <2>2, <2>3 DEF Control, Errors, PollSeesError
  <2>6. Reading'
    BY <2>1, <2>2, <2>3 DEF Control, Reading, Silent, TypeOK
  <2>. QED
    BY <2>4, <2>5, <2>6
<1>8. CASE SeeClosed
  BY <1>8 DEF SeeClosed, TypeOK, Control, Errors, PollSeesError, Reading, Silent,
              LastGot, gatewayVars
<1>9. CASE Poll
  <2>1. /\ caller = "polling" /\ caller' = "finished"
        /\ UNCHANGED <<wire, net, rd, pc, bodyOpen, chClosed, got, stop>>
    BY <1>9 DEF Poll, gatewayVars
  <2>2. pc = "exited" /\ seen = "nil"
    BY <2>1 DEF Control, Errors
  <2>3. errCh = IF stop \in Failures THEN <<stop>> ELSE <<>>
    BY <2>1, <2>2 DEF Errors
  <2>4. seen' = (IF stop \in Failures THEN stop ELSE "nil") /\ errCh' = <<>>
    BY <1>9, <2>2, <2>3 DEF Poll
  <2>5. TypeOK'
    BY <2>1, <2>4 DEF TypeOK
  <2>6. Control' /\ Errors'
    BY <2>1, <2>2, <2>4 DEF Control, Errors, PollSeesError
  <2>7. Reading'
    BY <2>1 DEF Reading, Silent, LastGot
  <2>. QED
    BY <2>5, <2>6, <2>7
<1>10. CASE Abandon
  BY <1>10 DEF Abandon, TypeOK, Control, Errors, PollSeesError, Reading, Silent,
               LastGot, gatewayVars
<1>11. CASE UNCHANGED vars
  BY <1>11 DEF vars, TypeOK, Control, Errors, PollSeesError, Reading, Silent, LastGot
<1>. QED
  BY <1>1, <1>2, <1>3, <1>4, <1>5, <1>6, <1>7, <1>8, <1>9, <1>10, <1>11
     DEF Next, Gateway, CallerStep, Terminated

\* The inductive invariant holds in every reachable state.
LEMMA Invariance == Spec => []IInv
BY InitIInv, NextIInv, PTL DEF Spec

-----------------------------------------------------------------------------

\* Every variable keeps its type: in particular the scanner never consumes
\* more lines than the body holds.
THEOREM TypeCorrect == Spec => []TypeOK
BY Invariance, PTL DEF IInv

\* The non-blocking poll after the loop never misses a reported error,
\* because errCh <- err happens before close(ch) and errCh has room for it.
THEOREM ErrorSeen == Spec => []PollSeesError
<1>1. IInv => PollSeesError
  BY DEF IInv, Errors
<1>. QED
  BY <1>1, Invariance, PTL

\* A caller whose loop has ended left no goroutine and no open body behind.
THEOREM Released == Spec => []ReleasedWhenFinished
<1>1. IInv => ReleasedWhenFinished
  BY DEF IInv, Control, ReleasedWhenFinished
<1>. QED
  BY <1>1, Invariance, PTL

\* A stream that reached its done event, or the end of the body, was
\* delivered whole.
THEOREM Whole == Spec => []WholeWhenEnded
<1>1. IInv => WholeWhenEnded
  BY DEF IInv, Reading, Silent, WholeWhenEnded
<1>. QED
  BY <1>1, Invariance, PTL

-----------------------------------------------------------------------------

\* Each step of the goroutine, the gateway and the caller is, for someone who
\* sees only the lines, what was received and the verdict, a step of
\* StreamDelivery or no step at all.
LEMMA StepDelivers ==
  ASSUME IInv, [Next]_vars
  PROVE  [Delivery!Next]_(Delivery!vars)
<1>. USE DEF IInv
<1>1. CASE WriteLine
  <2>1. Delivery!Write
    BY <1>1 DEF WriteLine, Delivery!Write, Kinds, Delivery!Kinds, callerVars
  <2>. QED
    BY <2>1 DEF Delivery!Next
<1>2. CASE Break
  <2>1. CASE wire' = wire
    BY <1>2, <2>1 DEF Break, Delivery!vars, callerVars
  <2>2. CASE \E k \in {"bad", "noise"} : wire' = Append(wire, k)
    <3>1. Delivery!Write
      BY <1>2, <2>2 DEF Break, Delivery!Write, Delivery!Kinds, callerVars
    <3>. QED
      BY <3>1 DEF Delivery!Next
  <2>. QED
    BY <1>2, <2>1, <2>2 DEF Break
<1>3. CASE Handoff
  <2>1. /\ rd \in 1 .. Len(wire)
        /\ Delivery!LastGot < rd
        /\ wire[rd] = "chunk"
        /\ \A i \in Delivery!LastGot + 1 .. rd - 1 : wire[i] = "noise"
    BY <1>3 DEF Handoff, Reading, Silent, LastGot, Delivery!LastGot, TypeOK
  <2>2. Delivery!Deliver
    BY <1>3, <2>1 DEF Handoff, Delivery!Deliver, gatewayVars
  <2>. QED
    BY <2>2 DEF Delivery!Next
<1>4. CASE Poll
  <2>1. Delivery!Conclude
    BY <1>4 DEF Poll, Delivery!Conclude, Delivery!Verdicts, gatewayVars
  <2>. QED
    BY <2>1 DEF Delivery!Next
<1>5. CASE Abandon
  <2>1. Delivery!Conclude
    BY <1>5 DEF Abandon, Delivery!Conclude, Delivery!Verdicts, gatewayVars
  <2>. QED
    BY <2>1 DEF Delivery!Next
<1>6. CASE EndBody
  BY <1>6 DEF EndBody, Delivery!vars, callerVars
<1>7. CASE Dial
  BY <1>7 DEF Dial, RequestFails, Refused, Accepted, Delivery!vars, gatewayVars, callerVars
<1>8. CASE Scan
  BY <1>8 DEF Scan, SkipLine, TakeChunk, TakeDone, TakeBad, TokenTooLong, BodyEnds,
              ReadFails, Delivery!vars, gatewayVars, callerVars
<1>9. CASE Return
  BY <1>9 DEF Return, Report, CloseBody, CloseChannel, Delivery!vars, gatewayVars, callerVars
<1>10. CASE SeeClosed
  BY <1>10 DEF SeeClosed, Delivery!vars, gatewayVars
<1>11. CASE UNCHANGED vars
  BY <1>11 DEF vars, Delivery!vars
<1>. QED
  BY <1>1, <1>2, <1>3, <1>4, <1>5, <1>6, <1>7, <1>8, <1>9, <1>10, <1>11
     DEF Next, Gateway, CallerStep, Terminated

\* ChatStream implements StreamDelivery: chunks are received in the order they
\* were written, none twice, none skipped, and none after the call has ended.
THEOREM DeliveryRefined == Spec => ImplementsDelivery
<1>1. Init => Delivery!Init
  BY DEF Init, Delivery!Init
<1>2. IInv /\ [Next]_vars => [Delivery!Next]_(Delivery!vars)
  BY StepDelivers
<1>. QED
  BY <1>1, <1>2, Invariance, PTL DEF Spec, ImplementsDelivery, Delivery!Spec
=============================================================================

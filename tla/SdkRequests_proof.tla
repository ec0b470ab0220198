------------------------- MODULE SdkRequests_proof --------------------------
(***************************************************************************)
(* Proofs about GoClient and SdkRequests for any sets of addresses,        *)
(* contents and policies and any bounds: their type invariant, SentAsAsked *)
(* for an application that keeps the discipline of ClientAtRest and        *)
(* ContractAtRest, and ExplainedAsRouted without that discipline.          *)
(***************************************************************************)
EXTENDS SdkRequests, TLAPS

CallType == [client : 1 .. Len(clients), asked : Headers, sent : Headers, state : States]

\* A goroutine that has not marshalled yet will marshal what its caller asked
\* for: nobody has touched the client or the contract it will read.
PendingAsAsked ==
  Disciplined =>
    \A n \in 1 .. Len(calls) :
      calls[n].state = "spawned" =>
        calls[n].asked = HeadersOf(clients[calls[n].client])

IInv ==
  /\ TypeOK
  /\ ClientsAsBound
  /\ Disciplined => SentAsAsked
  /\ PendingAsAsked

-----------------------------------------------------------------------------

\* The headers of a client have their type.
LEMMA HeaderTypes ==
  ASSUME heap \in [Ptrs -> Contents], NEW c \in Client
  PROVE  HeadersOf(c) \in Headers
BY PointerAssumption DEF HeadersOf, Headers, Client

\* What the type invariant says of single clients and calls.
LEMMA Elements ==
  ASSUME TypeOK
  PROVE  /\ heap \in [Ptrs -> Contents]
         /\ clients \in Seq(Client) /\ Len(clients) \in Nat
         /\ \A i \in 1 .. Len(clients) : clients[i] \in Client
         /\ calls \in Seq(CallType) /\ Len(calls) \in Nat
         /\ \A n \in 1 .. Len(calls) :
               calls[n] \in CallType /\ calls[n].client \in 1 .. Len(clients)
<1>1. /\ heap \in [Ptrs -> Contents]
      /\ clients \in Seq(Client) /\ calls \in Seq(CallType)
  BY DEF TypeOK, CallType
<1>2. \A i \in 1 .. Len(clients) : clients[i] \in Client
  BY <1>1
<1>3. \A n \in 1 .. Len(calls) : calls[n] \in CallType
  BY <1>1
<1>4. \A c \in CallType : c.client \in 1 .. Len(clients)
  BY DEF CallType
<1> QED
  BY <1>1, <1>2, <1>3, <1>4

\* New binds a client of the right type.
LEMMA NewType == New \in Client
BY PolicyAssumption DEF New, Client

\* A call appended to the others is their last, and changes none of them.
LEMMA AppendedCall ==
  ASSUME TypeOK, Len(calls) < MaxCalls,
         NEW i \in 1 .. Len(clients), NEW asked \in Headers, NEW sent \in Headers,
         NEW state \in States,
         calls' = Append(calls, Call(i, asked, sent, state))
  PROVE  /\ calls' \in Seq(CallType)
         /\ Len(calls') = Len(calls) + 1
         /\ Len(calls') <= MaxCalls
         /\ calls'[Len(calls')] = Call(i, asked, sent, state)
         /\ \A n \in 1 .. Len(calls) : calls'[n] = calls[n]
<1>1. calls \in Seq(CallType) /\ Len(calls) \in Nat /\ MaxCalls \in Nat
  BY CountAssumption DEF TypeOK, CallType
<1>2. Call(i, asked, sent, state) \in CallType
  BY DEF Call, CallType
<1> QED
  BY <1>1, <1>2

\* What a new call must satisfy for the invariant to survive it.
LEMMA NewCallKeeps ==
  ASSUME IInv, Len(calls) < MaxCalls,
         NEW i \in 1 .. Len(clients), NEW asked \in Headers, NEW sent \in Headers,
         NEW state \in States,
         calls' = Append(calls, Call(i, asked, sent, state)),
         UNCHANGED <<heap, clients, bound>>,
         state # "spawned" => sent = asked,
         state = "spawned" => asked = HeadersOf(clients[i])
  PROVE  IInv'
<1>0. TypeOK
  BY DEF IInv
<1>1. /\ calls' \in Seq(CallType)
      /\ Len(calls') = Len(calls) + 1
      /\ Len(calls') <= MaxCalls
      /\ calls'[Len(calls')] = Call(i, asked, sent, state)
      /\ \A n \in 1 .. Len(calls) : calls'[n] = calls[n]
  BY <1>0, AppendedCall
<1>2. Len(calls) \in Nat
  BY <1>0 DEF TypeOK
<1>3. \A n \in 1 .. Len(calls') : n \in 1 .. Len(calls) \/ n = Len(calls')
  BY <1>1, <1>2
<1>4. TypeOK'
  BY <1>0, <1>1 DEF TypeOK, CallType
<1>5. ClientsAsBound'
  BY DEF IInv, ClientsAsBound
<1>6. (Disciplined => SentAsAsked)'
  BY <1>1, <1>3 DEF IInv, SentAsAsked, Call
<1>7. PendingAsAsked'
  BY <1>1, <1>3 DEF IInv, PendingAsAsked, Call, HeadersOf
<1> QED
  BY <1>4, <1>5, <1>6, <1>7 DEF IInv

\* A call that moves on, with what it sent, keeps the invariant if that is what
\* its caller asked for.
LEMMA ReplacedCallKeeps ==
  ASSUME IInv, NEW n \in 1 .. Len(calls), NEW r \in CallType,
         calls' = [calls EXCEPT ![n] = r],
         UNCHANGED <<heap, clients, bound>>,
         r.state # "spawned",
         Disciplined => r.sent = r.asked
  PROVE  IInv'
<1>1. calls \in Seq(CallType)
  BY Elements DEF IInv
<1>2. /\ calls' \in Seq(CallType) /\ Len(calls') = Len(calls)
      /\ calls'[n] = r
      /\ \A k \in 1 .. Len(calls) : k # n => calls'[k] = calls[k]
  BY <1>1
<1>3. TypeOK'
  BY <1>2 DEF IInv, TypeOK, CallType
<1>4. ClientsAsBound'
  BY DEF IInv, ClientsAsBound
<1>5. (Disciplined => SentAsAsked)'
  BY <1>2 DEF IInv, SentAsAsked
<1>6. PendingAsAsked'
  BY <1>2 DEF IInv, PendingAsAsked, HeadersOf
<1> QED
  BY <1>3, <1>4, <1>5, <1>6 DEF IInv

LEMMA InitIInv == Init => IInv
<1> SUFFICES ASSUME Init PROVE IInv
  OBVIOUS
<1>1. New \in Client /\ <<New>> \in Seq(Client) /\ Len(<<New>>) = 1
  BY NewType
<1>2. TypeOK
  BY <1>1, CountAssumption DEF Init, TypeOK
<1> QED
  BY <1>2 DEF Init, IInv, ClientsAsBound, SentAsAsked, PendingAsAsked

\* A client made in addition to the others takes nothing from them, and no call
\* is one of its own yet.
LEMMA NewClientKeeps ==
  ASSUME IInv, NEW cp \in Client,
         Len(clients) < MaxClients,
         clients' = Append(clients, cp), bound' = Append(bound, cp),
         UNCHANGED <<heap, calls>>
  PROVE  IInv'
<1>0. clients \in Seq(Client) /\ Len(clients) \in Nat /\ MaxClients \in Nat
  BY Elements, CountAssumption DEF IInv
<1>2. bound = clients /\ bound' = clients'
  BY DEF IInv, ClientsAsBound
<1>3. /\ clients' \in Seq(Client) /\ Len(clients') = Len(clients) + 1
      /\ Len(clients') \in 1 .. MaxClients
      /\ \A k \in 1 .. Len(clients) : clients'[k] = clients[k]
  BY <1>0
<1>4. calls' = calls /\ heap' = heap
  OBVIOUS
<1>5. TypeOK'
  <2>1. calls \in Seq(CallType)
    BY Elements DEF IInv
  <2>2. CallType \subseteq CallType'
    BY <1>0, <1>3 DEF CallType
  <2>3. calls' \in Seq(CallType')
    BY <2>1, <2>2, <1>4
  <2> QED
    BY <2>3, <1>2, <1>3, <1>4 DEF IInv, TypeOK, CallType
<1>6. (Disciplined => SentAsAsked)'
  BY <1>4 DEF IInv, SentAsAsked
<1>7. PendingAsAsked'
  <2>1. \A n \in 1 .. Len(calls) : calls[n].client \in 1 .. Len(clients)
    BY Elements DEF IInv
  <2> QED
    BY <2>1, <1>3, <1>4 DEF IInv, PendingAsAsked, HeadersOf
<1> QED
  BY <1>2, <1>5, <1>6, <1>7 DEF IInv, ClientsAsBound

LEMMA WithContractKeeps ==
  ASSUME IInv, NEW i \in 1 .. Len(clients), NEW p \in Ptrs, WithContract(i, p)
  PROVE  IInv'
<1> DEFINE cp == [clients[i] EXCEPT !.contract = p]
<1>1. clients[i] \in Client
  BY Elements DEF IInv
<1>2. cp \in Client
  BY <1>1 DEF Client
<1>3. /\ Len(clients) < MaxClients /\ UNCHANGED <<heap, calls>>
      /\ clients' = Append(clients, cp) /\ bound' = Append(bound, cp)
  BY DEF IInv, ClientsAsBound, WithContract
<1> HIDE DEF cp
<1> QED
  BY <1>2, <1>3, NewClientKeeps

LEMMA SetPolicyKeeps ==
  ASSUME IInv, NEW i \in 1 .. Len(clients), NEW name \in Policies, SetPolicy(i, name)
  PROVE  IInv'
<1>1. clients \in Seq(Client) /\ Len(clients) \in Nat /\ clients[i] \in Client
  BY Elements DEF IInv
<1>2. [clients[i] EXCEPT !.policy = name] \in Client
  BY <1>1 DEF Client
<1>3. /\ clients' \in Seq(Client) /\ Len(clients') = Len(clients)
      /\ \A k \in 1 .. Len(clients) : k # i => clients'[k] = clients[k]
  BY <1>1, <1>2 DEF SetPolicy
<1>4. bound' = clients' /\ calls' = calls /\ heap' = heap
  BY DEF IInv, ClientsAsBound, SetPolicy
<1>5. TypeOK'
  BY <1>3, <1>4 DEF IInv, TypeOK
<1>6. (Disciplined => SentAsAsked)'
  BY <1>4 DEF IInv, SentAsAsked
<1>7. PendingAsAsked'
  <2> SUFFICES ASSUME Disciplined, NEW n \in 1 .. Len(calls), calls[n].state = "spawned"
               PROVE  calls[n].asked = HeadersOf(clients[calls[n].client])'
    BY <1>4 DEF PendingAsAsked, HeadersOf
  <2>1. calls[n].client \in 1 .. Len(clients)
    BY Elements DEF IInv
  <2>2. calls[n].client # i
    BY DEF SetPolicy, ClientAtRest, Pending
  <2>3. calls[n].asked = HeadersOf(clients[calls[n].client])
    BY DEF IInv, PendingAsAsked
  <2> QED
    BY <2>1, <2>2, <2>3, <1>3, <1>4 DEF HeadersOf
<1> QED
  BY <1>4, <1>5, <1>6, <1>7 DEF IInv, ClientsAsBound

LEMMA ChangeKeeps ==
  ASSUME IInv, NEW p \in Ptrs, NEW text \in Contents, Change(p, text)
  PROVE  IInv'
<1>1. heap \in [Ptrs -> Contents]
  BY DEF IInv, TypeOK
<1>2. heap' \in [Ptrs -> Contents] /\ \A q \in Ptrs : q # p => heap'[q] = heap[q]
  BY <1>1 DEF Change
<1>3. clients' = clients /\ bound' = bound /\ calls' = calls
  BY DEF Change
<1>4. TypeOK'
  BY <1>2, <1>3 DEF IInv, TypeOK
<1>5. (Disciplined => SentAsAsked)' /\ ClientsAsBound'
  BY <1>3 DEF IInv, SentAsAsked, ClientsAsBound
<1>6. PendingAsAsked'
  <2> SUFFICES ASSUME Disciplined, NEW n \in 1 .. Len(calls), calls[n].state = "spawned"
               PROVE  calls[n].asked = HeadersOf(clients[calls[n].client])'
    BY <1>3 DEF PendingAsAsked, HeadersOf
  <2> DEFINE c == clients[calls[n].client]
  <2>1. c \in Client
    BY Elements DEF IInv
  <2>2. c.contract # p /\ c.contract \in Ptrs \cup {NoPtr}
    BY <2>1 DEF Change, ContractAtRest, Pending, Client
  <2>3. calls[n].asked = HeadersOf(c)
    BY DEF IInv, PendingAsAsked
  <2> QED
    BY <2>2, <2>3, <1>2, <1>3 DEF HeadersOf
<1> QED
  BY <1>4, <1>5, <1>6 DEF IInv

LEMMA DoKeeps ==
  ASSUME IInv, NEW i \in 1 .. Len(clients), Do(i) PROVE IInv'
<1>1. bound[i] = clients[i] /\ clients[i] \in Client /\ heap \in [Ptrs -> Contents]
  BY Elements DEF IInv, ClientsAsBound
<1>2. HeadersOf(clients[i]) \in Headers
  BY <1>1, HeaderTypes
<1>3. /\ Len(calls) < MaxCalls /\ UNCHANGED <<heap, clients, bound>>
      /\ calls' = Append(calls, Call(i, HeadersOf(clients[i]), HeadersOf(clients[i]), "heard"))
  BY <1>1 DEF Do
<1>4. "heard" \in States /\ "heard" # "spawned"
  BY DEF States
<1> QED
  BY <1>2, <1>3, <1>4, NewCallKeeps

LEMMA ExplainKeeps ==
  ASSUME IInv, NEW i \in 1 .. Len(clients), NEW p \in Ptrs \cup {NoPtr},
         NEW name \in Policies, Explain(i, p, name)
  PROVE  IInv'
<1> DEFINE cp == [clients[i] EXCEPT !.contract = p, !.policy = name]
           args == [contract |-> p, policy |-> name]
<1>1. clients[i] \in Client /\ heap \in [Ptrs -> Contents]
  BY Elements DEF IInv
<1>2. cp = args /\ args \in Client
  <2> DEFINE bd == [clients[i] EXCEPT !.contract = p]
  <2>1. PICK q \in Ptrs \cup {NoPtr}, was \in Policies :
           clients[i] = [contract |-> q, policy |-> was]
    BY <1>1 DEF Client
  <2>2. bd = [contract |-> p, policy |-> was]
    BY <2>1
  <2>3. cp = [bd EXCEPT !.policy = name]
    BY Zenon
  <2> HIDE DEF bd, cp
  <2>4. cp = args
    BY <2>2, <2>3
  <2>5. args \in Client
    BY DEF Client
  <2> QED
    BY <2>4, <2>5
<1>3. HeadersOf(args) \in Headers
  BY <1>1, <1>2, HeaderTypes
<1>4. /\ Len(calls) < MaxCalls /\ UNCHANGED <<heap, clients, bound>>
      /\ calls' = Append(calls, Call(i, HeadersOf(args), HeadersOf(cp), "heard"))
  BY DEF Explain
<1>5. calls' = Append(calls, Call(i, HeadersOf(args), HeadersOf(args), "heard"))
  BY <1>2, <1>4
<1>6. "heard" \in States /\ "heard" # "spawned"
  BY DEF States
<1> HIDE DEF args, cp
<1> QED
  BY <1>3, <1>4, <1>5, <1>6, NewCallKeeps

LEMMA ChatStreamKeeps ==
  ASSUME IInv, NEW i \in 1 .. Len(clients), ChatStream(i) PROVE IInv'
<1>1. bound[i] = clients[i] /\ clients[i] \in Client /\ heap \in [Ptrs -> Contents]
  BY Elements DEF IInv, ClientsAsBound
<1>2. HeadersOf(clients[i]) \in Headers /\ HeadersOf(New) \in Headers
  BY <1>1, NewType, HeaderTypes
<1>3. /\ Len(calls) < MaxCalls /\ UNCHANGED <<heap, clients, bound>>
      /\ calls' = Append(calls, Call(i, HeadersOf(clients[i]), HeadersOf(New), "spawned"))
  BY <1>1 DEF ChatStream
<1>4. "spawned" \in States
  BY DEF States
<1> QED
  BY <1>2, <1>3, <1>4, NewCallKeeps

\* A goroutine that marshals sends what the client says now; with the
\* discipline that is what its caller asked for.
LEMMA MarshalKeeps ==
  ASSUME IInv, NEW n \in 1 .. Len(calls), Marshal(n) PROVE IInv'
<1> DEFINE now == HeadersOf(clients[calls[n].client])
           r == [calls[n] EXCEPT !.sent = now, !.state = "sent"]
<1>1. calls \in Seq(CallType) /\ calls[n] \in CallType /\ heap \in [Ptrs -> Contents]
  BY Elements DEF IInv
<1>2. clients[calls[n].client] \in Client
  BY Elements DEF IInv
<1>3. now \in Headers /\ "sent" \in States
  BY <1>1, <1>2, HeaderTypes DEF States
<1>4. calls' = [calls EXCEPT ![n] = r] /\ UNCHANGED <<heap, clients, bound>>
  BY DEF Marshal
<1>5. Disciplined => calls[n].asked = now
  BY DEF Marshal, IInv, PendingAsAsked
<1> HIDE DEF now
<1>6. r \in CallType /\ r.asked = calls[n].asked /\ r.sent = now /\ r.state = "sent"
  BY <1>1, <1>3 DEF CallType
<1> HIDE DEF r
<1> QED
  BY <1>4, <1>5, <1>6, ReplacedCallKeeps

LEMMA HearKeeps ==
  ASSUME IInv, NEW n \in 1 .. Len(calls), Hear(n) PROVE IInv'
<1> DEFINE r == [calls[n] EXCEPT !.state = "heard"]
<1>1. calls[n] \in CallType /\ "heard" \in States
  BY Elements DEF IInv, States
<1>2. calls[n].state = "sent" /\ calls' = [calls EXCEPT ![n] = r]
      /\ UNCHANGED <<heap, clients, bound>>
  BY DEF Hear
<1>3. Disciplined => calls[n].sent = calls[n].asked
  BY <1>2 DEF IInv, SentAsAsked
<1>4. /\ r \in CallType /\ r.asked = calls[n].asked /\ r.sent = calls[n].sent
      /\ r.state = "heard"
  BY <1>1 DEF CallType
<1> HIDE DEF r
<1> QED
  BY <1>2, <1>3, <1>4, ReplacedCallKeeps

LEMMA NextIInv == IInv /\ [Next]_vars => IInv'
<1> SUFFICES ASSUME IInv, [Next]_vars PROVE IInv'
  OBVIOUS
<1>1. ASSUME NEW i \in 1 .. Len(clients), NEW p \in Ptrs, WithContract(i, p) PROVE IInv'
  BY <1>1, WithContractKeeps
<1>2. ASSUME NEW i \in 1 .. Len(clients), NEW name \in Policies, SetPolicy(i, name)
      PROVE  IInv'
  BY <1>2, SetPolicyKeeps
<1>3. ASSUME NEW i \in 1 .. Len(clients), NEW p \in Ptrs \cup {NoPtr},
             NEW name \in Policies, Explain(i, p, name)
      PROVE  IInv'
  BY <1>3, ExplainKeeps
<1>4. ASSUME NEW i \in 1 .. Len(clients), Do(i) PROVE IInv'
  BY <1>4, DoKeeps
<1>5. ASSUME NEW i \in 1 .. Len(clients), ChatStream(i) PROVE IInv'
  BY <1>5, ChatStreamKeeps
<1>6. ASSUME NEW p \in Ptrs, NEW text \in Contents, Change(p, text) PROVE IInv'
  BY <1>6, ChangeKeeps
<1>7. ASSUME NEW n \in 1 .. Len(calls), Marshal(n) PROVE IInv'
  BY <1>7, MarshalKeeps
<1>8. ASSUME NEW n \in 1 .. Len(calls), Hear(n) PROVE IInv'
  BY <1>8, HearKeeps
<1>9. CASE UNCHANGED vars
  BY <1>9 DEF vars, IInv, TypeOK, ClientsAsBound, SentAsAsked, PendingAsAsked, HeadersOf
<1> QED
  BY <1>1, <1>2, <1>3, <1>4, <1>5, <1>6, <1>7, <1>8, <1>9 DEF Next

LEMMA Invariance == Spec => []IInv
<1>1. Init => IInv
  BY InitIInv
<1>2. IInv /\ [Next]_vars => IInv'
  BY NextIInv
<1> QED
  BY <1>1, <1>2, PTL DEF Spec

\* Clients, calls and contracts keep their types, disciplined or not: every
\* header of every request is a contract's text or absent, and a policy.
THEOREM TypeCorrect == Spec => []TypeOK
<1>1. IInv => TypeOK
  BY DEF IInv
<1> QED
  BY <1>1, Invariance, PTL

\* The requests of a disciplined application: every request of Chat, of
\* ChatStream's goroutine and of the explain calls carries the contract and the
\* policy its caller had bound at the call (newRequest, WithContract).
THEOREM Sent == ASSUME Disciplined PROVE Spec => []SentAsAsked
<1>1. IInv => SentAsAsked
  BY DEF IInv
<1> QED
  BY <1>1, Invariance, PTL
-----------------------------------------------------------------------------
(* The three SDKs. *)

Bodies == [contract : Contents \cup {NoHeader}, policy : Policies, asked : Headers]

\* A call whose body names a contract or a policy has sent its headers when the
\* method returns: nothing that happens later gets into them.
SaidInv ==
  /\ sdk \in Sdks
  /\ bodies \in Seq(Bodies)
  /\ Len(bodies) = Len(calls)
  /\ \A n \in 1 .. Len(calls) : bodies[n] # Silent => calls[n].state = "heard"
  /\ ExplainedAsRouted

SdkInv == IInv /\ SaidInv

LEMMA SilentType == Silent \in Bodies
BY PolicyAssumption DEF Silent, Bodies, Headers

\* A call of a client with the body b.
LEMMA SaidKeeps ==
  ASSUME IInv, SaidInv, NEW b \in Bodies, NEW c,
         calls' = Append(calls, c), Says(b),
         b # Silent => c.state = "heard",
         sdk # "go" /\ b # Silent =>
           /\ b.contract = b.asked.contract
           /\ b.policy = IF b.asked.policy = NoPolicy THEN c.sent.policy
                         ELSE b.asked.policy
  PROVE  SaidInv'
<1>1. /\ bodies \in Seq(Bodies) /\ Len(bodies) = Len(calls) /\ Len(calls) \in Nat
      /\ calls \in Seq(CallType)
  BY Elements DEF IInv, SaidInv
<1>2. bodies' = Append(bodies, b) /\ sdk' = sdk
  BY DEF Says
<1>3. /\ Len(calls') = Len(calls) + 1 /\ calls'[Len(calls')] = c
      /\ \A n \in 1 .. Len(calls) : calls'[n] = calls[n]
  BY <1>1
<1>4. /\ bodies' \in Seq(Bodies) /\ Len(bodies') = Len(calls')
      /\ bodies'[Len(calls')] = b
      /\ \A n \in 1 .. Len(calls) : bodies'[n] = bodies[n]
  BY <1>1, <1>2, <1>3
<1>5. \A n \in 1 .. Len(calls') : n \in 1 .. Len(calls) \/ n = Len(calls')
  BY <1>1, <1>3
<1>6. \A n \in 1 .. Len(calls') : bodies'[n] # Silent => calls'[n].state = "heard"
  BY <1>3, <1>4, <1>5 DEF SaidInv
<1>7. ExplainedAsRouted'
  BY <1>2, <1>3, <1>4, <1>5 DEF SaidInv, ExplainedAsRouted
<1> QED
  BY <1>2, <1>4, <1>6, <1>7 DEF SaidInv

\* A step without a call, that at most changes what a goroutine that has not
\* been heard of is about to send.
LEMMA UnsaidKeeps ==
  ASSUME SaidInv, NoCall, Len(calls') = Len(calls),
         \A n \in 1 .. Len(calls) : calls[n].state = "heard" => calls'[n] = calls[n]
  PROVE  SaidInv'
<1>1. bodies' = bodies /\ sdk' = sdk
  BY DEF NoCall
<1>2. \A n \in 1 .. Len(calls) : bodies[n] # Silent => calls'[n] = calls[n]
  BY DEF SaidInv
<1>3. ExplainedAsRouted'
  BY <1>1, <1>2 DEF SaidInv, ExplainedAsRouted
<1> QED
  BY <1>1, <1>2, <1>3 DEF SaidInv
\* A call without a contract or a policy in its body.
LEMMA SilentKeeps ==
  ASSUME SdkInv, NEW c, calls' = Append(calls, c), Says(Silent) PROVE SaidInv'
BY SilentType, SaidKeeps DEF SdkInv

\* The one of the client, unless another was named.
LEMMA PolicyOrType ==
  ASSUME TypeOK, NEW i \in 1 .. Len(clients), NEW name \in Policies
  PROVE  PolicyOr(i, name) \in Policies
<1>1. clients[i] \in Client
  BY Elements
<1> QED
  BY <1>1 DEF PolicyOr, Client

LEMMA ConstructKeeps ==
  ASSUME SdkInv, NEW p \in Ptrs \cup {NoPtr}, NEW name \in Policies, Construct(p, name)
  PROVE  SdkInv'
<1> DEFINE cp == [contract |-> p, policy |-> name]
<1>1. cp \in Client
  BY DEF Client
<1>2. /\ Len(clients) < MaxClients /\ UNCHANGED <<heap, calls>> /\ NoCall
      /\ clients' = Append(clients, cp) /\ bound' = Append(bound, cp)
  BY DEF Construct
<1> HIDE DEF cp
<1>3. IInv'
  BY <1>1, <1>2, NewClientKeeps DEF SdkInv
<1>4. SaidInv'
  BY <1>2, UnsaidKeeps DEF SdkInv
<1> QED
  BY <1>3, <1>4 DEF SdkInv

LEMMA ExplainInBodyKeeps ==
  ASSUME SdkInv, NEW i \in 1 .. Len(clients), NEW p \in Ptrs, NEW name \in Policies,
         ExplainInBody(i, p, name)
  PROVE  SdkInv'
<1> DEFINE b == [contract |-> heap[p], policy |-> PolicyOr(i, name),
                 asked |-> [contract |-> heap[p], policy |-> name]]
           c == Call(i, HeadersOf(bound[i]), HeadersOf(clients[i]), "heard")
<1>1. Do(i) /\ Says(b) /\ calls' = Append(calls, c)
  BY DEF ExplainInBody, Do
<1>2. heap[p] \in Contents /\ TypeOK
  BY DEF SdkInv, IInv, TypeOK
<1>3. b \in Bodies
  BY <1>2, PolicyOrType DEF Bodies, Headers
<1>4. c.state = "heard" /\ c.sent.policy = clients[i].policy
  BY DEF Call, HeadersOf
<1>5. /\ b.contract = b.asked.contract
      /\ b.policy = IF b.asked.policy = NoPolicy THEN c.sent.policy ELSE b.asked.policy
  BY <1>4 DEF PolicyOr
<1>6. IInv'
  BY <1>1, DoKeeps DEF SdkInv
<1> HIDE DEF b, c
<1>7. SaidInv'
  BY <1>1, <1>3, <1>4, <1>5, SaidKeeps DEF SdkInv
<1> QED
  BY <1>6, <1>7 DEF SdkInv

LEMMA ReplayKeeps ==
  ASSUME SdkInv, NEW i \in 1 .. Len(clients), NEW name \in Policies, Replay(i, name)
  PROVE  SdkInv'
<1> DEFINE policy == IF sdk = "go" THEN name ELSE PolicyOr(i, name)
           b == [contract |-> NoHeader, policy |-> policy,
                 asked |-> [contract |-> NoHeader, policy |-> name]]
           c == Call(i, HeadersOf(bound[i]), HeadersOf(clients[i]), "heard")
<1>1. Do(i) /\ Says(b) /\ calls' = Append(calls, c)
  BY DEF Replay, Do
<1>2. policy \in Policies
  BY PolicyOrType DEF SdkInv, IInv
<1>3. b \in Bodies
  BY <1>2 DEF Bodies, Headers
<1>4. c.state = "heard" /\ c.sent.policy = clients[i].policy
  BY DEF Call, HeadersOf
<1>5. sdk # "go" => policy = IF name = NoPolicy THEN c.sent.policy ELSE name
  BY <1>4 DEF PolicyOr
<1>6. IInv'
  BY <1>1, DoKeeps DEF SdkInv
<1>7. /\ b.contract = b.asked.contract
      /\ sdk # "go" => b.policy = IF b.asked.policy = NoPolicy THEN c.sent.policy
                                  ELSE b.asked.policy
  BY <1>5
<1> HIDE DEF b, c
<1>8. SaidInv'
  BY <1>1, <1>3, <1>4, <1>7, SaidKeeps DEF SdkInv
<1> QED
  BY <1>6, <1>8 DEF SdkInv

LEMMA MovedOnKeeps ==
  ASSUME SdkInv, NEW n \in 1 .. Len(calls), Marshal(n) \/ Hear(n), NoCall
  PROVE  SdkInv'
<1>1. IInv'
  BY MarshalKeeps, HearKeeps DEF SdkInv
<1>2. calls \in Seq(CallType)
  BY Elements DEF SdkInv, IInv
<1>3. /\ calls[n].state # "heard"
      /\ Len(calls') = Len(calls)
      /\ \A k \in 1 .. Len(calls) : k # n => calls'[k] = calls[k]
  BY <1>2 DEF Marshal, Hear
<1>4. SaidInv'
  BY <1>3, UnsaidKeeps DEF SdkInv
<1> QED
  BY <1>1, <1>4 DEF SdkInv

LEMMA NextSdkInv == SdkInv /\ [SdkNext]_sdkVars => SdkInv'
<1> SUFFICES ASSUME SdkInv, [SdkNext]_sdkVars PROVE SdkInv'
  OBVIOUS
<1>1. ASSUME NEW i \in 1 .. Len(clients), NEW p \in Ptrs, WithContract(i, p), NoCall
      PROVE  SdkInv'
  <2>1. IInv' /\ calls' = calls
    BY <1>1, WithContractKeeps DEF SdkInv, WithContract
  <2> QED
    BY <1>1, <2>1, UnsaidKeeps DEF SdkInv
<1>2. ASSUME NEW i \in 1 .. Len(clients), NEW name \in Policies, Assign(i, name)
      PROVE  SdkInv'
  <2>1. IInv' /\ calls' = calls /\ NoCall
    BY <1>2, SetPolicyKeeps DEF SdkInv, SetPolicy, Assign
  <2> QED
    BY <2>1, UnsaidKeeps DEF SdkInv
<1>3. ASSUME NEW i \in 1 .. Len(clients), NEW name \in Policies, Replay(i, name)
      PROVE  SdkInv'
  BY <1>3, ReplayKeeps
<1>4. ASSUME NEW i \in 1 .. Len(clients), NEW p \in Ptrs \cup {NoPtr},
             NEW name \in Policies, GoExplain(i, p, name)
      PROVE  SdkInv'
  <2>1. IInv' /\ Says(Silent)
    BY <1>4, ExplainKeeps DEF SdkInv, GoExplain
  <2>2. PICK c : calls' = Append(calls, c)
    BY <1>4 DEF GoExplain, Explain
  <2> QED
    BY <2>1, <2>2, SilentKeeps DEF SdkInv
<1>5. ASSUME NEW i \in 1 .. Len(clients), NEW p \in Ptrs, NEW name \in Policies,
             ExplainInBody(i, p, name)
      PROVE  SdkInv'
  BY <1>5, ExplainInBodyKeeps
<1>6. ASSUME NEW i \in 1 .. Len(clients), Do(i) \/ ChatStream(i), Says(Silent)
      PROVE  SdkInv'
  <2>1. IInv'
    BY <1>6, DoKeeps, ChatStreamKeeps DEF SdkInv
  <2>2. PICK c : calls' = Append(calls, c)
    BY <1>6 DEF Do, ChatStream
  <2> QED
    BY <1>6, <2>1, <2>2, SilentKeeps DEF SdkInv
<1>7. ASSUME NEW p \in Ptrs \cup {NoPtr}, NEW name \in Policies, Construct(p, name)
      PROVE  SdkInv'
  BY <1>7, ConstructKeeps
<1>8. ASSUME NEW p \in Ptrs, NEW text \in Contents, Change(p, text), NoCall
      PROVE  SdkInv'
  <2>1. IInv' /\ calls' = calls
    BY <1>8, ChangeKeeps DEF SdkInv, Change
  <2> QED
    BY <1>8, <2>1, UnsaidKeeps DEF SdkInv
<1>9. ASSUME NEW n \in 1 .. Len(calls), Marshal(n) \/ Hear(n), NoCall
      PROVE  SdkInv'
  BY <1>9, MovedOnKeeps
<1>10. CASE UNCHANGED sdkVars
  <2>1. IInv' /\ calls' = calls /\ NoCall
    BY <1>10, NextIInv DEF sdkVars, SdkInv, NoCall, vars
  <2> QED
    BY <2>1, UnsaidKeeps DEF SdkInv
<1> QED
  BY <1>1, <1>2, <1>3, <1>4, <1>5, <1>6, <1>7, <1>8, <1>9, <1>10 DEF SdkNext

LEMMA SdkInvariance == SdkSpec => []SdkInv
<1>1. SdkInit => SdkInv
  <2> SUFFICES ASSUME SdkInit PROVE SdkInv
    OBVIOUS
  <2>1. IInv /\ calls = <<>> /\ bodies = <<>> /\ sdk \in Sdks
    BY InitIInv DEF SdkInit, Init
  <2> QED
    BY <2>1 DEF SdkInv, SaidInv, ExplainedAsRouted
<1>2. SdkInv /\ [SdkNext]_sdkVars => SdkInv'
  BY NextSdkInv
<1> QED
  BY <1>1, <1>2, PTL DEF SdkSpec

\* The same types with the three SDKs' ways of making clients and of calling.
THEOREM SdkTypes == SdkSpec => []TypeOK
<1>1. SdkInv => TypeOK
  BY DEF SdkInv, IInv
<1> QED
  BY <1>1, SdkInvariance, PTL

\* Whatever the SDK, every request of a disciplined application carries the
\* contract and the policy its caller had bound at the call (newRequest,
\* _headers, headers).
THEOREM SdkSent == ASSUME Disciplined PROVE SdkSpec => []SentAsAsked
<1>1. SdkInv => SentAsAsked
  BY DEF SdkInv, IInv
<1> QED
  BY <1>1, SdkInvariance, PTL

\* An explain call or a replay of Python or TypeScript is judged under the
\* policy in the headers of the same request, unless it names another one; for
\* any application, disciplined or not.
THEOREM Explained == SdkSpec => []ExplainedAsRouted
<1>1. SdkInv => ExplainedAsRouted
  BY DEF SdkInv, SaidInv
<1> QED
  BY <1>1, SdkInvariance, PTL
=============================================================================

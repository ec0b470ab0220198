------------------------------ MODULE GoClient ------------------------------
(***************************************************************************)
(* What a request of the Go SDK carries (sdk/go/client/client.go).  Clients *)
(* are values with a pointer to a Contract; WithContract, ValidateContract *)
(* and EligibleCandidates work on a shallow copy.  Every call builds its   *)
(* headers from the client and from the contract it points to: Chat and    *)
(* the rest before they return, ChatStream in a goroutine of its own, some *)
(* time after it has returned.  In between the application goes on: it     *)
(* makes clones, sets PolicyName, changes the contract, calls again.       *)
(***************************************************************************)
EXTENDS Naturals, Sequences

CONSTANTS
  Ptrs,        \* addresses of Contract values
  NoPtr,       \* the nil pointer
  Contents,    \* what a Contract may say
  Policies,    \* policy names; NoPolicy is the empty one
  NoPolicy,
  MaxClients,  \* bounds on the clients and calls of a behaviour
  MaxCalls,
  Disciplined  \* whether the application leaves alone what a stream still uses

ASSUME PointerAssumption == NoPtr \notin Ptrs
ASSUME PolicyAssumption == NoPolicy \in Policies
ASSUME CountAssumption == MaxClients \in Nat \ {0} /\ MaxCalls \in Nat
ASSUME DisciplineAssumption == Disciplined \in BOOLEAN

VARIABLES
  heap,     \* the contract at each address
  clients,  \* the Client values, in the order they were made
  calls,    \* the calls, in the order they were made
  bound     \* history: what the application bound each client to

vars == <<heap, clients, calls, bound>>

Client == [contract : Ptrs \cup {NoPtr}, policy : Policies]

\* The two headers: the contract's text, absent if nil, and the policy's name,
\* absent if empty.
NoHeader == "absent"
Headers == [contract : Contents \cup {NoHeader}, policy : Policies]

\* Mutant of HeadersOf: no nil check; json.Marshal turns a nil pointer into null.
HeadersOfNull(c) ==
  [contract |-> IF c.contract = NoPtr THEN "null" ELSE heap[c.contract],
   policy   |-> c.policy]

\* newRequest: marshals what the client points to now.
HeadersOf(c) ==
  [contract |-> IF c.contract = NoPtr THEN NoHeader ELSE heap[c.contract],
   policy   |-> c.policy]

\* New binds neither contract nor policy.
New == [contract |-> NoPtr, policy |-> NoPolicy]

Init ==
  /\ heap \in [Ptrs -> Contents]
  /\ clients = <<New>>
  /\ calls = <<>>
  /\ bound = <<New>>

-----------------------------------------------------------------------------
(* The application between calls. *)

\* A goroutine of ChatStream may not have marshalled yet, for all the
\* application knows: nothing has arrived on its channels.
Pending == {n \in 1 .. Len(calls) : calls[n].state # "heard"}

ClientAtRest(i) == Disciplined => \A n \in Pending : calls[n].client # i

ContractAtRest(p) ==
  Disciplined => \A n \in Pending : clients[calls[n].client].contract # p

\* Mutant of WithContract: c.Contract = ct; return c.
WithContractInPlace(i, p) ==
  /\ Len(clients) < MaxClients
  /\ clients' = Append([clients EXCEPT ![i].contract = p],
                       [clients[i] EXCEPT !.contract = p])
  /\ bound' = Append(bound, [bound[i] EXCEPT !.contract = p])
  /\ UNCHANGED <<heap, calls>>

WithContract(i, p) ==
  /\ Len(clients) < MaxClients
  /\ clients' = Append(clients, [clients[i] EXCEPT !.contract = p])
  /\ bound' = Append(bound, [bound[i] EXCEPT !.contract = p])
  /\ UNCHANGED <<heap, calls>>

\* cc.PolicyName = name
SetPolicy(i, name) ==
  /\ ClientAtRest(i)
  /\ clients' = [clients EXCEPT ![i].policy = name]
  /\ bound' = [bound EXCEPT ![i].policy = name]
  /\ UNCHANGED <<heap, calls>>

\* The application changes the contract it has bound, through its own pointer.
Change(p, text) ==
  /\ ContractAtRest(p)
  /\ heap' = [heap EXCEPT ![p] = text]
  /\ UNCHANGED <<clients, calls, bound>>

-----------------------------------------------------------------------------
(* Calls. *)

\* A call of client i asked for with the headers asked; sent are those of its
\* request, once it has one.
Call(i, asked, sent, state) ==
  [client |-> i, asked |-> asked, sent |-> sent, state |-> state]

States == {"spawned", "sent", "heard"}

\* Chat, Embeddings, GetDecision, Decisions, Train, Replay and Usage.
Do(i) ==
  /\ Len(calls) < MaxCalls
  /\ calls' = Append(calls, Call(i, HeadersOf(bound[i]), HeadersOf(clients[i]), "heard"))
  /\ UNCHANGED <<heap, clients, bound>>

\* Mutant of Explain: no copy, c.Contract and c.PolicyName are assigned.
ExplainInPlace(i, p, name) ==
  /\ Len(calls) < MaxCalls
  /\ LET cp == [clients[i] EXCEPT !.contract = p, !.policy = name]
     IN  /\ calls' = Append(calls, Call(i, HeadersOf(cp), HeadersOf(cp), "heard"))
         /\ clients' = [clients EXCEPT ![i] = cp]
  /\ UNCHANGED <<heap, bound>>

\* ValidateContract and EligibleCandidates: the contract and the policy of the
\* arguments, on a copy; an empty name replaces the client's policy as well.
Explain(i, p, name) ==
  /\ Len(calls) < MaxCalls
  /\ LET cp == [clients[i] EXCEPT !.contract = p, !.policy = name]
     IN  calls' = Append(calls,
           Call(i, HeadersOf([contract |-> p, policy |-> name]), HeadersOf(cp),
                "heard"))
  /\ UNCHANGED <<heap, clients, bound>>

\* ChatStream returns its channels at once.
ChatStream(i) ==
  /\ Len(calls) < MaxCalls
  /\ calls' = Append(calls, Call(i, HeadersOf(bound[i]), HeadersOf(New), "spawned"))
  /\ UNCHANGED <<heap, clients, bound>>

\* The goroutine of call n runs newRequest.
Marshal(n) ==
  /\ calls[n].state = "spawned"
  /\ calls' = [calls EXCEPT ![n].sent = HeadersOf(clients[calls[n].client]),
                            ![n].state = "sent"]
  /\ UNCHANGED <<heap, clients, bound>>

\* The application receives a chunk, an error or the close of the channel.
Hear(n) ==
  /\ calls[n].state = "sent"
  /\ calls' = [calls EXCEPT ![n].state = "heard"]
  /\ UNCHANGED <<heap, clients, bound>>

Next ==
  \/ \E i \in 1 .. Len(clients) :
       \/ \E p \in Ptrs : WithContract(i, p)
       \/ \E name \in Policies : SetPolicy(i, name)
       \/ \E p \in Ptrs \cup {NoPtr}, name \in Policies : Explain(i, p, name)
       \/ Do(i)
       \/ ChatStream(i)
  \/ \E p \in Ptrs, text \in Contents : Change(p, text)
  \/ \E n \in 1 .. Len(calls) : Marshal(n) \/ Hear(n)

Spec == Init /\ [][Next]_vars

-----------------------------------------------------------------------------
(* Properties. *)

TypeOK ==
  /\ heap \in [Ptrs -> Contents]
  /\ clients \in Seq(Client)
  /\ bound \in Seq(Client)
  /\ Len(clients) = Len(bound)
  /\ Len(clients) \in 1 .. MaxClients
  /\ calls \in Seq([client : 1 .. Len(clients), asked : Headers,
                    sent : Headers, state : States])
  /\ Len(calls) <= MaxCalls

\* Every request carries the contract and the policy its caller had bound, as
\* they were when it called: no clone, no call of a sibling and no explain call
\* in between gets into it.  A stream has this only from an application that
\* leaves the client and its contract alone until something has arrived.
SentAsAsked ==
  \A n \in 1 .. Len(calls) :
    calls[n].state # "spawned" => calls[n].sent = calls[n].asked

\* What a client holds is what the application bound it to, at any time: the
\* calls leave no trace in the client they are made on.
ClientsAsBound == clients = bound
=============================================================================

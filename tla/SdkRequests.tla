----------------------------- MODULE SdkRequests ----------------------------
(***************************************************************************)
(* What a request of any of the three SDKs carries.  The Go client is that *)
(* of GoClient.  A Python or TypeScript client (client.py, index.ts) is    *)
(* bound when it is made and has no clones; its explain calls send the     *)
(* contract and the policy they are about in the body, next to the headers *)
(* of the client; and its stream is a generator, which builds its request  *)
(* when the first chunk is asked for.                                      *)
(***************************************************************************)
EXTENDS GoClient

CONSTANT Sdks   \* the SDKs an application may use; it uses one
ASSUME SdkAssumption == Sdks \subseteq {"go", "python", "typescript"}

VARIABLES
  sdk,     \* the SDK in use, never changed
  bodies   \* for each call, what its body says of contract and policy

sdkVars == <<vars, sdk, bodies>>

\* No contract and no policy in the body; asked is what the application named,
\* with NoPolicy for no name.
Silent == [contract |-> NoHeader, policy |-> NoPolicy,
           asked |-> [contract |-> NoHeader, policy |-> NoPolicy]]

SdkInit == Init /\ sdk \in Sdks /\ bodies = <<>>

-----------------------------------------------------------------------------

\* The body of the call made in this step.
Says(b) == bodies' = Append(bodies, b) /\ UNCHANGED sdk

NoCall == UNCHANGED <<sdk, bodies>>

\* The constructor binds the contract, by reference, and the policy.
Construct(p, name) ==
  /\ sdk # "go"
  /\ Len(clients) < MaxClients
  /\ clients' = Append(clients, [contract |-> p, policy |-> name])
  /\ bound' = Append(bound, [contract |-> p, policy |-> name])
  /\ UNCHANGED <<heap, calls>>
  /\ NoCall

\* Mutant of PolicyOr: the client's policy is forgotten.
PolicyOrNone(i, name) == name

\* policy or self.policy; policy || this.policy
PolicyOr(i, name) == IF name = NoPolicy THEN clients[i].policy ELSE name

\* validate and eligible, whose arguments go into the body.
ExplainInBody(i, p, name) ==
  /\ sdk # "go"
  /\ Do(i)
  /\ Says([contract |-> heap[p], policy |-> PolicyOr(i, name),
           asked |-> [contract |-> heap[p], policy |-> name]])

\* replay has a policy in its body; the Go client takes the argument as it is.
Replay(i, name) ==
  /\ Do(i)
  /\ Says([contract |-> NoHeader,
           policy |-> IF sdk = "go" THEN name ELSE PolicyOr(i, name),
           asked |-> [contract |-> NoHeader, policy |-> name]])

\* The explain calls of Go send no body at all.
GoExplain(i, p, name) == sdk = "go" /\ Explain(i, p, name) /\ Says(Silent)

\* Attributes of a Python client may be assigned, those of TypeScript are private.
Assign(i, name) == sdk # "typescript" /\ SetPolicy(i, name) /\ NoCall

SdkNext ==
  \/ \E i \in 1 .. Len(clients) :
       \/ \E p \in Ptrs : sdk = "go" /\ WithContract(i, p) /\ NoCall
       \/ \E name \in Policies : Assign(i, name) \/ Replay(i, name)
       \/ \E p \in Ptrs \cup {NoPtr}, name \in Policies : GoExplain(i, p, name)
       \/ \E p \in Ptrs, name \in Policies : ExplainInBody(i, p, name)
       \/ (Do(i) \/ ChatStream(i)) /\ Says(Silent)
  \/ \E p \in Ptrs \cup {NoPtr}, name \in Policies : Construct(p, name)
  \/ \E p \in Ptrs, text \in Contents : Change(p, text) /\ NoCall
  \/ \E n \in 1 .. Len(calls) : (Marshal(n) \/ Hear(n)) /\ NoCall

SdkSpec == SdkInit /\ [][SdkNext]_sdkVars

-----------------------------------------------------------------------------
(* Properties. *)

\* In Python and TypeScript a contract is explained under the policy a chat of
\* the same client would be routed by, unless another one was named; and the
\* contract explained is the one of the argument, whatever the client is bound
\* to.  (In Go an explain call without a name is judged without a policy.)
ExplainedAsRouted ==
  \A n \in 1 .. Len(calls) :
    LET b == bodies[n]
    IN  sdk # "go" /\ b # Silent =>
          /\ b.contract = b.asked.contract
          /\ b.policy = IF b.asked.policy = NoPolicy THEN calls[n].sent.policy
                        ELSE b.asked.policy
=============================================================================

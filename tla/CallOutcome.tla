---------------------------- MODULE CallOutcome -----------------------------
(***************************************************************************)
(* One call of an SDK that is not a stream, from the request to what the   *)
(* application is told: do, mapError and the methods on top of them in Go, *)
(* _request and its callers in Python, request and its callers in          *)
(* TypeScript.  They differ in the tables of what becomes of a body.       *)
(*                                                                         *)
(* The gateway may answer anything, at any time, or not at all.  A reply   *)
(* is a class of status with a class of body; wording, numbers and the     *)
(* fields of an answer are left out.                                       *)
(***************************************************************************)
EXTENDS Naturals

CONSTANTS
  Sdks,      \* the SDKs an application may use; it uses one
  Ops,       \* the methods the application calls
  MaxCalls   \* bound on the calls of a behaviour (the program has none)

AllOps == {"chat", "embeddings", "validate", "eligible", "decisions",
           "get_decision", "usage", "train", "replay"}

ASSUME SdksAssumption == Sdks \subseteq {"go", "python", "typescript"}
ASSUME OpsAssumption == Ops \subseteq AllOps
ASSUME MaxCallsAssumption == MaxCalls \in Nat

\* Bodies of a success: the whole answer; one whose parts are there but empty,
\* like the choices: [{}] that the OpenAPI file allows; an object without any of
\* the keys; an array, which is the answer of usage; null; no byte at all; text
\* that is not JSON.
Answers == {"answer", "shallow", "bare", "array", "null", "empty", "garbage"}

\* Bodies of an error.  The first is the UnsatisfiableContract of the OpenAPI
\* file, whose failed_gates are objects; then the same with strings, and with
\* none; another JSON error object; an error that is a string; JSON that is no
\* object; text that is not JSON.
Refusals == {"gateObjects", "gateStrings", "gateless", "otherError",
             "stringError", "array", "garbage"}

Unsatisfiable == {"gateObjects", "gateStrings", "gateless"}

Replies == {"ok"} \X Answers \cup {"422", "failure"} \X Refusals

\* What the application gets: an answer; a value that holds none; an
\* unsatisfiable contract, with or without the gates that failed; the SDK's
\* error for a status or for an empty answer; the error of the HTTP library or
\* of the JSON parser; or an exception no layer foresaw.
Outcomes == {"answer", "hollow", "unsatisfiable", "unsatisfiableNoGates",
             "httpError", "emptyError", "transport", "parseError", "crash"}

VARIABLES
  sdk,      \* the SDK in use, never changed
  pc,       \* "idle", "waiting", "reading", "mapping"
  op,       \* the method of the current call
  reply,    \* the reply to it, once the status line is there
  net,      \* the connection of the call: "up" or "failed"
  outcome,  \* what the last finished call came to
  count     \* the calls made

vars == <<sdk, pc, op, reply, net, outcome, count>>

NoReply == <<"none", "none">>

Init ==
  /\ sdk \in Sdks
  /\ pc = "idle"
  /\ op = "none"
  /\ reply = NoReply
  /\ net = "up"
  /\ outcome = "none"
  /\ count = 0

Ask ==
  /\ pc = "idle"
  /\ count < MaxCalls
  /\ op' \in Ops
  /\ count' = count + 1
  /\ pc' = "waiting"
  /\ reply' = NoReply
  /\ net' = "up"
  /\ outcome' = "none"
  /\ UNCHANGED sdk

-----------------------------------------------------------------------------
(* The gateway and the network. *)

Answer ==
  /\ pc = "waiting" /\ net = "up"
  /\ reply' \in Replies
  /\ pc' = "reading"
  /\ UNCHANGED <<sdk, op, net, outcome, count>>

\* Mutant of Fail: no timeout before the status line, only the body can break.
FailInBody ==
  /\ pc = "reading" /\ net = "up"
  /\ net' = "failed"
  /\ UNCHANGED <<sdk, pc, op, reply, outcome, count>>

\* The connection is refused or reset, the context is cancelled, or the
\* timeout of the client runs out, before the reply or inside its body.  It is
\* that of the whole call in Go and TypeScript, of one read in Python.
Fail ==
  /\ pc \in {"waiting", "reading"} /\ net = "up"
  /\ net' = "failed"
  /\ UNCHANGED <<sdk, pc, op, reply, outcome, count>>

-----------------------------------------------------------------------------
(* The SDK. *)

Return(result) ==
  /\ outcome' = result
  /\ pc' = "idle"
  /\ UNCHANGED <<sdk, op, reply, net, count>>

\* Mutant of GiveUp: the error of ReadAll is ignored, as ChatStream
\* does for a refused request; what had arrived is taken for the body.
GiveUpIgnored ==
  /\ pc \in {"waiting", "reading"}
  /\ net = "failed"
  /\ IF pc = "waiting" THEN Return("transport")
     ELSE /\ pc' = "mapping"
          /\ reply' = <<reply[1], "bare">>
          /\ UNCHANGED <<sdk, op, net, outcome, count>>

\* HTTP.Do, urlopen or fetch fails, or the body cannot be read to its end.
GiveUp ==
  /\ pc \in {"waiting", "reading"}
  /\ net = "failed"
  /\ Return("transport")

\* The gateway has finished the body, and it has been read to its end.
Read ==
  /\ pc = "reading"
  /\ net = "up"
  /\ pc' = "mapping"
  /\ UNCHANGED <<sdk, op, reply, net, outcome, count>>

\* The whole answer of the current method.
WholeAnswer(body) == body = "answer" \/ (body = "array" /\ op = "usage")

\* json.Unmarshal into the result type, which null leaves as it is.  The result
\* of GetDecision is the raw text of whatever JSON arrived, that of Usage an
\* array, all others are objects.
GoSuccess(body) ==
  CASE WholeAnswer(body) -> "answer"
    [] body \in {"empty", "garbage"} -> "parseError"
    [] body = "array" /\ op \notin {"usage", "get_decision"} -> "parseError"
    [] body = "bare" /\ op = "usage" -> "parseError"
    [] body \in {"bare", "null"} /\ op = "chat" -> "emptyError"
    [] OTHER -> "hollow"

\* The Python methods that return what json.loads gave, without looking at it.
PyReturnedAsIs == {"get_decision", "usage", "train"}

\* json.loads(body) if body else {}.  The callers read the keys with a default,
\* but of an object only; choices[0]["message"] has none, and StrategyResult(**{})
\* lacks its one required argument.
PySuccess(body) ==
  CASE WholeAnswer(body) -> "answer"
    [] body = "garbage" -> "parseError"
    [] body \in {"array", "null"} /\ op \notin PyReturnedAsIs -> "crash"
    [] body \in {"shallow", "bare", "empty"} /\ op = "replay" -> "crash"
    [] body = "shallow" /\ op = "chat" -> "crash"
    [] body \in {"bare", "empty"} /\ op = "chat" -> "emptyError"
    [] OTHER -> "hollow"

\* The TypeScript methods that read a property of the result.
TsRead == {"chat", "eligible", "embeddings", "decisions"}

\* text ? JSON.parse(text) : {}, taken for the result type without a check: a
\* missing property is undefined, but null has none, and neither has the message
\* of an empty choice.
TsSuccess(body) ==
  CASE WholeAnswer(body) -> "answer"
    [] body = "garbage" -> "parseError"
    [] body = "null" /\ op \in TsRead -> "crash"
    [] body = "shallow" /\ op = "chat" -> "crash"
    [] body \in {"bare", "array", "empty"} /\ op = "chat" -> "emptyError"
    [] OTHER -> "hollow"

MapSuccess ==
  /\ pc = "mapping"
  /\ reply[1] = "ok"
  /\ Return(CASE sdk = "go" -> GoSuccess(reply[2])
              [] sdk = "python" -> PySuccess(reply[2])
              [] sdk = "typescript" -> TsSuccess(reply[2]))

\* Mutant of GoRefusal: the type of the error is not compared.
GoRefusalAnyType(body) ==
  IF op \notin {"chat", "embeddings"} THEN "httpError"
  ELSE CASE body = "gateStrings" -> "unsatisfiable"
         [] body \in {"gateless", "otherError"} -> "unsatisfiableNoGates"
         [] OTHER -> "httpError"

\* mapError, in Chat and Embeddings only: the status is not looked at, the
\* type is.  FailedGates is []string, so gates that are objects do not decode
\* and the call ends like any other refusal.
GoRefusal(body) ==
  IF op \notin {"chat", "embeddings"} THEN "httpError"
  ELSE CASE body = "gateStrings" -> "unsatisfiable"
         [] body = "gateless" -> "unsatisfiableNoGates"
         [] OTHER -> "httpError"

\* Mutant of PyRefusal: g["message"] for g.get("reason", str(g)).
PyRefusalWrongKey(status, body) ==
  IF status # "422" \/ body = "garbage" THEN "httpError"
  ELSE CASE body \in {"gateObjects", "gateStrings", "stringError", "array"} -> "crash"
         [] OTHER -> "unsatisfiableNoGates"

\* The except clause of _request: any 422 whose body is an object.  g.get is
\* not there for a string, err.get not for an error that is a string, and
\* wrapped.get not for an array: only JSONDecodeError is caught.
PyRefusal(status, body) ==
  IF status # "422" \/ body = "garbage" THEN "httpError"
  ELSE CASE body = "gateObjects" -> "unsatisfiable"
         [] body \in {"gateStrings", "stringError", "array"} -> "crash"
         [] OTHER -> "unsatisfiableNoGates"

\* Any 422; whatever goes wrong with the gates is caught, and there are none.
TsRefusal(status, body) ==
  IF status # "422" THEN "httpError"
  ELSE CASE body \in {"gateObjects", "gateStrings"} -> "unsatisfiable"
         [] OTHER -> "unsatisfiableNoGates"

MapRefusal ==
  /\ pc = "mapping"
  /\ reply[1] # "ok"
  /\ Return(CASE sdk = "go" -> GoRefusal(reply[2])
              [] sdk = "python" -> PyRefusal(reply[1], reply[2])
              [] sdk = "typescript" -> TsRefusal(reply[1], reply[2]))

SdkStep == GiveUp \/ MapSuccess \/ MapRefusal

Stopped == pc = "idle" /\ count = MaxCalls /\ UNCHANGED vars

Next == Ask \/ Answer \/ Fail \/ Read \/ SdkStep \/ Stopped

\* http.Client.Timeout and AbortSignal.timeout end a call that takes too long,
\* headers and body included.  The timeout of urlopen starts anew with every
\* read of the socket, and never runs out on a gateway that drips.
TimesOut == sdk # "python" /\ Fail

\* The SDK goes on when it can, and a timeout of the whole call ends it.  Of the
\* gateway nothing is assumed: it may never answer, nor finish a body.
Fairness == WF_vars(SdkStep) /\ WF_vars(TimesOut)

Spec == Init /\ [][Next]_vars /\ Fairness

-----------------------------------------------------------------------------
(* Properties. *)

TypeOK ==
  /\ sdk \in Sdks
  /\ pc \in {"idle", "waiting", "reading", "mapping"}
  /\ op \in Ops \cup {"none"}
  /\ reply \in Replies \cup {NoReply}
  /\ net \in {"up", "failed"}
  /\ outcome \in Outcomes \cup {"none"}
  /\ count \in 0 .. MaxCalls
  /\ pc \in {"reading", "mapping"} => reply # NoReply
  /\ pc = "mapping" => net = "up"

\* An answer comes only from the whole, documented body of a success, and a
\* value that holds none from a body that is at least JSON: no error and no torn
\* body is taken for either.  Python and TypeScript, not Go, also make such a
\* value of an empty body.
AnswersAreWhole ==
  outcome \in {"answer", "hollow"} =>
    /\ reply[1] = "ok" /\ net = "up"
    /\ outcome = "answer" => WholeAnswer(reply[2])
    /\ reply[2] # "garbage"
    /\ reply[2] = "empty" => sdk # "go"

\* What the OpenAPI file documents as an unsatisfiable contract, refused with
\* its gates.
DocumentedRefusal ==
  outcome \notin {"none", "transport"} /\ op = "chat" /\ reply = <<"422", "gateObjects">>

\* The documented refusal reaches the caller of a Python or TypeScript chat as
\* an unsatisfiable contract, with the reasons of the gates that failed.
UnsatisfiableTyped ==
  DocumentedRefusal /\ sdk # "go" => outcome = "unsatisfiable"

\* "Contract unsatisfiable" (the 422 of the OpenAPI file): the same for a Go
\* chat, whose mapError exists for this answer.
GoUnsatisfiableTyped ==
  DocumentedRefusal /\ sdk = "go" => outcome = "unsatisfiable"

\* A Go caller is told of an unsatisfiable contract only when the gateway said
\* so, whatever the status: a refusal for another reason is not mistaken for
\* one.
UnsatisfiableMeant ==
  sdk = "go" /\ outcome \in {"unsatisfiable", "unsatisfiableNoGates"} =>
    reply[2] \in Unsatisfiable

\* An exception that no error type of the SDK covers (AttributeError, KeyError,
\* TypeError) comes only from a body of another shape than the code expects, the
\* choices: [{}] of the OpenAPI file being one: never in Go, which decodes into a
\* type, never from a refusal in TypeScript, which catches whatever goes wrong
\* with it, and nowhere from a whole answer, an error object or text without JSON.
CrashesMeanShape ==
  outcome = "crash" =>
    /\ sdk # "go"
    /\ IF reply[1] = "ok" THEN ~WholeAnswer(reply[2]) ELSE sdk = "python"
    /\ reply[2] \notin {"garbage", "gateObjects", "gateless", "otherError"}

\* Every call of Go and TypeScript returns, whatever the gateway does.  One of
\* Python does once its body is complete or its connection has failed; until
\* then a gateway that drips can hold it.
CallsReturn ==
  pc # "idle" /\ (sdk = "python" => pc = "mapping" \/ net = "failed") ~> pc = "idle"
=============================================================================

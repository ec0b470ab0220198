---------------------------- MODULE ContractWire ----------------------------
(***************************************************************************)
(* The Inference Contract on its way to the gateway.  An application has a *)
(* contract in mind, here the document it would write by the schema        *)
(* (contracts/schema/inference-contract.json); it builds the object of its *)
(* SDK (a Go struct, the dataclasses, an object literal), which the SDK    *)
(* encodes for the X-Noetivela-Contract header.  The same text, saved in a *)
(* file, may be read by the CLI's loadContract, any number of times.       *)
(*                                                                         *)
(* What a value is does not matter, only whether a field is absent, is set *)
(* to the zero value of its type (false, 0, the empty list) or is set to   *)
(* something else.  The gateway reads an absent field as the default of    *)
(* the schema, so a field that disappears changes its meaning.             *)
(***************************************************************************)
EXTENDS Naturals, FiniteSets

CONSTANTS
  Used,  \* the fields that vary; the other optional ones stay absent
  Sdks   \* the SDKs an application may be written with

Texts == {"task", "domain", "response_schema", "minimum_eval_grade",
          "ceiling_per_request", "budget_account", "session_id", "cache_key",
          "data_classification", "provider_training", "retention", "fallback"}
Numbers == {"ttft_ms", "p95_ms", "deadline_ms", "retry_budget"}
Flags == {"grounding_required", "streaming", "prefer_cache_locality"}
Lists == {"language", "modality", "allowed_regions", "denied_providers"}

\* The fields the three SDKs have, and one of each section they lack.
Mirrored == Texts \cup Numbers \cup Flags \cup Lists
Unmirrored == {"tool_use", "minimum_eval_score", "cost_vs_quality",
               "max_input_tokens", "allowed_models", "idempotency_key",
               "required_attestation"}
Fields == Mirrored \cup Unmirrored

Required == {"task", "modality"}

\* Hard gates: the policy section, the deadline and the attestation.
Gates == {"data_classification", "allowed_regions", "denied_providers",
          "allowed_models", "deadline_ms", "required_attestation"}

ASSUME UsedAssumption == Used \subseteq Fields /\ Required \cap Used = {}
ASSUME SdksAssumption == Sdks \subseteq {"go", "python", "typescript"}

\* The section of a field, for those whose presence depends on it.
SectionOf(f) ==
  CASE f \in {"minimum_eval_grade", "grounding_required"} -> "quality"
    [] f \in {"ttft_ms", "p95_ms", "deadline_ms", "streaming"} -> "latency"
    [] f \in {"session_id", "cache_key", "prefer_cache_locality"} -> "context"
    [] OTHER -> "other"

VARIABLES
  given,   \* the contract the application has in mind
  stage,   \* "wanted", built with the SDK named, or "loaded" by the CLI
  doc,     \* the document as it is now
  via,     \* the SDK that holds the contract as an object, or "none"
  object   \* that object

vars == <<given, stage, doc, via, object>>

Values == {"absent", "zero", "set"}

\* Documents the schema accepts; a string that is present is not empty.
Documents ==
  {d \in [Fields -> Values] :
     /\ \A f \in Required : d[f] = "set"
     /\ \A f \in Fields \ (Required \cup Used) : d[f] = "absent"
     /\ \A f \in Texts : d[f] # "zero"}

NoObject == [f \in Mirrored |-> "absent"]

InitialDocuments ==
  {[f \in Fields |-> IF f \in Required THEN "set"
                     ELSE IF f \in Used THEN u[f] ELSE "absent"] :
     u \in [Used -> Values]}

Init ==
  /\ given \in InitialDocuments \cap Documents
  /\ stage = "wanted"
  /\ doc = given
  /\ via = "none"
  /\ object = NoObject

-----------------------------------------------------------------------------
(* The object of a document. *)

\* Mutant of GoObject: the fields are pointers, nil when the key is absent.
GoPointers(d) == [f \in Mirrored |-> d[f]]

\* A struct literal, or json.Unmarshal: an absent key leaves the zero value, an unknown key is
\* ignored without an error (the literal cannot have it).
GoObject(d) == [f \in Mirrored |-> IF d[f] = "absent" THEN "zero" ELSE d[f]]

\* The defaults of the dataclasses.  A section nobody mentions stays None.
PyDefault(f) ==
  CASE f = "prefer_cache_locality" -> "set"
    [] f \in {"grounding_required", "streaming"} \cup Lists -> "zero"
    [] OTHER -> "absent"

Mentioned(d, f) == \E g \in Mirrored : SectionOf(g) = SectionOf(f) /\ d[g] # "absent"

PyObject(d) ==
  [f \in Mirrored |->
     IF d[f] = "absent" /\ Mentioned(d, f) THEN PyDefault(f) ELSE d[f]]

\* An object literal of the interfaces of types.ts: every field is optional.
TsObject(d) == [f \in Mirrored |-> d[f]]

-----------------------------------------------------------------------------
(* Encoding an object. *)

\* Mutant of GoEncode: the tags of the lists have no key name before
\* omitempty, so that each is written under a name the schema does not know.
GoEncodeMistagged(o) ==
  [f \in Fields |->
     IF f \notin Mirrored \/ f \in Lists \ Required
        \/ (o[f] = "zero" /\ f \notin Required)
       THEN "absent" ELSE o[f]]

\* json.Marshal: omitempty on every field but task and modality.
GoEncode(o) ==
  [f \in Fields |->
     IF f \notin Mirrored \/ (o[f] = "zero" /\ f \notin Required)
       THEN "absent" ELSE o[f]]

\* Mutant of PyEncode: _drop_none tests "if not dropped", as omitempty does.
PyEncodeFalsy(o) ==
  [f \in Fields |->
     IF f \notin Mirrored \/ o[f] = "zero" THEN "absent" ELSE o[f]]

\* to_dict: _drop_none drops None and empty lists, keeps False and 0.
PyEncode(o) ==
  [f \in Fields |->
     IF f \notin Mirrored \/ (f \in Lists /\ o[f] = "zero")
       THEN "absent" ELSE o[f]]

\* JSON.stringify drops undefined only.
TsEncode(o) == [f \in Fields |-> IF f \in Mirrored THEN o[f] ELSE "absent"]

\* The application can only say what the types of its SDK have a field for.
Build ==
  /\ stage = "wanted"
  /\ \A f \in Unmirrored : doc[f] = "absent"
  /\ \E sdk \in Sdks :
        /\ stage' = sdk
        /\ via' = sdk
        /\ object' = CASE sdk = "go" -> GoObject(doc)
                       [] sdk = "python" -> PyObject(doc)
                       [] sdk = "typescript" -> TsObject(doc)
  /\ UNCHANGED <<given, doc>>

\* loadContract, of a document an application wrote or of one it saved.
Load ==
  /\ via = "none"
  /\ stage' = "loaded"
  /\ via' = "go"
  /\ object' = GoObject(doc)
  /\ UNCHANGED <<given, doc>>

Write ==
  /\ via # "none"
  /\ doc' = CASE via = "go" -> GoEncode(object)
              [] via = "python" -> PyEncode(object)
              [] via = "typescript" -> TsEncode(object)
  /\ via' = "none"
  /\ object' = NoObject
  /\ UNCHANGED <<given, stage>>

Next == Build \/ Load \/ Write

Spec == Init /\ [][Next]_vars

-----------------------------------------------------------------------------
(* What a document means to the gateway. *)

\* The defaults of the schema; "none" where it has none.  An empty list says
\* as much as no list (contract.py: "so the wire payload only carries intent").
SchemaDefault(f) ==
  CASE f = "prefer_cache_locality" -> "set"
    [] f \in Flags \ {"prefer_cache_locality"} -> "zero"
    [] f = "retry_budget" -> "two"
    [] f \in Lists -> "zero"
    [] f \in {"provider_training", "retention", "fallback", "cost_vs_quality"} -> "default"
    [] OTHER -> "none"

Meaning(d, f) == IF d[f] = "absent" THEN SchemaDefault(f) ELSE d[f]

-----------------------------------------------------------------------------
(* Properties. *)

TypeOK ==
  /\ given \in Documents
  /\ stage \in {"wanted", "loaded"} \cup Sdks
  /\ doc \in [Fields -> Values]
  /\ \A f \in Required : doc[f] = "set"
  /\ via \in Sdks \cup {"none", "go"}
  /\ object \in [Mirrored -> Values]
  /\ via = "go" => \A f \in Mirrored : object[f] # "absent"

\* The header of a Python or TypeScript application means what it had in mind:
\* nothing it said is lost or replaced by a default, and the defaults an SDK
\* writes out by itself are those of the schema.
MeaningKept ==
  stage \in {"python", "typescript"} =>
    \A f \in Mirrored : Meaning(doc, f) = Meaning(given, f)

\* With Go and the CLI too: what is lost on the way is at most an explicit zero,
\* never a field that has a value, and nothing is invented; so no gate that the
\* SDKs know of is weakened, through any number of hands.
ValuesSurvive ==
  \A f \in Mirrored :
    /\ given[f] = "set" => doc[f] = "set"
    /\ doc[f] = "set" => Meaning(given, f) = "set"

\* The Go type "mirrors the authoritative InferenceContract JSON Schema": no
\* hard gate of a document the schema accepts disappears on the way.
GatesKept == \A f \in Gates : given[f] = "set" => doc[f] = "set"
=============================================================================

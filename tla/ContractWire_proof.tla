------------------------- MODULE ContractWire_proof -------------------------
(***************************************************************************)
(* Proofs about ContractWire for any fields that vary, any SDKs and any    *)
(* number of loads and writes.                                             *)
(*                                                                         *)
(* What the application's own SDK does is one step from its contract to    *)
(* the header: the object and the document are functions of the contract   *)
(* it had in mind.  Behind that only a bound on what may happen is kept,   *)
(* field by field, and it is the same for a document and for an object.    *)
(***************************************************************************)
EXTENDS ContractWire, TLAPS

\* What a field may have become.
Survives(was, now, f) ==
  /\ was[f] = "set" => now[f] = "set"
  /\ now[f] = "set" => Meaning(was, f) = "set"

Made ==
  /\ stage = "wanted" => via = "none" /\ doc = given
  /\ stage = "python" =>
       \/ via = "python" /\ doc = given /\ object = PyObject(given)
       \/ via = "none" /\ doc = PyEncode(PyObject(given))
  /\ stage = "typescript" =>
       \/ via = "typescript" /\ doc = given /\ object = TsObject(given)
       \/ via = "none" /\ doc = TsEncode(TsObject(given))

IInv ==
  /\ TypeOK
  /\ Made
  /\ \A f \in Mirrored : Survives(given, doc, f)
  /\ via # "none" => \A f \in Mirrored : Survives(given, object, f)

-----------------------------------------------------------------------------

LEMMA FieldSets ==
  /\ Mirrored \subseteq Fields
  /\ Required \subseteq Mirrored
  /\ \A f \in Required : f \notin Unmirrored
BY DEF Mirrored, Fields, Required, Texts, Lists, Unmirrored

LEMMA InitialTypes == ASSUME Init PROVE given \in Documents /\ given \in [Fields -> Values]
BY DEF Init, Documents

\* Objects and documents have their types, whoever makes them.
LEMMA ObjectTypes ==
  ASSUME NEW d \in [Fields -> Values]
  PROVE  /\ GoObject(d) \in [Mirrored -> Values]
         /\ PyObject(d) \in [Mirrored -> Values]
         /\ TsObject(d) \in [Mirrored -> Values]
<1>1. \A f \in Mirrored : d[f] \in Values
  BY FieldSets
<1>2. \A f : PyDefault(f) \in Values
  BY DEF PyDefault, Values
<1>3. "zero" \in Values
  BY DEF Values
<1> QED
  BY <1>1, <1>2, <1>3 DEF GoObject, PyObject, TsObject

LEMMA DocumentTypes ==
  ASSUME NEW o \in [Mirrored -> Values]
  PROVE  /\ GoEncode(o) \in [Fields -> Values]
         /\ PyEncode(o) \in [Fields -> Values]
         /\ TsEncode(o) \in [Fields -> Values]
<1>1. "absent" \in Values
  BY DEF Values
<1> QED
  BY <1>1 DEF GoEncode, PyEncode, TsEncode

\* No object of a document loses a value or invents one that does not mean what
\* the document means.
LEMMA ObjectsSurvive ==
  ASSUME NEW was \in [Fields -> Values], NEW d \in [Fields -> Values], NEW f \in Mirrored,
         Survives(was, d, f)
  PROVE  Survives(was, GoObject(d), f) /\ Survives(was, TsObject(d), f)
BY DEF Survives, GoObject, TsObject

\* Of the dataclasses' defaults only that of prefer_cache_locality is no zero
\* value, and it is the schema's.
LEMMA PyObjectSurvives ==
  ASSUME NEW was \in [Fields -> Values], NEW f \in Mirrored
  PROVE  Survives(was, PyObject(was), f)
<1>1. PyDefault(f) = "set" => SchemaDefault(f) = "set"
  BY DEF PyDefault, SchemaDefault
<1> QED
  BY <1>1 DEF Survives, PyObject, Meaning

\* Nor does encoding an object.
LEMMA DocumentsSurvive ==
  ASSUME NEW was \in [Fields -> Values], NEW o \in [Mirrored -> Values],
         NEW f \in Mirrored, Survives(was, o, f)
  PROVE  /\ Survives(was, GoEncode(o), f)
         /\ Survives(was, PyEncode(o), f)
         /\ Survives(was, TsEncode(o), f)
<1>1. f \in Fields
  BY FieldSets
<1> QED
  BY <1>1 DEF Survives, GoEncode, PyEncode, TsEncode

LEMMA InitIInv == Init => IInv
<1> SUFFICES ASSUME Init PROVE IInv
  OBVIOUS
<1>1. given \in Documents /\ given \in [Fields -> Values]
  BY InitialTypes
<1>2. /\ doc = given /\ via = "none" /\ stage = "wanted"
      /\ object = NoObject
  BY DEF Init
<1>3. object \in [Mirrored -> Values]
  BY <1>2 DEF NoObject, Values
<1>4. \A f \in Required : doc[f] = "set"
  BY <1>1, <1>2 DEF Documents
<1>5. TypeOK
  BY <1>1, <1>2, <1>3, <1>4 DEF TypeOK
<1>6. Made
  BY <1>2, SdksAssumption DEF Made
<1>7. \A f \in Mirrored : Survives(given, doc, f)
  <2>1. \A f \in Mirrored : given[f] = "set" => Meaning(given, f) = "set"
    BY DEF Meaning
  <2> QED
    BY <2>1, <1>2 DEF Survives
<1> QED
  BY <1>2, <1>5, <1>6, <1>7 DEF IInv

LEMMA BuildKeeps == ASSUME IInv, Build PROVE IInv'
<1>1. PICK sdk \in Sdks :
        /\ stage' = sdk
        /\ via' = sdk
        /\ object' = CASE sdk = "go" -> GoObject(doc)
                       [] sdk = "python" -> PyObject(doc)
                       [] sdk = "typescript" -> TsObject(doc)
  BY DEF Build
<1>2. sdk \in {"go", "python", "typescript"}
  BY SdksAssumption
<1>3. /\ stage = "wanted" /\ doc = given /\ given' = given /\ doc' = doc
      /\ given \in Documents /\ given \in [Fields -> Values]
  BY DEF Build, IInv, Made, TypeOK
<1>4. object' \in [Mirrored -> Values]
  BY <1>1, <1>2, <1>3, ObjectTypes
<1>5. via' = "go" => \A f \in Mirrored : object'[f] # "absent"
  BY <1>1 DEF GoObject
<1>6. TypeOK'
  BY <1>1, <1>3, <1>4, <1>5 DEF IInv, TypeOK
<1>7. Made'
  BY <1>1, <1>2, <1>3 DEF Made, PyObject, TsObject, Mentioned
<1>8. \A f \in Mirrored : Survives(given, doc, f)
  BY DEF IInv
<1>9. \A f \in Mirrored : Survives(given, object', f)
  BY <1>1, <1>2, <1>3, <1>8, ObjectsSurvive, PyObjectSurvives
<1>10. \A f \in Mirrored : Survives(given', doc', f) /\ Survives(given', object', f)
  BY <1>3, <1>8, <1>9
<1> QED
  BY <1>6, <1>7, <1>10 DEF IInv, Survives, Meaning

LEMMA LoadKeeps == ASSUME IInv, Load PROVE IInv'
<1>1. /\ stage' = "loaded" /\ via' = "go" /\ object' = GoObject(doc)
      /\ given' = given /\ doc' = doc
      /\ given \in Documents /\ given \in [Fields -> Values] /\ doc \in [Fields -> Values]
  BY DEF Load, IInv, TypeOK, Documents
<1>2. object' \in [Mirrored -> Values]
  BY <1>1, ObjectTypes
<1>3. \A f \in Mirrored : object'[f] # "absent"
  BY <1>1 DEF GoObject
<1>4. TypeOK'
  BY <1>1, <1>2, <1>3 DEF IInv, TypeOK
<1>5. Made'
  BY <1>1 DEF Made
<1>6. \A f \in Mirrored : Survives(given, doc, f)
  BY DEF IInv
<1>7. \A f \in Mirrored : Survives(given, object', f)
  BY <1>1, <1>6, ObjectsSurvive
<1> QED
  BY <1>1, <1>4, <1>5, <1>6, <1>7 DEF IInv, Survives, Meaning

LEMMA WriteKeeps == ASSUME IInv, Write PROVE IInv'
<1>1. /\ via \in {"go", "python", "typescript"}
      /\ doc' = CASE via = "go" -> GoEncode(object)
                  [] via = "python" -> PyEncode(object)
                  [] via = "typescript" -> TsEncode(object)
      /\ via' = "none" /\ object' = NoObject /\ given' = given /\ stage' = stage
      /\ given \in Documents /\ given \in [Fields -> Values] /\ object \in [Mirrored -> Values]
  BY SdksAssumption DEF Write, IInv, TypeOK, Documents
<1>2. doc' \in [Fields -> Values]
  BY <1>1, DocumentTypes
<1>3. \A f \in Mirrored : Survives(given, object, f)
  BY DEF IInv, Write
<1>4. \A f \in Mirrored : Survives(given, doc', f)
  BY <1>1, <1>3, DocumentsSurvive
<1>5. \A f \in Required : doc'[f] = "set"
  BY <1>1, <1>4, FieldSets DEF Survives, Documents
<1>6. TypeOK'
  <2>1. object' \in [Mirrored -> Values]
    BY <1>1 DEF NoObject, Values
  <2> QED
    BY <1>1, <1>2, <1>5, <2>1 DEF IInv, TypeOK
<1>7. Made'
  BY <1>1 DEF IInv, Made
<1> QED
  BY <1>1, <1>4, <1>6, <1>7 DEF IInv, Survives, Meaning

LEMMA NextIInv == IInv /\ [Next]_vars => IInv'
<1>1. ASSUME IInv, UNCHANGED vars PROVE IInv'
  BY <1>1 DEF vars, IInv, TypeOK, Made, Survives, Meaning
<1> QED
  BY <1>1, BuildKeeps, LoadKeeps, WriteKeeps DEF Next

LEMMA Invariance == Spec => []IInv
<1>1. Init => IInv
  BY InitIInv
<1>2. IInv /\ [Next]_vars => IInv'
  BY NextIInv
<1> QED
  BY <1>1, <1>2, PTL DEF Spec
\* Every field is absent, zero or set in every document, a required one set;
\* and no field of a Go struct is absent, through any number of loads and writes.
THEOREM TypeCorrect == Spec => []TypeOK
<1>1. IInv => TypeOK
  BY DEF IInv
<1> QED
  BY <1>1, Invariance, PTL

\* Through any SDK and any number of hands of the CLI, what a contract says with
\* a value it still says, and nothing is invented (contract.go, contract.py,
\* types.ts, loadContract).
THEOREM Survival == Spec => []ValuesSurvive
<1>1. IInv => ValuesSurvive
  BY DEF IInv, ValuesSurvive, Survives
<1> QED
  BY <1>1, Invariance, PTL

\* The header of Python means what the application had in mind: an empty list
\* that is dropped is the schema's default, and so is what a dataclass adds.
LEMMA PyMeans ==
  ASSUME NEW was \in [Fields -> Values], NEW f \in Mirrored
  PROVE  Meaning(PyEncode(PyObject(was)), f) = Meaning(was, f)
<1> DEFINE o == PyObject(was)
           d == PyEncode(o)
<1>1. f \in Fields /\ was[f] \in Values
  BY FieldSets
<1>2. d[f] = IF f \in Lists /\ o[f] = "zero" THEN "absent" ELSE o[f]
  BY <1>1 DEF PyEncode
<1>3. CASE was[f] # "absent"
  <2>1. o[f] = was[f]
    BY <1>3 DEF PyObject
  <2>2. f \in Lists => SchemaDefault(f) = "zero"
    BY DEF SchemaDefault, Lists, Flags
  <2> QED
    BY <1>2, <1>3, <2>1, <2>2 DEF Meaning
<1>4. CASE was[f] = "absent"
  <2>1. o[f] \in {"absent", PyDefault(f)}
    BY <1>4 DEF PyObject
  <2>2. PyDefault(f) # "absent" => SchemaDefault(f) = PyDefault(f)
    BY DEF PyDefault, SchemaDefault, Flags, Lists
  <2> QED
    BY <1>2, <1>4, <2>1, <2>2 DEF Meaning
<1> QED
  BY <1>3, <1>4

\* Nothing of a contract's meaning is lost or changed on its way into the header
\* of a Python or TypeScript application (to_dict, JSON.stringify).
THEOREM Meant == Spec => []MeaningKept
<1>1. ASSUME IInv PROVE MeaningKept
  <2> SUFFICES ASSUME stage \in {"python", "typescript"}, NEW f \in Mirrored
               PROVE  Meaning(doc, f) = Meaning(given, f)
    BY DEF MeaningKept
  <2>1. given \in [Fields -> Values] /\ f \in Fields
    BY <1>1, FieldSets DEF IInv, TypeOK, Documents
  <2>2. \/ doc = given
        \/ doc = PyEncode(PyObject(given))
        \/ doc = TsEncode(TsObject(given))
    BY <1>1 DEF IInv, Made
  <2>3. TsEncode(TsObject(given))[f] = given[f]
    BY <2>1 DEF TsEncode, TsObject
  <2> QED
    BY <2>1, <2>2, <2>3, PyMeans DEF Meaning
<1> QED
  BY <1>1, Invariance, PTL
=============================================================================

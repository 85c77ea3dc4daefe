------------------------------- MODULE Values --------------------------------
(***************************************************************************)
(* Values of the protocol types, in memory and as JSON, and what the code  *)
(* does with them: copying (the Clone methods, written by emit_clone.go),  *)
(* encoding and decoding (emit.go, optional.go, unions_manual.go).         *)
(*                                                                         *)
(* A value is a tree.  A node that Go allocates (a slice, a map, a         *)
(* pointer, a raw message) says who allocated it, its owner: two values    *)
(* share memory iff they share an owner.  Numbers and texts stand for all  *)
(* scalars.                                                                *)
(***************************************************************************)
EXTENDS Results, Events, Integers, Sequences, FiniteSets

-----------------------------------------------------------------------------
(* Nodes. *)

Inline == "inline"                            \* held by the enclosing node

Node(kind, at, elems) ==
    [kind |-> kind, at |-> at, text |-> <<>>, num |-> 0, elems |-> elems]

Leaf(kind) == Node(kind, Inline, <<>>)
Number(n) == [Leaf("number") EXCEPT !.num = n]
Text(t) == [Leaf("text") EXCEPT !.text = t]
Bool(b) == [Leaf("bool") EXCEPT !.num = IF b THEN 1 ELSE 0]

Nil == Leaf("nil")                            \* of a slice, map, pointer ...
Struct(fields) == Node("struct", Inline, fields)
Absent == Leaf("absent")                      \* the states of an Optional
Null == Leaf("null")
Some(v) == Node("some", Inline, <<v>>)

\* What an interface holds: a struct or a pointer to one, and its type.
Value(name, v) == Node("value", Inline, name :> v)
Pointer(at, name, v) == Node("pointer", at, name :> v)
NilPointer(name) == Pointer(Inline, name, Nil)
Dynamic(v) == CHOOSE name \in DOMAIN v.elems : TRUE

JNull == Leaf("JSON null")
Array(elems) == Node("array", Inline, elems)
Object(fields) == Node("object", Inline, fields)

Err == Leaf("error")                          \* an error was returned
Unknown == Leaf("unknown")                    \* ... Unknown{Event,Result}Error
Panic == Leaf("panic")

RECURSIVE Owners(_), Failed(_), Erase(_)

\* The owners of the memory that a value refers to.
Owners(v) ==
    ({v.at} \ {Inline}) \cup UNION {Owners(v.elems[i]) : i \in DOMAIN v.elems}

\* An error anywhere fails the whole conversion.
Failed(v) ==
    \/ v.kind \in {"error", "unknown", "panic"}
    \/ \E i \in DOMAIN v.elems : Failed(v.elems[i])

\* The content of a value, whoever owns it.
Erase(v) ==
    [v EXCEPT !.at = Inline,
              !.elems = [i \in DOMAIN v.elems |-> Erase(v.elems[i])]]

Each(v, Op(_)) == [i \in DOMAIN v.elems |-> Op(v.elems[i])]

-----------------------------------------------------------------------------
(* The declarations that are written by hand. *)

PopupSize == Fields([Cells |-> Scalar, Percent |-> Scalar])

AgentViewValue ==
    Fields([f \in {"Text", "Bool", "Uint", "Context"} |-> Ptr(Scalar)])

AgentViewField == Fields([f \in {"Builtin", "Token"} |-> Scalar])

EventEnvelope == Fields([Event |-> Scalar, Data |-> Iface("Event")])

Declared ==
    DeclaredTypes @@ DeclaredResults @@ DeclaredEvents @@
    [PopupSize |-> PopupSize, AgentViewValue |-> AgentViewValue,
     AgentViewField |-> AgentViewField, AgentViewSortField |-> AgentViewField,
     EventEnvelope |-> EventEnvelope]

FieldsOf(name) == Declared[name].fields

\* The types that a union's copy function knows.
Variants(union) ==
    CASE union = "AgentViewFilter" -> cloneAgentViewFilter
      [] union = "EventMatch" -> cloneEventMatch
      [] union = "LayoutNode" -> cloneLayoutNode
      [] union = "OutputMatch" -> cloneOutputMatch
      [] union = "PaneMoveDestination" -> clonePaneMoveDestination
      [] union = "Subscription" -> cloneSubscription
      [] union = "Event" -> cloneEvent

Decoder(union) ==
    CASE union = "AgentViewFilter" -> decodeAgentViewFilter
      [] union = "EventMatch" -> decodeEventMatch
      [] union = "LayoutNode" -> decodeLayoutNode
      [] union = "OutputMatch" -> decodeOutputMatch
      [] union = "PaneMoveDestination" -> decodePaneMoveDestination
      [] union = "Subscription" -> decodeSubscription

-----------------------------------------------------------------------------
(* Copying. *)

RECURSIVE needsClone(_)

\* Mutant: an optional is taken for a scalar.
needsCloneShallow(shape) == shape.kind \notin {"scalar", "opt"}

needsClone(shape) ==
    CASE shape.kind = "scalar" -> FALSE
      [] shape.kind = "opt" -> needsClone(shape.elem)
      [] OTHER -> TRUE

RECURSIVE emitAssign(_, _, _)

\* The generated Clone method: what follows "out := v".
emitMethod(at, fields, v) ==
    [v EXCEPT !.elems =
        [f \in DOMAIN fields |->
            IF needsClone(fields[f]) THEN emitAssign(at, fields[f], v.elems[f])
            ELSE v.elems[f]]]

\* The switch on the dynamic type of a union.  A value is copied as a value, a
\* pointer as a pointer, unless it is nil.
emitUnion(at, union, v) ==
    CASE v = Nil -> Nil
      [] v # Nil /\ Dynamic(v) \notin Variants(union) -> Panic
      [] OTHER ->
            LET name == Dynamic(v) IN
            [v EXCEPT !.at = IF v.kind = "pointer" /\ v.elems[name] # Nil THEN at ELSE @,
                      !.elems[name] = IF @ = Nil THEN Nil
                                      ELSE emitMethod(at, FieldsOf(name), @)]

\* The copy that at makes of a field or an element.
emitAssign(at, shape, v) ==
    CASE shape.kind = "struct" -> emitMethod(at, FieldsOf(shape.name), v)
      [] shape.kind = "union" -> emitUnion(at, shape.name, v)
      [] shape.kind = "opt" ->
            IF v.kind = "some"
            THEN Some(emitAssign(at, shape.elem, v.elems[1]))
            ELSE v
      [] shape.kind = "raw" ->
            IF v = Nil THEN Nil ELSE Node("raw", at, v.elems)
      [] shape.kind \in {"slice", "map", "ptr"} ->
            IF v = Nil THEN Nil
            ELSE LET Copy(elem) == IF needsClone(shape.elem)
                                   THEN emitAssign(at, shape.elem, elem)
                                   ELSE elem
                 IN Node(shape.kind, at, Each(v, Copy))
      [] shape.kind = "scalar" -> v

Clone(at, name, v) == emitAssign(at, Of(name), v)

-----------------------------------------------------------------------------
(* Encoding. *)

\* A popup size as a string; its number is what precedes the "%".
Percentage(n) == [Number(n) EXCEPT !.kind = "text", !.text = <<"%">>]

MarshalPopupSize(v) ==
    LET percent == v.elems.Percent.num IN
    CASE percent = 0 -> v.elems.Cells
      [] percent \in 1..100 -> Percentage(percent)
      [] percent > 100 -> Err

MarshalAgentViewValue(v) ==
    LET set == {f \in DOMAIN v.elems : v.elems[f] # Nil} IN
    IF Cardinality(set) # 1 THEN Err
    ELSE LET f == CHOOSE f \in set : TRUE
             scalar == v.elems[f].elems[1]
         IN IF f = "Context" THEN Object("context" :> scalar) ELSE scalar

\* Also the sort field's.
MarshalAgentViewField(v) ==
    CASE v.elems.Token # Text(<<>>) -> Object("token" :> v.elems.Token)
      [] v.elems.Builtin # Text(<<>>) -> v.elems.Builtin
      [] OTHER -> Err

RECURSIVE Encode(_, _)

\* Mutant: an explicit null is left out too.
MarshalStructNoNull(struct, v) ==
    LET present == {f \in DOMAIN struct.fields : v.elems[f] \notin {Absent, Null}}
    IN Object([f \in present |-> Encode(struct.fields[f], v.elems[f])] @@
              IF struct.tag = <<>> THEN <<>> ELSE struct.tag[1] :> Text(struct.tag[2]))

\* The tag that emitMarshal adds, and the fields.  An absent field is left out
\* (omitzero).
MarshalStruct(struct, v) ==
    LET present == {f \in DOMAIN struct.fields : v.elems[f] # Absent}
    IN Object([f \in present |-> Encode(struct.fields[f], v.elems[f])] @@
              IF struct.tag = <<>> THEN <<>> ELSE struct.tag[1] :> Text(struct.tag[2]))

Encode(shape, v) ==
    CASE v \in {Nil, Null, Absent} -> JNull
      [] shape.kind = "scalar" -> v
      [] shape.kind = "raw" -> v.elems[1]
      [] shape.kind \in {"ptr", "opt"} -> Encode(shape.elem, v.elems[1])
      [] shape.kind \in {"slice", "map"} ->
            LET Elem(e) == Encode(shape.elem, e) IN Array(Each(v, Elem))
      [] shape.kind = "union" ->
            LET name == Dynamic(v) IN Encode(Of(name), v.elems[name])
      [] shape = Of("PopupSize") -> MarshalPopupSize(v)
      [] shape = Of("AgentViewValue") -> MarshalAgentViewValue(v)
      [] shape \in {Of("AgentViewField"), Of("AgentViewSortField")} ->
            MarshalAgentViewField(v)
      [] OTHER -> MarshalStruct(Declared[shape.name], v)

-----------------------------------------------------------------------------
(* Decoding, into a fresh variable. *)

MaxUint16 == 65535

UnmarshalPopupSize(j) ==
    LET Size(cells, percent) ==
            Struct([Cells |-> Number(cells), Percent |-> Number(percent)])
    IN CASE j.kind = "text" /\ j.text # <<"%">> -> Err
         [] j.kind = "text" /\ j.num \notin 1..100 -> Err
         [] j.kind = "text" -> Size(0, j.num)
         [] j = JNull -> Size(0, 0)
         [] j.kind # "number" -> Err
         [] j.num \notin 0..MaxUint16 -> Err
         [] OTHER -> Size(j.num, 0)

UnmarshalAgentViewValue(at, j) ==
    LET Only(field, scalar) ==
            Struct([f \in DOMAIN AgentViewValue.fields |->
                IF f = field THEN Node("ptr", at, <<scalar>>) ELSE Nil])
    IN CASE j.kind = "text" -> Only("Text", j)
         [] j.kind = "bool" -> Only("Bool", j)
         [] j.kind = "number" -> Only("Uint", j)
         [] j = JNull -> Only("Uint", Number(0))
         [] j.kind = "object" ->
                IF "context" \in DOMAIN j.elems
                THEN Only("Context", j.elems["context"])
                ELSE Err
         [] OTHER -> Err

unmarshalFieldOrToken(j) ==
    LET Field(builtin, token) == Struct([Builtin |-> builtin, Token |-> token])
    IN CASE j.kind = "text" -> Field(j, Text(<<>>))
         [] j.kind = "object" /\ "token" \in DOMAIN j.elems ->
                Field(Text(<<>>), j.elems["token"])
         [] OTHER -> Err

NoField == Struct([Builtin |-> Text(<<>>), Token |-> Text(<<>>)])

\* The value of a variable that was just declared.
RECURSIVE Zero(_)
ZeroStruct(fields) == Struct([f \in DOMAIN fields |-> Zero(fields[f])])

Zero(shape) ==
    CASE shape.kind = "scalar" -> Number(0)
      [] shape.kind = "opt" -> Absent
      [] shape \in {Of("AgentViewField"), Of("AgentViewSortField")} -> NoField
      [] shape.kind = "struct" -> ZeroStruct(FieldsOf(shape.name))
      [] OTHER -> Nil

RECURSIVE Decode(_, _, _)

\* A generated decodeX: the tag selects a variant, which decodes to a value.
emitUnionDecoder(at, decoder, j) ==
    IF j.kind # "object" \/ decoder.key \notin DOMAIN j.elems THEN Err
    ELSE LET tag == j.elems[decoder.key].text[1] IN
         IF tag \notin DOMAIN decoder.cases THEN Err
         ELSE LET name == decoder.cases[tag]
              IN Value(name, Decode(at, Of(name), j))

\* Mutant: an event is decoded by its payload's type whatever its name.
DecodeLifecycleEvent(at, event, j) ==
    LET tag == j.elems["type"].text IN
    IF j.kind = "object" /\ "type" \in DOMAIN j.elems /\ tag \in DOMAIN EventVariants
    THEN Pointer(at, EventVariants[tag], Decode(at, Of(EventVariants[tag]), j))
    ELSE Unknown

\* A dotted name is that of a dedicated subscription; with any other name the
\* payload's own type counts.
DecodeEvent(at, event, j) ==
    LET As(name) == Pointer(at, name, Decode(at, Of(name), j))
        tag == j.elems["type"].text
    IN CASE event[2] = "." /\ event \in DOMAIN DedicatedEvents ->
                As(DedicatedEvents[event])
         [] event[2] = "_" /\ j.kind = "object" /\ "type" \in DOMAIN j.elems
                /\ tag \in DOMAIN EventVariants -> As(EventVariants[tag])
         [] OTHER -> Unknown

UnmarshalEventEnvelope(at, j) ==
    LET data == IF "Data" \in DOMAIN j.elems THEN j.elems["Data"] ELSE JNull
        event == j.elems["Event"]
    IN Struct([Event |-> event,
               Data |-> IF data = JNull THEN Nil
                        ELSE DecodeEvent(at, event.text, data)])

\* A field of a struct.  emitUnmarshal drops an empty list of union values and
\* skips a null one.
DecodeField(at, shape, j) ==
    CASE shape.kind = "union" /\ j = JNull -> Nil
      [] shape.kind = "slice" /\ shape.elem.kind = "union" /\ j.elems = <<>> -> Nil
      [] OTHER -> Decode(at, shape, j)

UnmarshalStruct(at, fields, j) ==
    Struct([f \in DOMAIN fields |->
        IF f \in DOMAIN j.elems THEN DecodeField(at, fields[f], j.elems[f])
        ELSE Zero(fields[f])])

Decode(at, shape, j) ==
    LET Elem(e) == Decode(at, shape.elem, e) IN
    CASE shape = Of("PopupSize") -> UnmarshalPopupSize(j)
      [] shape = Of("AgentViewValue") -> UnmarshalAgentViewValue(at, j)
      [] shape \in {Of("AgentViewField"), Of("AgentViewSortField")} ->
            unmarshalFieldOrToken(j)
      [] shape.kind = "union" -> emitUnionDecoder(at, Decoder(shape.name), j)
      [] shape.kind = "raw" -> Node("raw", at, <<j>>)
      [] shape.kind = "opt" -> IF j = JNull THEN Null ELSE Some(Elem(j))
      [] j = JNull -> Zero(shape)
      [] shape.kind = "scalar" -> j
      [] shape.kind = "ptr" -> Node("ptr", at, <<Elem(j)>>)
      [] shape.kind \in {"slice", "map"} -> Node(shape.kind, at, Each(j, Elem))
      [] shape = Of("EventEnvelope") -> UnmarshalEventEnvelope(at, j)
      [] OTHER -> UnmarshalStruct(at, FieldsOf(shape.name), j)
-----------------------------------------------------------------------------
(* Results. *)

\* The switch: JSON null has no type, which is not an error yet.
TypeOf(j) ==
    IF j.kind = "object" /\ DecodeResultSwitch.key \in DOMAIN j.elems
    THEN j.elems[DecodeResultSwitch.key].text[1] ELSE ""

DecodeAs(at, name, j) ==
    LET v == Decode(at, Of(name), j)
    IN IF Failed(v) THEN Err ELSE Pointer(at, name, v)

DecodeCase(at, cases, tag, j) ==
    IF tag \in DOMAIN cases THEN DecodeAs(at, cases[tag], j) ELSE Unknown

\* The "type" selects the result type, which decodes to a pointer.
DecodeResult(at, j) ==
    IF j.kind \in {"object", "JSON null"}
    THEN DecodeCase(at, DecodeResultSwitch.cases, TypeOf(j), j) ELSE Err
=============================================================================

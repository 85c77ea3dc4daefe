------------------------------ MODULE Samples --------------------------------
(***************************************************************************)
(* Values of every protocol type to check module Values with, and what a   *)
(* peer must receive when one of them is sent.                             *)
(***************************************************************************)
EXTENDS Values

LOCAL INSTANCE Functions

\* How much of a value is there: the zero value; nil references, explicit
\* nulls and nil pointers in interfaces; what is required, with empty
\* collections; optional zero values as well; everything.
Hows == {"zero", "null", "bare", "empty", "full"}

\* The fields of the outermost struct are filled in one way, the rest in the
\* same or one of the two fully.
Fillings == {f \in Hows \X Hows : f[1] = f[2] \/ "full" \in {f[1], f[2]}}

Forms == {"value", "pointer"}

-----------------------------------------------------------------------------
(* The choice that a sample makes: a variant of a union, as a value or as a *)
(* pointer, or the one field of an agent view value.                        *)

Unions ==
    {"AgentViewFilter", "EventMatch", "LayoutNode", "OutputMatch",
     "PaneMoveDestination", "Subscription", "Event"}

RECURSIVE NamesIn(_), ReachableFrom(_)

NamesIn(shape) ==
    CASE shape.kind = "struct" -> {shape.name}
      [] shape.kind = "union" -> Variants(shape.name)
      [] shape.kind \in {"scalar", "raw"} -> {}
      [] OTHER -> NamesIn(shape.elem)

NamedBy(n) == UNION {NamesIn(field) : field \in Range(FieldsOf(n))}

ReachableFrom(names) ==
    LET next == UNION {NamedBy(n) : n \in names}
    IN IF next \subseteq names THEN names ELSE ReachableFrom(names \cup next)

AnyChoice == <<"any", "value">>

\* Lists hold every variant, so that subscriptions need no choice.
ChoicesAmong(reachable) ==
    LET variants == UNION {Variants(u) : u \in Unions \ {"Subscription"}}
    IN {AnyChoice} \cup ((reachable \cap variants) \X Forms) \cup
       (IF "AgentViewValue" \in reachable
        THEN (DOMAIN AgentViewValue.fields) \X {"value"} ELSE {})

ChoicesOf(name) == ChoicesAmong(ReachableFrom({name}))

LeafVariant(variants) ==
    CHOOSE n \in variants :
        \A field \in Range(FieldsOf(n)) : NamesIn(field) \cap variants = {}

-----------------------------------------------------------------------------
(* Samples.  All their memory belongs to at. *)

SamplePopupSize(how) ==
    LET Size(cells, percent) ==
            Struct([Cells |-> Number(cells), Percent |-> Number(percent)])
    IN CASE how = "zero" -> Size(0, 0)
         [] how = "null" -> Size(MaxUint16, 0)
         [] how = "bare" -> Size(0, 1)
         [] how = "empty" -> Size(1, 101)
         [] how = "full" -> Size(1, 100)

SampleAgentViewValue(at, how, choice) ==
    LET Only(set) ==
            Struct([f \in DOMAIN AgentViewValue.fields |->
                IF f \notin set THEN Nil
                ELSE Node("ptr", at, <<CASE f = "Bool" -> Bool(TRUE)
                                         [] f = "Uint" -> Number(1)
                                         [] OTHER -> Text(<<"x">>)>>)])
    IN CASE choice[1] \in DOMAIN AgentViewValue.fields -> Only({choice[1]})
         [] how = "zero" -> Only({})
         [] how = "null" -> Only({"Text", "Bool"})
         [] OTHER -> Only({"Text"})

SampleAgentViewField(how) ==
    LET Field(builtin, token) ==
            Struct([Builtin |-> Text(builtin), Token |-> Text(token)])
    IN CASE how = "zero" -> Field(<<>>, <<>>)
         [] how \in {"null", "bare"} -> Field(<<"builtin">>, <<>>)
         [] how = "empty" -> Field(<<>>, <<"token">>)
         [] how = "full" -> Field(<<"builtin">>, <<"token">>)

RECURSIVE Sample(_, _, _, _, _)

SampleFields(at, fields, filling, choice, depth) ==
    Struct([f \in DOMAIN fields |-> Sample(at, fields[f], filling, choice, depth)])

SampleStruct(at, name, filling, choice, depth) ==
    CASE name = "PopupSize" -> SamplePopupSize(filling[1])
      [] name = "AgentViewValue" -> SampleAgentViewValue(at, filling[1], choice)
      [] name \in {"AgentViewField", "AgentViewSortField"} ->
            SampleAgentViewField(filling[1])
      [] OTHER -> SampleFields(at, FieldsOf(name), filling, choice, depth)

Held(at, name, form, v) == IF form = "pointer" THEN Pointer(at, name, v) ELSE Value(name, v)

SampleVariant(at, name, form, filling, choice, depth) ==
    Held(at, name, form, SampleStruct(at, name, filling, choice, depth))

WireName(event) == IF event.tag = <<>> THEN event.event ELSE event.tag[2]

\* An event comes in an envelope that names it.
SampleEnvelope(at, filling, choice) ==
    IF choice[1] \notin cloneEvent
    THEN Struct([Event |-> Text(<<"pane", "_", "closed">>), Data |-> Nil])
    ELSE Struct([Event |-> Text(WireName(Declared[choice[1]])),
                 Data |-> SampleVariant(at, choice[1], choice[2], filling, choice, 1)])

SampleUnion(at, name, how, filling, choice, depth) ==
    IF how = "null" THEN NilPointer(name)
    ELSE SampleVariant(at, name, choice[2], filling, choice, depth - 1)

\* Depth bounds the nesting of unions in unions.
Sample(at, shape, filling, choice, depth) ==
    LET how == filling[1]
        rest == IF Len(filling) = 1 THEN filling ELSE Tail(filling)
        Elem(e) == Sample(at, e, rest, choice, depth)
    IN CASE shape.kind = "scalar" -> Number(IF how = "full" THEN 1 ELSE 0)
         [] shape = Of("EventEnvelope") -> SampleEnvelope(at, rest, choice)
         [] shape.kind = "struct" ->
                SampleStruct(at, shape.name, rest, choice, depth)
         [] shape.kind = "opt" ->
                (CASE how \in {"zero", "bare"} -> Absent
                   [] how = "null" -> Null
                   [] how = "empty" -> Some(Zero(shape.elem))
                   [] how = "full" -> Some(Elem(shape.elem)))
         [] how = "zero" -> Nil
         [] shape.kind = "union" ->
                SampleUnion(at, IF choice[1] \in Variants(shape.name) /\ depth > 0
                                THEN choice[1] ELSE LeafVariant(Variants(shape.name)),
                            how, rest, choice, depth)
         [] how = "null" -> Nil
         [] shape.kind = "slice" /\ shape.elem.kind = "union" ->
                Node("slice", at,
                     IF how # "full" THEN <<>>
                     ELSE [i \in (IF depth > 0 THEN Variants(shape.elem.name)
                                  ELSE {LeafVariant(Variants(shape.elem.name))}) \X Forms |->
                            SampleVariant(at, i[1], i[2], rest, choice, depth - 1)])
         [] shape.kind \in {"slice", "map"} ->
                Node(shape.kind, at,
                     IF how # "full" THEN <<>> ELSE <<Elem(shape.elem)>>)
         [] shape.kind = "ptr" -> Node("ptr", at, <<Elem(shape.elem)>>)
         [] shape.kind = "raw" -> Node("raw", at, <<Number(1)>>)

\* The sample of a declared type.
SampleOf(at, name, filling, choice) ==
    Sample(at, Of(name), <<"full">> \o filling, choice, 2)

-----------------------------------------------------------------------------
(* What the peer must get: the value that was sent, except for what JSON    *)
(* cannot tell apart.                                                       *)

RECURSIVE Received(_, _)

IsNothing(v) == v.kind = "nil" \/ (v.kind = "pointer" /\ v.elems[Dynamic(v)] = Nil)

ReceivedField(shape, v) ==
    IF shape.kind = "slice" /\ shape.elem.kind = "union" /\ v.elems = <<>>
    THEN Nil ELSE Received(shape, v)

Received(shape, v) ==
    LET Elem(e) == Received(shape.elem, e) IN
    CASE shape.kind = "scalar" \/ v \in {Absent, Null} -> v
      [] shape.kind = "raw" ->
            IF v = Nil THEN Node("raw", Inline, <<JNull>>) ELSE v
      [] IsNothing(v) -> Nil
      [] shape.kind = "opt" ->
            IF IsNothing(v.elems[1]) THEN Null ELSE Some(Elem(v.elems[1]))
      [] shape.kind \in {"slice", "map", "ptr"} -> Node(shape.kind, Inline, Each(v, Elem))
      [] shape.kind = "union" ->
            LET name == Dynamic(v)
                content == Received(Of(name), v.elems[name])
            IN IF shape.name = "Event" THEN Pointer(Inline, name, content)
               ELSE Value(name, content)
      [] shape = Of("PopupSize") /\ v.elems.Percent.num # 0 ->
            [v EXCEPT !.elems.Cells = Number(0)]
      [] shape \in {Of("AgentViewField"), Of("AgentViewSortField")}
            /\ v.elems.Token # Text(<<>>) -> [v EXCEPT !.elems.Builtin = Text(<<>>)]
      [] OTHER -> Struct([f \in DOMAIN v.elems |->
                            ReceivedField(FieldsOf(shape.name)[f], v.elems[f])])

\* A value that Herdr sends: only an optional is left out or null.
RECURSIVE Complete(_)
Complete(v) == v.kind # "nil" /\ \A i \in DOMAIN v.elems : Complete(v.elems[i])

\* The values that no peer may get, because they mean nothing.
RECURSIVE IsMeaningless(_, _)
IsMeaningless(shape, v) ==
    CASE shape.kind = "scalar" \/ shape.kind = "raw" \/ v.elems = <<>> -> FALSE
      [] shape = Of("PopupSize") -> v.elems.Percent.num > 100
      [] shape = Of("AgentViewValue") ->
            Cardinality({f \in DOMAIN v.elems : v.elems[f] # Nil}) # 1
      [] shape \in {Of("AgentViewField"), Of("AgentViewSortField")} ->
            v.elems = NoField.elems
      [] shape.kind = "union" ->
            \E n \in DOMAIN v.elems : IsMeaningless(Of(n), v.elems[n])
      [] shape.kind = "struct" ->
            \E f \in DOMAIN v.elems :
                IsMeaningless(FieldsOf(shape.name)[f], v.elems[f])
      [] OTHER -> \E i \in DOMAIN v.elems : IsMeaningless(shape.elem, v.elems[i])
=============================================================================

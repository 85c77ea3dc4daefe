--------------------------------- MODULE Api ---------------------------------
(***************************************************************************)
(* One call of an API method: the parameters are encoded, Herdr answers    *)
(* with one line, the answer is decoded by its type and asserted to have   *)
(* the type the method returns (the bodies in methods_gen.go).  Module     *)
(* Exchange is about the connection this runs over; here it works.         *)
(*                                                                         *)
(* Subscribe (subscribe.go) is the call that keeps its connection: it      *)
(* checks the acknowledgement before it hands out the stream, and from     *)
(* then on Herdr pushes events, which NextEvent decodes.                   *)
(*                                                                         *)
(* A call carries the sample (see Samples) it was made with and the one    *)
(* Herdr answered with, for the properties to compare.                     *)
(***************************************************************************)
EXTENDS Samples, Methods

CONSTANT CalledMethods          \* the methods that are called

ASSUME CalledAssumption == CalledMethods \subseteq DOMAIN DeclaredMethods

VARIABLE call

NoCall == [phase |-> "none"]

Method == DeclaredMethods[call.method]

-----------------------------------------------------------------------------
(* What is sent. *)

ParamsOf(method) ==
    LET name == DeclaredMethods[method].params IN
    IF name = NoParams THEN {<<>>}
    ELSE {<<name, filling, choice>> : filling \in Fillings, choice \in ChoicesOf(name)}

SampleAt(at, sample) == SampleOf(at, sample[1], sample[2], sample[3])

CanSend(name, v) == Complete(v) /\ ~Failed(Encode(Of(name), v))

\* What Herdr can answer with: any result, a few samples each, and every
\* sample of the one the method asks for.
Answers(names, fillings, all) ==
    {<<name, filling, choice>> \in
        UNION {{name} \X fillings \X (IF all THEN ChoicesOf(name) ELSE {AnyChoice}) :
                   name \in names} :
        CanSend(name, SampleOf("herdr", name, filling, choice))}

AnyResultAnswer == Answers(DOMAIN DeclaredResults, {<<"full", "full">>}, FALSE)

AnswersOf ==
    [r \in DOMAIN DeclaredResults |-> Answers({r}, Fillings, TRUE) \cup AnyResultAnswer]

ResultOf(method) ==
    LET m == DeclaredMethods[method] IN
    CASE m.kind = "call" -> {m.response}
      [] m.kind = "stream" -> {"SubscriptionStartedResponse"}
      [] m.kind = "any" -> {}

\* ... or with a result of a later version, with null, with an error, with
\* both, or with neither.
OtherAnswers == {<<"unknown">>, <<"null">>, <<"error">>, <<"both">>, <<"neither">>}

AnswersTo(method) ==
    OtherAnswers \cup AnyResultAnswer \cup UNION {AnswersOf[r] : r \in ResultOf(method)}

AnswerLine(answer) ==
    LET error == "error" :> Object("code" :> Text(<<"code">>)) IN
    CASE answer = <<"unknown">> ->
            Object("result" :> Object("type" :> Text(<<"from the future">>)))
      [] answer = <<"null">> -> Object("result" :> JNull)
      [] answer = <<"error">> -> Object(error)
      [] answer = <<"both">> -> Object(error @@ "result" :> JNull)
      [] answer = <<"neither">> -> Object(<<>>)
      [] OTHER -> Object("result" :> Encode(Of(answer[1]), SampleAt("herdr", answer)))

CanPush(envelope) ==
    Complete(envelope.elems.Data) /\ ~Failed(Encode(Of("EventEnvelope"), envelope))

EventSamples ==
    {s \in {<<"EventEnvelope", filling, <<name, "pointer">>>> :
                filling \in Fillings, name \in cloneEvent} :
        CanPush(SampleAt("herdr", s))}

-----------------------------------------------------------------------------
(* The code. *)

\* The outcome of a call: an error and where it arose, or a value.
Returns(op, value) == [op |-> op, value |-> value]
Failure(op) == Returns(op, Nil)

\* requestLine: no parameters are the empty object.
requestLine(sample) ==
    IF sample = <<>> THEN Object(<<>>)
    ELSE Encode(Of(sample[1]), SampleAt("caller", sample))

decodeResponseLine(line) ==
    CASE "error" \in DOMAIN line.elems -> Failure("herdr")
      [] "result" \notin DOMAIN line.elems -> Failure("decode")
      [] OTHER -> Returns("", line.elems["result"])

Decoded(result) == IF Failed(result) THEN Failure("decode") ELSE Returns("", result)

decodeResult(raw) == Decoded(DecodeResult("caller", raw))

AssertAck(decoded) ==
    IF decoded.op = "" /\ Dynamic(decoded.value) # "SubscriptionStartedResponse"
    THEN Failure("decode") ELSE decoded

checkSubscriptionAck(raw) == AssertAck(decodeResult(raw))

\* Mutant: a method returns whatever was decoded.
AssertedNothing(method, decoded) == decoded

\* The type assertion that ends a generated method.
Asserted(method, decoded) ==
    IF /\ method.kind = "call" /\ decoded.op = ""
       /\ Dynamic(decoded.value) # method.response
    THEN Failure("decode") ELSE decoded

\* The body of a generated method, from the line on.
MethodBody(method, line) ==
    LET response == decodeResponseLine(line)
    IN IF response.op # "" \/ method.kind = "stream" THEN response
       ELSE Asserted(method, decodeResult(response.value))

Done(outcome) == [phase |-> "done", method |-> call.method, answer |-> call.answer,
                  outcome |-> outcome]

\* A call that fails to encode its parameters sends nothing, and neither does
\* Subscribe without a subscription.
Begun(method, params, line) ==
    LET none == method = "EventsSubscribe" /\ line.elems["Subscriptions"].elems = <<>>
        Ended(op) == [phase |-> "unsent", method |-> method, params |-> params, op |-> op]
    IN CASE none -> Ended("validate")
         [] ~none /\ Failed(line) -> Ended("encode")
         [] OTHER -> [phase |-> "sent", method |-> method, params |-> params,
                      line |-> line]

Begin ==
    /\ call = NoCall
    /\ \E method \in CalledMethods :
            \E params \in ParamsOf(method) : 
                call' = Begun(method, params, requestLine(params))

\* Herdr has read the request and decides what to answer.
HerdrReads ==
    /\ call.phase = "sent"
    /\ call' = [phase |-> "read", method |-> call.method]

HerdrAnswers ==
    /\ call.phase = "read"
    /\ \E answer \in AnswersTo(call.method) :
            call' = [phase |-> "answered", method |-> call.method, answer |-> answer,
                     line |-> AnswerLine(answer)]

\* The raw acknowledgement of a stream is left to the caller.
ReturnFromCall ==
    /\ call.phase = "answered" /\ call.method # "EventsSubscribe"
    /\ \E method \in {Method} : \E outcome \in {MethodBody(method, call.line)} :
            call' = IF outcome.op = "" /\ method.kind = "stream"
                    THEN [phase |-> "opened"] ELSE Done(outcome)

\* The stream of a Subscribe that fails is closed.
Acked(opened) == IF opened.op = "" THEN checkSubscriptionAck(opened.value) ELSE opened

ReturnFromSubscribe ==
    /\ call.phase = "answered" /\ call.method = "EventsSubscribe"
    /\ \E outcome \in {Acked(MethodBody(Method, call.line))} :
            call' = IF outcome.op = "" THEN [phase |-> "subscribed"] ELSE Done(outcome)

underscoreName(name) == <<name[1], "_", name[3]>>

dottedNames ==
    {"pane"} \X {"."} \X {"output_matched", "agent_status_changed", "scroll_changed"}

Frame(name, payload) ==
    IF name \in dottedNames
    THEN Object("Event" :> Text(name) @@ "Data" :>
            Object([f \in DOMAIN payload.elems \ {"type"} |-> payload.elems[f]]))
    ELSE Object("Event" :> Text(underscoreName(name)) @@ "Data" :> payload)

IsMisread(name, decoded) ==
    Failed(decoded) \/ Declared[Dynamic(decoded)].event # name

DecodeFrame(elems) == DecodeEvent("test", elems.Event.text, elems.Data)

Sent(sample, frame, name) ==
    IF IsMisread(name, DecodeFrame(frame.elems))
    THEN [phase |-> "refused", event |-> sample]
    ELSE [phase |-> "pushed", event |-> sample, line |-> frame]

\* Not with a nil event, which is refused.
TestServerSends ==
    /\ call.phase = "subscribed"
    /\ \E sample \in {s \in EventSamples : s[2] = <<"full", "full">>} :
        \E name \in {Declared[sample[3][1]].event} :
        \E payload \in {Encode(Iface("Event"), SampleAt("herdr", sample).elems.Data)} :
        \E frame \in {Frame(name, payload)} :
            call' = Sent(sample, frame, name)

HerdrPushes ==
    /\ call.phase = "subscribed"
    /\ \E sample \in EventSamples :
            call' = [phase |-> "pushed", event |-> sample,
                     line |-> Encode(Of("EventEnvelope"), SampleAt("herdr", sample))]

\* The next event of the stream.
NextEvent ==
    /\ call.phase = "pushed"
    /\ LET elems == call.line.elems
       IN call' = [phase |-> "event", event |-> call.event,
                   value |-> DecodeEvent("caller", elems.Event.text, elems.Data)]

\* The caller goes on, with other calls or with the next event.
CallerGoesOn ==
    \/ call.phase \in {"done", "unsent", "opened"} /\ call' = NoCall
    \/ call.phase = "event" /\ call' \in {NoCall, [phase |-> "subscribed"]}

ApiInit == call = NoCall

ApiNext ==
    \/ Begin \/ HerdrReads \/ HerdrAnswers
    \/ ReturnFromCall \/ ReturnFromSubscribe
    \/ HerdrPushes \/ TestServerSends \/ NextEvent
    \/ CallerGoesOn

-----------------------------------------------------------------------------
(* Properties. *)

\* What Herdr reads is what the caller said, with an absent field, a null one
\* and a zero one told apart; a request that would mean nothing (no popup
\* size, no agent view value) is refused before a connection is opened
\* (emit.go emitMarshal, optional.go, unions_manual.go).
RequestIntact ==
    /\ call.phase = "sent" /\ call.params # <<>> =>
        LET shape == Of(call.params[1])
            got == Decode("herdr", shape, call.line)
            said == SampleAt("caller", call.params)
        IN ~IsMeaningless(shape, said) /\ Erase(got) = Erase(Received(shape, said))
    /\ call.phase = "unsent" /\ call.op = "encode" =>
        IsMeaningless(Of(call.params[1]), SampleAt("caller", call.params))

\* A typed method returns the whole result that Herdr sent, of the type it
\* promises, and no method returns anything if Herdr sent something else
\* (methods_gen.go, DecodeResult).
ResultIntact ==
    call.phase = "done" =>
        LET wanted == call.answer \notin OtherAnswers /\
                (Method.kind = "any" \/ call.answer[1] \in ResultOf(call.method))
            sent == SampleAt("herdr", call.answer)
        IN IF wanted
           THEN /\ call.outcome.op = ""
                /\ Dynamic(call.outcome.value) = call.answer[1]
                /\ Erase(call.outcome.value.elems[call.answer[1]]) =
                        Erase(Received(Of(call.answer[1]), sent))
           ELSE call.outcome.op # ""

\* NextEvent returns the event that Herdr pushed, under whichever of its two
\* names, and an event for every line (events_gen.go DecodeEvent); a test's
\* server sends every event, and Send's own check never gets in the way.
EventIntact ==
    /\ call.phase # "refused"
    /\ call.phase = "event" =>
        Erase(call.value) = Erase(Received(Of("EventEnvelope"),
                                    SampleAt("herdr", call.event)).elems.Data)

\* What the caller gets, from a call or from a stream, is what Herdr sent.
AnswerIntact == ResultIntact /\ EventIntact

\* A Clone of a result, of parameters or of an event has their content and
\* shares no memory with them: the caller may change the one while another
\* goroutine reads the other (emit_clone.go).
CloneDetaches ==
    LET IsClone(name, v) == /\ Erase(Clone("clone", name, v)) = Erase(v)
                            /\ Owners(Clone("clone", name, v)) \subseteq {"clone"}
    IN CASE call.phase = "sent" /\ call.params # <<>> ->
                IsClone(call.params[1], SampleAt("caller", call.params))
         [] call.phase = "done" /\ call.outcome.op = "" ->
                LET name == Dynamic(call.outcome.value)
                IN IsClone(name, call.outcome.value.elems[name])
         [] call.phase = "event" ->
                IsClone("EventEnvelope",
                    Struct([Event |-> Text(<<>>), Data |-> call.value]))
         [] OTHER -> TRUE
=============================================================================

--------------------------- MODULE StreamCollect ---------------------------
(***************************************************************************)
(* What a command makes of a streamed response, line by line               *)
(* (pkg/runtime/stream.go).                                                *)
(*                                                                         *)
(* A line of server-sent events has a field ("event", "data", or "blank"   *)
(* for the empty line that ends an event; comments and the fields nobody   *)
(* reads change nothing and are left out); a line of NDJSON is its data.   *)
(* A stream's policy names the events that stop, pause and fail it, the    *)
(* events a stream must not end without, and for each collected field the  *)
(* events it is taken from, the path in their payload (or NoPath and a     *)
(* fixed value), the path it is collected at and how values of one field   *)
(* combine.                                                                *)
(***************************************************************************)
EXTENDS JsonPaths

NoPath == <<Field("-")>>

WholePayload == <<Field("$")>>

\* Data that is no JSON document, and the two halves of one that is.
NotJSON == [kind |-> "garbage", at |-> ""]

Half(side, doc) == [kind |-> side, at |-> doc]

NoDocument == {"garbage", "left", "right", "absent"}

\* decodeNumberPreserving of the data lines of an event, joined.
Decode(data) ==
    CASE Len(data) = 1 /\ data[1].kind \notin NoDocument -> data[1]
      [] Len(data) = 2 /\ data[1].kind = "left" /\ data[2].kind = "right" /\ data[1].at = data[2].at ->
           data[1].at
      [] OTHER -> NotJSON

-----------------------------------------------------------------------------
(* readSSE and readNDJSON: a line that is read, and the event, if any, that *)
(* it completes.  An event of an SSE response that no blank line ends is    *)
(* not one, and one without data is none either.                           *)

NothingRead == [event |-> "", data |-> <<>>]

ReadLine(reader, line) ==
    CASE line.field = "event" -> [reader EXCEPT !.event = line.text]
      [] line.field = "data" -> [reader EXCEPT !.data = Append(@, line.doc)]
      [] OTHER -> NothingRead

Completes(reader, line) == line.field = "blank" /\ reader.data # <<>>

-----------------------------------------------------------------------------
(* collectStream's handle *)

Value(payload, path) == IF path = WholePayload THEN payload ELSE GetNested(payload, path)

EventName(policy, event, payload) ==
    IF event # "" \/ policy.namePath = <<>> THEN event
    ELSE LET name == GetNested(payload, policy.namePath)
         IN IF name.kind = "leaf" THEN name.at ELSE ""

FieldValue(field, payload) == IF field.from = NoPath THEN field.value ELSE Value(payload, field.from)

\* A text that concat has joined is the sequence of its parts.
Text(parts) == [kind |-> "text", at |-> parts]

Parts(doc) ==
    CASE doc.kind = "text" -> doc.at
      [] doc.kind = "leaf" -> <<doc.at>>
      [] OTHER -> <<>>

\* reduceStreamField: what a field holds after one more value, or NotJSON where the
\* value does not fit.
Combine(reduce, existing, value) ==
    CASE reduce = "concat" ->
           IF value.kind # "leaf" \/ existing.kind \notin {"absent", "leaf", "text"} THEN NotJSON
           ELSE Text(Append(Parts(existing), value.at))
      [] reduce = "append" ->
           IF existing = Absent THEN Array(<<value>>)
           ELSE IF existing.kind = "array" THEN Array(Append(existing.at, value)) ELSE NotJSON
      [] OTHER -> value

ReduceField(event, payload, taken, field) ==
    LET value == FieldValue(field, payload)
        existing == GetNested(taken.doc, field.to)
        made == Combine(field.reduce, existing, value)
    IN IF \/ taken.state # "on" \/ event \notin field.events \/ value = Absent
          \/ field.reduce = "first" /\ existing # Absent
       THEN taken
       ELSE IF made = NotJSON \/ Conflict(taken.doc, field.to) THEN [taken EXCEPT !.state = "failed"]
       ELSE [taken EXCEPT !.doc = SetNested(@, field.to, made)]

\* The fields are looked up in the order of the policy, the first failure ends the stream.
Reduced(policy, event, payload, taken) ==
    LET reduced[k \in 0 .. Len(policy.fields)] ==
            IF k = 0 THEN taken ELSE ReduceField(event, payload, reduced[k - 1], policy.fields[k])
    IN reduced

Reduce(policy, event, payload, taken) == Reduced(policy, event, payload, taken)[Len(policy.fields)]

Live(policy, event, payload, taken) ==
    IF taken.state = "on" /\ event \in policy.liveEvents /\ Value(payload, policy.liveFrom) # Absent
    THEN [taken EXCEPT !.live = Append(@, Value(payload, policy.liveFrom))]
    ELSE taken

\* An error event fails the stream, a pause or a stop ends it; what comes after is not read.
Terminal(policy, event, taken) ==
    IF taken.state # "on" THEN taken
    ELSE CASE event \in policy.errors -> [taken EXCEPT !.state = "failed"]
           [] event \in policy.pauses \ policy.errors -> [taken EXCEPT !.state = "paused"]
           [] event \in policy.stops \ (policy.pauses \cup policy.errors) -> [taken EXCEPT !.state = "stopped"]
           [] OTHER -> taken

\* The live output is written where the user asks for it.
Handle(policy, live, taken, event, data) ==
    LET payload == Decode(data)
        name == EventName(policy, event, payload)
        reduced == Reduce(policy, name, payload, taken)
    IN IF payload = NotJSON THEN [taken EXCEPT !.state = "failed"]
       ELSE Terminal(policy, name, IF live THEN Live(policy, name, payload, reduced) ELSE reduced)

\* A collector that takes the end of the response for the end of the stream.
AtEndOfResponse(policy, taken, end) ==
    IF taken.state = "on" THEN [taken EXCEPT !.state = IF end = "eof" THEN "stopped" ELSE "failed"] ELSE taken

\* A response that breaks fails; one that ends too early fails where a stop is required.
AtEnd(policy, taken, end) ==
    IF taken.state # "on" THEN taken
    ELSE [taken EXCEPT !.state = IF end # "eof" \/ policy.requireStop THEN "failed" ELSE "stopped"]
=============================================================================

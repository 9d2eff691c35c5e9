------------------------------ MODULE SseFrames ------------------------------
(* streamRunEvents of web/api-client.ts: the frames of an event stream, cut  *)
(* into chunks anywhere, and a connection that may end anywhere.  A chunk    *)
(* ends between frames or inside one, so the bytes are counted in halves.    *)
EXTENDS Naturals, Sequences

CONSTANTS MaxFrames

VARIABLES
  wire,       \* the frames the server sends: "event", "empty" (no data), "bad" (no event)
  arrived,    \* halves of frames that were read
  handled,    \* frames that were taken from the buffer
  delivered,  \* the events given to onEvent, by their place on the wire
  frames      \* "asked", "open", "returned", "thrown"

frameVars == <<wire, arrived, handled, delivered, frames>>

\* The frames whose last byte has arrived.
Complete == arrived \div 2

\* The status, the type and the body of the response.
Answered(ok) ==
  /\ frames = "asked" /\ frames' = IF ok THEN "open" ELSE "thrown"
  /\ UNCHANGED <<wire, arrived, handled, delivered>>

\* A chunk; the loop over the buffer has come to its end.
Chunk(upto) ==
  /\ frames = "open" /\ handled = Complete /\ upto \in arrived + 1 .. 2 * Len(wire)
  /\ arrived' = upto
  /\ UNCHANGED <<wire, handled, delivered, frames>>

\* The loop: the next complete frame is taken from the buffer, unless it cannot be parsed or
\* is no event.
Frame ==
  /\ frames = "open" /\ handled < Complete
  /\ IF wire[handled + 1] = "bad" THEN frames' = "thrown" /\ UNCHANGED <<handled, delivered>>
     ELSE /\ handled' = handled + 1
          /\ delivered' = IF wire[handled'] = "event" THEN Append(delivered, handled') ELSE delivered
          /\ UNCHANGED frames
  /\ UNCHANGED <<wire, arrived>>

\* The body ends, after its last frame or inside one.
BodyEnds ==
  /\ frames = "open" /\ handled = Complete
  /\ frames' = IF arrived = 2 * handled THEN "returned" ELSE "thrown"
  /\ UNCHANGED <<wire, arrived, handled, delivered>>

\* The connection breaks or the signal aborts it.
ReadFails ==
  /\ frames = "asked" \/ (frames = "open" /\ handled = Complete)
  /\ frames' = "thrown"
  /\ UNCHANGED <<wire, arrived, handled, delivered>>

FramesInit ==
  /\ wire \in UNION {[1 .. n -> {"event", "empty", "bad"}] : n \in 0 .. MaxFrames}
  /\ arrived = 0 /\ handled = 0 /\ delivered = << >> /\ frames = "asked"

FramesNext ==
  \/ \E ok \in BOOLEAN : Answered(ok)
  \/ \E upto \in 1 .. 2 * MaxFrames : Chunk(upto)
  \/ Frame \/ BodyEnds \/ ReadFails

FramesSpec == FramesInit /\ [][FramesNext]_frameVars

FramesTypeOK ==
  /\ arrived \in 0 .. 2 * Len(wire) /\ handled \in 0 .. Len(wire)
  /\ delivered \in Seq(1 .. Len(wire))
  /\ frames \in {"asked", "open", "returned", "thrown"}

Delivered == {delivered[k] : k \in DOMAIN delivered}

\* However the chunks are cut, the events are delivered in order, each one once; and a
\* stream that returns has delivered every event of which a byte arrived.
FramesAreExact ==
  /\ \A j, k \in DOMAIN delivered : j < k => delivered[j] < delivered[k]
  /\ Delivered = {i \in 1 .. handled : wire[i] = "event"}
  /\ frames = "returned" => Delivered = {i \in 1 .. (arrived + 1) \div 2 : wire[i] = "event"}
===============================================================================

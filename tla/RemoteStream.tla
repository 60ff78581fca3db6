---------------------------- MODULE RemoteStream ----------------------------
(***************************************************************************)
(* A stream of messages between nodes (transport/http2/stream.rs, with the *)
(* writers and readers of client.rs and server.rs).  The writer task turns *)
(* the results of a message stream into frames and sends them through a    *)
(* bounded channel into an HTTP/2 body; the body arrives in chunks that    *)
(* need not end where frames end.                                          *)
(*                                                                         *)
(* A response is read by its consumer, poll by poll.  A request is read by *)
(* a task of the server that passes the messages on through a channel.     *)
(***************************************************************************)
EXTENDS Naturals, Sequences

CONSTANTS
  MaxItems,    \* bound: results of the message stream
  Capacity,    \* capacity of the channels
  Window       \* bytes of the body that can be on the way

\* Frames are the numbers of their messages, or one of these.
End == 0
Error == MaxItems + 1
Nested == MaxItems + 2    \* a stream or a tensor inside the stream

VARIABLES
  side,        \* "response" or "request"
  made,        \* the results the message stream gave
  writer,      \* where the writer task is, and the frame it is sending
  chan,        \* the channel into the body; closed once its receiver is gone
  body,        \* the bytes on the way: two of each frame
  link,        \* the connection: up, reset by the reader, lost
  buffer,      \* BinaryFrameParser::buffer
  frames,      \* parsed, and not yet handed on
  reader,      \* "reading", "failed" or "done"; who reads is the side's matter
  queue,       \* requests: the channel to the consumer
  seen,        \* what the consumer got
  consumer,    \* "open", "ended" (it saw the end), "dropped"
  expired      \* stream_timeout has passed

sending == <<made, writer, chan>>
reading == <<buffer, frames, reader, queue>>
using == <<seen, consumer, expired>>
vars == <<side, sending, body, link, reading, using>>

-----------------------------------------------------------------------------

\* StreamFrame::from_message and StreamFrame::error: what is not a single message
\* becomes an error frame.
from_message(result) == IF result = Nested THEN Error ELSE result

\* to_binary: the length, and the rest
to_binary(frame) == <<<<"length", frame>>, <<"rest", frame>>>>

\* Mutant of parse_all: what is left of a chunk is not kept.
ParseDiscards(bytes) ==
  [frames |-> [i \in 1 .. Len(bytes) \div 2 |-> bytes[2 * i][2]], left |-> <<>>]

\* parse_all: the complete frames of a buffer, and what is left of it
parse_all(bytes) ==
  [frames |-> [i \in 1 .. Len(bytes) \div 2 |-> bytes[2 * i][2]],
   left |-> IF Len(bytes) % 2 = 0 THEN <<>> ELSE <<bytes[Len(bytes)]>>]

IsEnd(frame) == frame \in {End, Error}

\* The response has come, or the request is on its way on a connection of its
\* own.
Init ==
  /\ side \in {"response", "request"}
  /\ made = <<>> /\ writer = [at |-> "next", frame |-> End]
  /\ chan = [rx |-> TRUE, items |-> <<>>] /\ body = <<>> /\ link = "up"
  /\ buffer = <<>> /\ frames = <<>> /\ reader = "reading" /\ queue = <<>>
  /\ seen = <<>> /\ consumer = "open" /\ expired = FALSE

-----------------------------------------------------------------------------
(* The writer task                                                         *)

\* stream.next() gives a message or an error; an error does not end the loop.
Take ==
  /\ writer.at = "next" /\ Len(made) < MaxItems
  /\ \E result \in {Len(made) + 1, Error, Nested} :
       /\ made' = Append(made, result)
       /\ writer' = [at |-> "send", frame |-> from_message(result)]
  /\ UNCHANGED <<side, chan, body, link, reading, using>>

\* The message stream has ended.
TakeEnd ==
  /\ writer.at = "next"
  /\ writer' = [at |-> "send", frame |-> End]
  /\ UNCHANGED <<side, made, chan, body, link, reading, using>>

Send ==
  /\ writer.at = "send" /\ chan.rx /\ Len(chan.items) < Capacity
  /\ chan' = [chan EXCEPT !.items = Append(@, writer.frame)]
  /\ writer' = [writer EXCEPT !.at = IF writer.frame = End THEN "done" ELSE "next"]
  /\ UNCHANGED <<side, made, body, link, reading, using>>

\* The receiver is gone: the loop breaks, and so does the end frame's send.
SendFails ==
  /\ writer.at = "send" /\ ~chan.rx
  /\ writer' = [writer EXCEPT !.at = "done"]
  /\ UNCHANGED <<side, made, chan, body, link, reading, using>>

\* hyper takes a frame out of the channel.
Transmit ==
  /\ chan.rx /\ chan.items # <<>> /\ Len(body) + 2 <= Window
  /\ body' = body \o to_binary(Head(chan.items))
  /\ chan' = [chan EXCEPT !.items = Tail(@)]
  /\ UNCHANGED <<side, made, writer, link, reading, using>>

-----------------------------------------------------------------------------
(* The network                                                             *)

\* The connection breaks: what was on the way may still arrive.
Lose ==
  /\ link = "up" /\ reader = "reading"
  /\ link' = "lost" /\ chan' = [rx |-> FALSE, items |-> <<>>]
  /\ body' \in {SubSeq(body, 1, n) : n \in 0 .. Len(body)}
  /\ UNCHANGED <<side, made, writer, reading, using>>

\* The reader has let go of the body; the sender's side hears of it.
Reset ==
  /\ link = "up" /\ reader = "done" /\ chan.rx
  /\ link' = "reset" /\ chan' = [rx |-> FALSE, items |-> <<>>] /\ body' = <<>>
  /\ UNCHANGED <<side, made, writer, reading, using>>

BodyEnded == link = "up" /\ writer.at = "done" /\ chan.items = <<>> /\ body = <<>>
BodyFailed == link = "lost" /\ body = <<>>

\* A chunk of the body: any part of what has arrived.
Chunk(n) ==
  /\ n \in 1 .. Len(body)
  /\ LET parsed == parse_all(buffer \o SubSeq(body, 1, n))
     IN buffer' = parsed.left /\ frames' = parsed.frames
  /\ body' = SubSeq(body, n + 1, Len(body))

-----------------------------------------------------------------------------
(* A response: body_to_frame_stream, polled by the consumer                *)

Polls == side = "response" /\ consumer = "open"

PollFrame ==
  /\ Polls /\ frames # <<>>
  /\ seen' = IF Head(frames) = End THEN seen ELSE Append(seen, Head(frames))
  /\ frames' = Tail(frames)
  /\ UNCHANGED <<side, sending, body, link, buffer, reader, queue, consumer, expired>>

Ends(how) == consumer' = how /\ reader' = "done" /\ frames' = <<>> /\ UNCHANGED <<seen, expired>>

\* take_while is asked when a chunk has come; once the time is over the stream
\* ends, and the consumer sees an end like any other.
PollChunk ==
  /\ Polls /\ frames = <<>> /\ reader = "reading" /\ body # <<>>
  /\ \/ /\ ~expired
        /\ \E n \in 1 .. Len(body) : Chunk(n)
        /\ UNCHANGED <<reader, using>>
     \/ expired /\ Ends("ended") /\ UNCHANGED <<body, buffer>>
  /\ UNCHANGED <<side, sending, link, queue>>

\* The body fails (an item that is an error) or ends.
PollBodyEnd ==
  /\ Polls /\ frames = <<>>
  /\ \/ /\ BodyFailed /\ reader = "reading"
        /\ reader' = "failed" /\ seen' = Append(seen, Error)
        /\ UNCHANGED <<frames, consumer, expired>>
     \/ (reader = "failed" \/ BodyEnded) /\ Ends("ended")
  /\ UNCHANGED <<side, sending, body, link, buffer, queue>>

-----------------------------------------------------------------------------
(* A request: parse_streaming_request, a task and a channel                *)

ReadChunk ==
  /\ side = "request" /\ reader = "reading" /\ frames = <<>>
  /\ \E n \in 1 .. Len(body) : Chunk(n)
  /\ UNCHANGED <<side, sending, link, reader, queue, using>>

\* A frame that ends and has no data is passed over, and so is every error frame,
\* before to_message looks at it.  A consumer that is gone ends the task.
PassOn ==
  /\ side = "request" /\ reader = "reading" /\ frames # <<>>
  /\ \/ /\ IsEnd(Head(frames)) /\ frames' = Tail(frames) /\ UNCHANGED <<reader, queue>>
     \/ /\ ~IsEnd(Head(frames)) /\ consumer = "open" /\ Len(queue) < Capacity
        /\ queue' = Append(queue, Head(frames)) /\ frames' = Tail(frames) /\ UNCHANGED reader
     \/ /\ ~IsEnd(Head(frames)) /\ consumer # "open"
        /\ reader' = "done" /\ frames' = <<>> /\ UNCHANGED queue
  /\ UNCHANGED <<side, sending, body, link, buffer, using>>

ReadBodyEnd ==
  /\ side = "request" /\ reader = "reading" /\ frames = <<>>
  /\ \/ BodyEnded /\ reader' = "done" /\ UNCHANGED queue
     \/ /\ BodyFailed /\ (Len(queue) < Capacity \/ consumer # "open")
        /\ queue' = IF consumer = "open" THEN Append(queue, Error) ELSE queue
        /\ reader' = "done"
  /\ UNCHANGED <<side, sending, body, link, buffer, frames, using>>

Receive ==
  /\ side = "request" /\ consumer = "open"
  /\ \/ /\ queue # <<>>
        /\ seen' = Append(seen, Head(queue)) /\ queue' = Tail(queue) /\ UNCHANGED consumer
     \/ /\ queue = <<>> /\ reader = "done"
        /\ consumer' = "ended" /\ UNCHANGED <<seen, queue>>
  /\ UNCHANGED <<side, sending, body, link, buffer, frames, reader, expired>>

-----------------------------------------------------------------------------

\* The consumer drops the stream (StreamHandle::drop cancels it), or the actor
\* drops a request's.
Drop ==
  /\ consumer = "open" /\ consumer' = "dropped"
  /\ IF side = "response" THEN reader' = "done" /\ frames' = <<>> /\ queue' = queue
                          ELSE queue' = <<>> /\ UNCHANGED <<reader, frames>>
  /\ UNCHANGED <<side, sending, body, link, buffer, seen, expired>>

Expire ==
  /\ side = "response" /\ ~expired /\ expired' = TRUE
  /\ UNCHANGED <<side, sending, body, link, reading, seen, consumer>>

Finished ==
  /\ writer.at = "done" /\ reader = "done" /\ consumer # "open"
  /\ UNCHANGED vars

Write == Take \/ TakeEnd \/ Send \/ SendFails
Read == PollFrame \/ PollChunk \/ PollBodyEnd \/ ReadChunk \/ PassOn \/ ReadBodyEnd \/ Receive
Next == Write \/ Transmit \/ Lose \/ Reset \/ Read \/ Drop \/ Expire \/ Finished

\* The message stream goes on giving results or ends, tasks are scheduled, a
\* consumer that holds a stream polls it, and HTTP/2 delivers data and resets.
Fairness == WF_vars(Write) /\ WF_vars(Transmit) /\ WF_vars(Reset) /\ WF_vars(Read)

Spec == Init /\ [][Next]_vars /\ Fairness

-----------------------------------------------------------------------------

Items(s) == {s[i] : i \in DOMAIN s}

\* The messages of the stream; its other results are errors.
Sent == {k \in DOMAIN made : made[k] = k}

\* The consumer gets the messages of the stream in their order, none twice and
\* none left out, however the body is cut into chunks: before a message come
\* exactly the messages with smaller numbers.
InOrder ==
  \A i \in DOMAIN seen : seen[i] # Error =>
    /\ seen[i] \in Sent
    /\ \A k \in Sent : k < seen[i] <=> \E j \in 1 .. i - 1 : seen[j] = k

\* A consumer that saw the end and no error has got all of the stream: unless the
\* time was over, or the errors of a request were passed over.
EndIsComplete ==
  consumer = "ended" /\ Error \notin Items(seen) =>
    \/ expired
    \/ Sent \subseteq Items(seen) /\ (side = "response" => Sent = DOMAIN made)

=============================================================================

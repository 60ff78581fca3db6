------------------------------- MODULE PyCodec ------------------------------
(* How a Python object travels in a message (crates/pulsing-py/src/actor.rs):
   pickled, as the buffers of a zero-copy descriptor in one message or, when
   they are large, as a stream of chunks a thread sends and the receiver puts
   together again, or as a tensor message.

   A byte is <<b, i>>, byte i of buffer b, so that a byte in the wrong place
   shows.  *)
EXTENDS Naturals, Sequences, SequencesExt

CONSTANTS
  Lengths,    \* the buffer lengths of the descriptors to send
  Threshold,  \* zerocopy_stream_threshold
  ChunkSizes, \* values of zerocopy_chunk_bytes
  Room        \* room of the channel between the thread and the receiver

VARIABLES
  obj,      \* the object sent
  where,    \* it is a whole message ("call"), or an item of a stream ("item")
  chunk,    \* zerocopy_chunk_bytes
  sender,   \* the thread that sends the chunks: [at |-> <<b, offset>>, state]
  channel,  \* frames in the channel
  bufs,     \* raw_buffers
  idx,      \* buf_idx, counted from 1
  got       \* the object the receiver has, or Nothing

vars == <<obj, where, chunk, sender, channel, bufs, idx, got>>

Nothing == [kind |-> "nothing", bufs |-> <<>>]
Bytes(b, n) == [i \in 1..n |-> <<b, i>>]
Buffers(ls) == [b \in DOMAIN ls |-> Bytes(b, ls[b])]
Total(ls) ==
  LET sum[n \in 0..Len(ls)] == IF n = 0 THEN 0 ELSE sum[n - 1] + ls[n]
  IN  sum[Len(ls)]
TotalBytes(bs) == Total([b \in DOMAIN bs |-> Len(bs[b])])
HeaderLengths == [b \in DOMAIN obj.bufs |-> Len(obj.bufs[b])]

\* The objects: any Python object, one with __zerocopy__, a TensorMessage.
Objects ==
  {[kind |-> "plain", bufs |-> <<>>]}
  \union [kind : {"zerocopy", "tensor"}, bufs : {Buffers(ls) : ls \in Lengths}]

\* PULSING_ZEROCOPY.
Modes == {"off", "auto", "force"}

\* encode_python_payload: how the object is sent under a mode; "refused" is an
\* error at the sender, before anything is sent.
Encoding(mode) ==
  CASE obj.kind = "tensor" -> "tensor"
    [] obj.kind = "plain" -> IF mode = "force" THEN "refused" ELSE "pickle"
    [] obj.kind = "zerocopy" ->
         IF mode = "off" THEN "pickle"
         ELSE IF obj.bufs = <<>> THEN "refused"
         ELSE IF TotalBytes(obj.bufs) >= Threshold THEN "stream" ELSE "single"

\* serialize_single and parse_zerocopy_single: the buffers one after the other,
\* and cut again by the lengths of the header.
Joined == FlattenSeq(obj.bufs)
CutAt(b) == Total(SubSeq(HeaderLengths, 1, b - 1))
ParseSingle ==
  [b \in DOMAIN HeaderLengths |->
     SubSeq(Joined, CutAt(b) + 1, CutAt(b) + HeaderLengths[b])]

Gets(o) == got' = o

\* Everything but a stream arrives whole.  An item of a stream is not looked
\* into when it is a stream itself: the reader has a message it must read on.
Encode ==
  /\ sender.state = "idle"
  /\ \E mode \in Modes :
       \/ /\ Encoding(mode) = "refused"
          /\ sender' = [sender EXCEPT !.state = "done"]
          /\ Gets([kind |-> "refused", bufs |-> <<>>])
       \/ /\ Encoding(mode) \in {"pickle", "tensor"}
          /\ sender' = [sender EXCEPT !.state = "done"]
          /\ Gets(obj)
       \/ /\ Encoding(mode) = "single"
          /\ sender' = [sender EXCEPT !.state = "done"]
          /\ Gets([kind |-> "zerocopy", bufs |-> ParseSingle])
       \/ /\ Encoding(mode) = "stream" /\ where = "call"
          /\ sender' = [sender EXCEPT !.state = "header"]
          /\ UNCHANGED got
       \/ /\ Encoding(mode) = "stream" /\ where = "item"
          /\ sender' = [sender EXCEPT !.state = "done"]
          /\ Gets([kind |-> "unread stream", bufs |-> <<>>])
  /\ UNCHANGED <<obj, where, chunk, channel, bufs, idx>>

-----------------------------------------------------------------------------
(* encode_zerocopy_stream: the thread.  *)

SendFrame(frame, next) ==
  /\ Len(channel) < Room
  /\ channel' = Append(channel, frame)
  /\ sender' = next
  /\ UNCHANGED <<obj, where, chunk, bufs, idx, got>>

SendHeader ==
  /\ sender.state = "header"
  /\ SendFrame([kind |-> "header", data |-> <<>>], [at |-> <<1, 0>>, state |-> "chunks"])

\* The chunks of one buffer after the other; a chunk ends with its buffer.
SendChunk ==
  /\ sender.state = "chunks" /\ sender.at[1] <= Len(obj.bufs)
  /\ LET b == sender.at[1]
         offset == sender.at[2]
         end == IF offset + chunk < Len(obj.bufs[b]) THEN offset + chunk
                ELSE Len(obj.bufs[b])
     IN  IF offset < Len(obj.bufs[b])
         THEN SendFrame([kind |-> "chunk", data |-> SubSeq(obj.bufs[b], offset + 1, end)],
                        [sender EXCEPT !.at = <<b, end>>])
         ELSE /\ sender' = [sender EXCEPT !.at = <<b + 1, 0>>]
              /\ UNCHANGED <<obj, where, chunk, channel, bufs, idx, got>>

SendEnd ==
  /\ sender.state = "chunks" /\ sender.at[1] > Len(obj.bufs)
  /\ sender' = [sender EXCEPT !.state = "done"]
  /\ UNCHANGED <<obj, where, chunk, channel, bufs, idx, got>>

\* The receiver is gone: the send fails and the thread ends.
GiveUp ==
  /\ sender.state \in {"header", "chunks"} /\ got # Nothing
  /\ sender' = [sender EXCEPT !.state = "done"]
  /\ channel' = <<>>
  /\ UNCHANGED <<obj, where, chunk, bufs, idx, got>>

-----------------------------------------------------------------------------
(* reassemble_zerocopy_stream.  *)

Missing(bs, b) == HeaderLengths[b] - Len(bs[b])
Full(bs, b) == b <= Len(bs) /\ Missing(bs, b) = 0

\* Mutant of Fill: a chunk for the next buffer goes to this one.
FillHere(state, data) ==
  LET b == IF state.idx <= Len(state.bufs) THEN state.idx ELSE Len(state.bufs)
  IN  [state EXCEPT !.bufs[b] = @ \o data]

\* The bytes of a chunk go to the buffer at idx and, what is left over, to the
\* next ones: the loops of the code, a byte at a time.
Fill(state, data) ==
  LET fill[n \in 0..Len(data)] ==
        IF n = 0 THEN state
        ELSE LET st == fill[n - 1]
                 free == {b \in st.idx..Len(st.bufs) : Missing(st.bufs, b) > 0}
             IN  IF free = {} THEN st
                 ELSE LET b == CHOOSE x \in free : \A y \in free : x <= y
                      IN  [bufs |-> [st.bufs EXCEPT ![b] = Append(@, data[n])], idx |-> b]
  IN  fill[Len(data)]

ReceiveHeader ==
  /\ channel # <<>> /\ Head(channel).kind = "header" /\ got = Nothing
  /\ channel' = Tail(channel)
  /\ bufs' = [b \in DOMAIN HeaderLengths |-> <<>>]
  /\ idx' = 1
  /\ UNCHANGED <<obj, where, chunk, sender, got>>

ReceiveChunk ==
  /\ channel # <<>> /\ Head(channel).kind = "chunk" /\ got = Nothing
  /\ channel' = Tail(channel)
  /\ LET filled == Fill([bufs |-> bufs, idx |-> idx], Head(channel).data)
     IN  /\ bufs' = filled.bufs
         /\ idx' = IF Full(filled.bufs, filled.idx) THEN filled.idx + 1 ELSE filled.idx
  /\ UNCHANGED <<obj, where, chunk, sender, got>>

\* The loop ends when the bytes the header told of have come; the rest of the
\* stream is dropped.
Reassembled ==
  /\ idx > 0 /\ got = Nothing
  /\ TotalBytes(bufs) >= Total(HeaderLengths)
  /\ Gets([kind |-> "zerocopy", bufs |-> bufs])
  /\ UNCHANGED <<obj, where, chunk, sender, channel, bufs, idx>>

\* The caller's task is dropped while it waits.
Abandon ==
  /\ sender.state \in {"header", "chunks"} /\ got = Nothing
  /\ Gets([kind |-> "abandoned", bufs |-> <<>>])
  /\ UNCHANGED <<obj, where, chunk, sender, channel, bufs, idx>>

Init ==
  /\ obj \in Objects /\ where \in {"call", "item"} /\ chunk \in ChunkSizes
  /\ sender = [at |-> <<1, 0>>, state |-> "idle"]
  /\ channel = <<>> /\ bufs = <<>> /\ idx = 0 /\ got = Nothing

SenderStep == SendHeader \/ SendChunk \/ SendEnd \/ GiveUp
ReceiverStep == ReceiveHeader \/ ReceiveChunk \/ Reassembled

Step == Encode \/ SenderStep \/ ReceiverStep

Next == Step \/ Abandon

Spec == Init /\ [][Next]_vars /\ WF_vars(Step)

-----------------------------------------------------------------------------
\* The receiver gets the object that was sent, whatever the lengths of its
\* buffers (empty ones too) and of the chunks; the exceptions are a large
\* object written into a stream, and a caller who did not wait.
RoundTrip ==
  got.kind \notin {"nothing", "refused", "abandoned", "unread stream"} => got = obj

=============================================================================

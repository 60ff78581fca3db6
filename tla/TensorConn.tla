----------------------------- MODULE TensorConn -----------------------------
(***************************************************************************)
(* Tensors on raw TCP connections (transport/tensor.rs, the client's       *)
(* tensor pool, the server's serve_raw_tensor).  A connection carries one  *)
(* request at a time and no identifiers: that an answer belongs to the     *)
(* request it is read for rests on which connections go back to the pool.  *)
(***************************************************************************)
EXTENDS Naturals, Sequences, SequencesExt

CONSTANTS
  Callers, Conns,
  MaxPooled,      \* max_connections_per_host
  MaxRequests     \* PULSING_TENSOR_MAX_REQUESTS_PER_CONNECTION

VARIABLES
  pool,      \* tensor_pool: connections, the last pushed is the first taken
  conn,      \* the connections
  call       \* the callers

vars == <<pool, conn, call>>

-----------------------------------------------------------------------------

\* A connection the client has dropped is forgotten here: what the server still
\* does for its request has no way back.
\* client: the client's end; server: the loop that serves it, and the request it
\* handles, named after its caller, 0 once its caller has given it up; up and
\* down: the frames on the way; eof: the client's end knows that the server has
\* closed.
NoConn == [client |-> "none", server |-> "none", request |-> 0, served |-> 0,
           up |-> <<>>, down |-> <<>>, eof |-> FALSE]
NoCall == [step |-> "idle", conn |-> 0, kind |-> "ask"]

Kinds == {"ask", "tell"}

Init ==
  /\ pool = <<>>
  /\ conn = [k \in Conns |-> NoConn]
  /\ call = [c \in Callers |-> NoCall]

At(c, step) == call[c].step = step

\* exchange_raw_tensor begins; tell_tensor awaits an Ack in the same way.
Begin(c) ==
  /\ At(c, "idle")
  /\ \E kind \in Kinds :
       call' = [call EXCEPT ![c] = [NoCall EXCEPT !.step = "take", !.kind = kind]]
  /\ UNCHANGED <<pool, conn>>

-----------------------------------------------------------------------------
(* The client                                                              *)

\* One round of the loop: a pooled connection is popped and probed; one that is
\* closed or has unread bytes is dropped.
take_tensor_connection(c) ==
  /\ At(c, "take") /\ pool # <<>>
  /\ LET k == pool[Len(pool)]
         fresh == ~conn[k].eof /\ conn[k].down = <<>>
     IN /\ conn' = [conn EXCEPT ![k] = IF fresh THEN [@ EXCEPT !.client = "lent"] ELSE NoConn]
        /\ call' = IF fresh THEN [call EXCEPT ![c].step = "write", ![c].conn = k] ELSE call
  /\ pool' = SubSeq(pool, 1, Len(pool) - 1)

Ends(c) == call' = [call EXCEPT ![c] = NoCall]

Connect(c) ==
  /\ At(c, "take") /\ pool = <<>>
  /\ \/ \E k \in Conns :
          /\ conn[k] = NoConn
          /\ conn' = [conn EXCEPT ![k] = [NoConn EXCEPT !.client = "lent", !.server = "reading"]]
          /\ call' = [call EXCEPT ![c].step = "write", ![c].conn = k]
     \/ Ends(c) /\ UNCHANGED conn
  /\ UNCHANGED pool

\* write_raw_tensor_frame: a frame above the limits is refused before a byte is
\* written; a connection the server has closed may still take it.
Write(c) ==
  /\ At(c, "write")
  /\ LET k == call[c].conn
     IN \/ /\ call' = [call EXCEPT ![c].step = "read"]
           /\ conn' = [conn EXCEPT ![k].up = Append(@, [id |-> c, kind |-> call[c].kind])]
        \/ Ends(c) /\ conn' = [conn EXCEPT ![k] = NoConn]
  /\ UNCHANGED pool

\* return_tensor_connection
Returned(k) ==
  IF Len(pool) < MaxPooled
    THEN pool' = Append(pool, k) /\ conn' = [conn EXCEPT ![k].client = "pooled", ![k].down = Tail(@)]
    ELSE pool' = pool /\ conn' = [conn EXCEPT ![k] = NoConn]

\* The answer is read, whatever its kind; an unexpected one gives an error, and
\* the connection back all the same.
Read(c) ==
  /\ At(c, "read") /\ conn[call[c].conn].down # <<>>
  /\ Ends(c) /\ Returned(call[c].conn)

\* The server closed the connection, or it broke: the connection is dropped.
ReadFails(c) ==
  /\ At(c, "read")
  /\ conn[call[c].conn].eof /\ conn[call[c].conn].down = <<>>
  /\ Ends(c)
  /\ conn' = [conn EXCEPT ![call[c].conn] = NoConn]
  /\ UNCHANGED pool

\* Of the mutant: a connection with what is under way for a request that nobody
\* waits for.
GivenUp(k) ==
  [conn[k] EXCEPT !.up = [i \in DOMAIN @ |-> [@[i] EXCEPT !.id = 0]], !.request = 0,
                  !.down = [i \in DOMAIN @ |-> [@[i] EXCEPT !.id = 0]]]

\* Mutant of TimesOut: the connection goes back to the pool.
TimesOutReturns(c) ==
  /\ At(c, "read") /\ Len(pool) < MaxPooled
  /\ Ends(c)
  /\ pool' = Append(pool, call[c].conn)
  /\ conn' = [conn EXCEPT ![call[c].conn] = [GivenUp(call[c].conn) EXCEPT !.client = "pooled"]]

\* stream_timeout, or the caller goes away: the connection is dropped with the
\* exchange, whatever was written or read of it.
TimesOut(c) ==
  /\ At(c, "read")
  /\ Ends(c)
  /\ conn' = [conn EXCEPT ![call[c].conn] = NoConn]
  /\ UNCHANGED pool

-----------------------------------------------------------------------------
(* The server                                                              *)

\* read_raw_tensor_frame, and the handler is called
ServeRequest(k) ==
  /\ conn[k].server = "reading" /\ conn[k].up # <<>>
  /\ conn' = [conn EXCEPT ![k].server = Head(conn[k].up).kind, ![k].request = Head(conn[k].up).id,
                          ![k].up = Tail(@)]
  /\ UNCHANGED <<pool, call>>

\* The handler's result is written; after the last request of a connection the
\* loop returns, which closes it.
Answer(k) ==
  /\ conn[k].server \in Kinds
  /\ \E kind \in IF conn[k].server = "ask" THEN {"tensor", "single", "failed"} ELSE {"ack", "failed"} :
       conn' = [conn EXCEPT ![k] =
                  [conn[k] EXCEPT !.down = Append(@, [id |-> conn[k].request, kind |-> kind]),
                            !.request = 0, !.served = @ + 1,
                            !.server = IF conn[k].served + 1 >= MaxRequests THEN "closed" ELSE "reading"]]
  /\ UNCHANGED <<pool, call>>

\* The loop ends: the server shuts down, or the client's end is gone and there is
\* nothing to read, or nobody to write to.
Close(k) ==
  /\ conn[k].server \in {"reading"} \cup Kinds
  /\ conn' = [conn EXCEPT ![k].server = "closed", ![k].request = 0]
  /\ UNCHANGED <<pool, call>>

\* The client's end hears of it; what was written before has arrived by then.
HearClose(k) ==
  /\ conn[k].server = "closed" /\ ~conn[k].eof
  /\ conn' = [conn EXCEPT ![k].eof = TRUE]
  /\ UNCHANGED <<pool, call>>

Next ==
  \/ \E c \in Callers : \/ Begin(c) \/ take_tensor_connection(c) \/ Connect(c) \/ Write(c)
                        \/ Read(c) \/ ReadFails(c) \/ TimesOut(c)
  \/ \E k \in Conns : ServeRequest(k) \/ Answer(k) \/ Close(k) \/ HearClose(k)

Spec == Init /\ [][Next]_vars

-----------------------------------------------------------------------------

\* What a caller can read is the answer to its own request and of its kind,
\* whatever was timed out, dropped, closed or pooled before.
AnswerIsMine ==
  \A c \in Callers :
    At(c, "read") =>
      \A frame \in Range(conn[call[c].conn].down) :
        /\ frame.id = c
        /\ frame.kind \in IF call[c].kind = "ask" THEN {"tensor", "single", "failed"} ELSE {"ack", "failed"}
=============================================================================

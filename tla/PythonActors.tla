----------------------------- MODULE PythonActors ---------------------------
(* Actors written in Python (crates/pulsing-py/src/actor.rs): their handlers
   run on a fixed pool of executor threads (python_executor.rs), coroutines on
   one event loop, and everything that touches a Python object holds the
   interpreter lock.

   A step that takes the lock and gives it back is one action guarded by
   gil = Free; the lock is a variable because one place keeps it while it
   waits: a generator's send into a full channel.  The actor's own loop (one
   message at a time, in the order of the mailbox) is that of the Supervision
   module.  *)
EXTENDS Integers, Sequences, FiniteSets, Functions

CONSTANTS
  Actors,     \* Python actors, numbers: a handler asks only higher ones
  Threads,    \* executor threads
  Calls,      \* asks, numbered in the order they are made
  Buffer,     \* room of a stream's channel
  MaxItems,   \* bound on the items of a stream
  MaxStreams, \* bound on the calls answered with a stream
  Stoppable   \* the actors that may be stopped

VARIABLES
  gil,      \* the thread that keeps the interpreter lock, or Free
  actor,    \* actor -> "unborn", "spawning", "idle", "busy", "ended"
  mailbox,  \* actor -> calls not yet received
  queue,    \* tasks in the executor's channel: <<kind, actor or call>>
  thread,   \* thread -> its task, or Idle
  coro,     \* call -> where its coroutine is
  call,     \* call -> [to, by, state]: `to' is the actor that has it,
            \* `by' the call that asks, or
            \* Here or Elsewhere for a caller that is no handler
  trace,    \* actor -> the call whose trace context its handler holds, or Nobody
  stream    \* call -> the stream it answers with

vars == <<gil, actor, mailbox, queue, thread, coro, call, trace, stream>>

Free == 0
Here == 0
Elsewhere == -1
Nobody == 0
Idle == <<>>
None == "none"
NoStream == [kind |-> None, buf |-> <<>>, made |-> 0, got |-> 0,
             writer |-> "open", reader |-> "idle"]

Ended(c) == call[c].state \in {"answered", "failed"}

-----------------------------------------------------------------------------
(* The executor: PythonExecutor.  *)

\* execute: the task goes to the channel, which has no bound.
Execute(task) == queue' = Append(queue, task)

\* A thread of the pool takes the next task; the threads are alike, so that it
\* is the first idle one loses no behaviour.
Take(t) ==
  /\ thread[t] = Idle /\ queue # <<>>
  /\ \A u \in Threads : thread[u] = Idle => t <= u
  /\ thread' = [thread EXCEPT ![t] = Head(queue)]
  /\ queue' = Tail(queue)
  /\ UNCHANGED <<gil, actor, mailbox, coro, call, trace, stream>>

-----------------------------------------------------------------------------
(* Start and stop of an actor.  *)

\* PyActorSystem::spawn, then the wrapper's on_start, which runs on the pool.
Spawn(a) ==
  /\ actor[a] = "unborn" /\ \A c \in Calls : call[c].state = "new"
  /\ actor' = [actor EXCEPT ![a] = "spawning"]
  /\ Execute(<<"start", a>>)
  /\ UNCHANGED <<gil, mailbox, thread, coro, call, trace, stream>>

\* Fails every call in the mailbox of an actor that ends.
Drop(a) ==
  /\ call' = [c \in Calls |-> IF c \in Range(mailbox[a])
                               THEN [call[c] EXCEPT !.state = "failed", !.to = 0]
                               ELSE call[c]]
  /\ mailbox' = [mailbox EXCEPT ![a] = <<>>]

\* on_start returns or raises; without a factory the actor then ends.
Started(t) ==
  /\ thread[t] # Idle /\ thread[t][1] = "start" /\ gil = Free
  /\ thread' = [thread EXCEPT ![t] = Idle]
  /\ LET a == thread[t][2]
     IN  \/ /\ actor' = [actor EXCEPT ![a] = "idle"]
            /\ UNCHANGED <<mailbox, call>>
         \/ actor' = [actor EXCEPT ![a] = "ended"] /\ Drop(a)
  /\ UNCHANGED <<gil, queue, coro, trace, stream>>

\* stop: between two messages; on_stop runs on the pool, whatever it does.
Stop(a) ==
  /\ actor[a] = "idle"
  /\ a \in Stoppable
  /\ actor' = [actor EXCEPT ![a] = "ended"]
  /\ Drop(a)
  /\ Execute(<<"stop", a>>)
  /\ UNCHANGED <<gil, thread, coro, trace, stream>>

Stopped(t) ==
  /\ thread[t] # Idle /\ thread[t][1] = "stop" /\ gil = Free
  /\ thread' = [thread EXCEPT ![t] = Idle]
  /\ UNCHANGED <<gil, actor, mailbox, queue, coro, call, trace, stream>>

-----------------------------------------------------------------------------
(* One ask.  *)

\* PyActorRef::ask and tell: encoded under the lock (an object that cannot be encoded
\* raises at the caller and is no ask), then delivered to the mailbox.
Deliver(c, a, by) ==
  /\ call[c].state = "new" /\ \A d \in Calls : d < c => call[d].state # "new"
  /\ actor[a] # "unborn"
  /\ IF actor[a] = "ended"
     THEN /\ call' = [call EXCEPT ![c] = [to |-> 0, by |-> by, state |-> "failed"]]
          /\ UNCHANGED mailbox
     ELSE /\ call' = [call EXCEPT ![c] = [to |-> a, by |-> by, state |-> "asked"]]
          /\ mailbox' = [mailbox EXCEPT ![a] = Append(@, c)]

Ask(c, a) ==
  /\ \/ gil = Free /\ Deliver(c, a, Here)
     \/ Deliver(c, a, Elsewhere)
  /\ UNCHANGED <<gil, actor, queue, thread, coro, trace, stream>>

\* Mutant of Receive: the actor goes on to the next message at once.
ReceiveAndGoOn(a) ==
  /\ actor[a] \in {"idle", "busy"} /\ mailbox[a] # <<>> /\ gil = Free
  /\ LET c == Head(mailbox[a])
     IN  call' = [call EXCEPT ![c].state = "submitted"] /\ Execute(<<"receive", c>>)
  /\ mailbox' = [mailbox EXCEPT ![a] = Tail(@)]
  /\ actor' = [actor EXCEPT ![a] = "busy"]
  /\ UNCHANGED <<gil, thread, coro, trace, stream>>

\* receive, up to its await on the pool: the message is decoded under the lock.
Receive(a) ==
  /\ actor[a] = "idle" /\ mailbox[a] # <<>> /\ gil = Free
  /\ LET c == Head(mailbox[a])
     IN  call' = [call EXCEPT ![c].state = "submitted"] /\ Execute(<<"receive", c>>)
  /\ mailbox' = [mailbox EXCEPT ![a] = Tail(@)]
  /\ actor' = [actor EXCEPT ![a] = "busy"]
  /\ UNCHANGED <<gil, thread, coro, trace, stream>>

\* The actor answers call c and is ready for the next message.
Answer(c, how) ==
  /\ call' = [call EXCEPT ![c].state = how, ![c].to = 0]
  /\ actor' = [actor EXCEPT ![call[c].to] = "idle"]

\* What receive() may return.  A generator is iterated later, by a task of its
\* own; a StreamMessage comes with its channel; anything else is encoded, and
\* an error becomes the answer.
Finish(t, c) ==
  /\ thread' = [thread EXCEPT ![t] = Idle]
  /\ coro' = [coro EXCEPT ![c] = None]
  /\ \/ Answer(c, "answered") /\ UNCHANGED <<queue, stream>>
     \/ Answer(c, "failed") /\ UNCHANGED <<queue, stream>>
     \/ /\ Answer(c, "answered")
        /\ Cardinality({d \in Calls : stream[d].kind # None}) < MaxStreams
        /\ \E kind \in {"generator", "async_generator", "writer"} :
             /\ stream' = [stream EXCEPT ![c].kind = kind]
             /\ IF kind = "writer" THEN UNCHANGED queue
                ELSE Execute(<<"generate", c>>)
  /\ UNCHANGED <<gil, mailbox, trace>>

\* Mutant of CallReceive: the thread keeps the lock while it waits for the
\* coroutine.
CallReceiveLocked(t) ==
  /\ thread[t] # Idle /\ thread[t][1] = "receive" /\ gil = Free
  /\ LET c == thread[t][2]
     IN  /\ coro[c] = None
         /\ trace' = [trace EXCEPT ![call[c].to] = c]
         /\ coro' = [coro EXCEPT ![c] = "ready"]
         /\ gil' = t
         /\ UNCHANGED <<actor, mailbox, queue, thread, call, stream>>

\* The task of a receive: the trace context goes to the handler, the method is
\* called, and gives a result at once or a coroutine for the event loop.
CallReceive(t) ==
  /\ thread[t] # Idle /\ thread[t][1] = "receive" /\ gil = Free
  /\ LET c == thread[t][2]
     IN  /\ coro[c] = None
         /\ trace' = [trace EXCEPT ![call[c].to] = c]
         /\ \/ /\ coro' = [coro EXCEPT ![c] = "ready"]
               /\ UNCHANGED <<gil, actor, mailbox, queue, thread, call, stream>>
            \/ /\ thread' = [thread EXCEPT ![t] = Idle]
               /\ \E how \in {"answered", "failed"} : Answer(c, how)
               /\ UNCHANGED <<gil, mailbox, queue, coro, stream>>

\* future.result(): the thread waits without the lock.
ResultComes(t) ==
  /\ thread[t] # Idle /\ thread[t][1] = "receive" /\ gil = Free
  /\ LET c == thread[t][2]
     IN  \/ coro[c] = "done" /\ Finish(t, c)
         \/ /\ coro[c] = "raised"
            /\ thread' = [thread EXCEPT ![t] = Idle]
            /\ coro' = [coro EXCEPT ![c] = None]
            /\ Answer(c, "failed")
            /\ UNCHANGED <<gil, mailbox, queue, trace, stream>>

\* The coroutine of call c runs on the event loop: it returns, raises, or asks
\* another actor and awaits the answer.  It has read its trace context.
RunCoroutine(c) ==
  /\ coro[c] = "ready" /\ gil = Free
  /\ \/ /\ coro' = [coro EXCEPT ![c] = "done"]
        /\ UNCHANGED <<call, mailbox>>
     \/ /\ coro' = [coro EXCEPT ![c] = "raised"]
        /\ UNCHANGED <<call, mailbox>>
     \/ \E d \in Calls, a \in Actors :
          /\ a > call[c].to
          /\ Deliver(d, a, c)
          /\ coro' = [coro EXCEPT ![c] = "asking"]
  /\ trace' = [trace EXCEPT ![call[c].to] = Nobody]
  /\ UNCHANGED <<gil, actor, queue, thread, stream>>

\* The answer to the ask of c has been decoded: its coroutine goes on.
Resume(c) ==
  /\ coro[c] = "asking" /\ gil = Free
  /\ \E d \in Calls : call[d].by = c /\ Ended(d)
  /\ coro' = [coro EXCEPT ![c] = "done"]
  /\ UNCHANGED <<gil, actor, mailbox, queue, thread, call, trace, stream>>

-----------------------------------------------------------------------------
(* Streams.  *)

HasRoom(c) == Len(stream[c].buf) < Buffer
Dropped(c) == stream[c].reader = "gone"

\* The generator's task is over; the channel closes when its sender is dropped.
Over(t, c) ==
  /\ thread' = [thread EXCEPT ![t] = Idle]
  /\ gil' = Free

\* One turn of the loop over a generator: the next item (for an async generator
\* the event loop makes it), an end, an error, or an item that cannot be
\* encoded, which ends the task and tells the reader nothing.  The item, or the
\* error, is sent with the lock held.
Generate(t) ==
  /\ thread[t] # Idle /\ thread[t][1] = "generate" /\ gil = Free
  /\ LET c == thread[t][2]
         s == stream[c]
     IN  \/ /\ s.made < MaxItems
            /\ gil' = t
            /\ stream' = [stream EXCEPT ![c].made = @ + 1, ![c].writer = "sending"]
            /\ UNCHANGED thread
         \/ /\ gil' = t
            /\ stream' = [stream EXCEPT ![c].writer = "failing"]
            /\ UNCHANGED thread
         \/ \E how \in {"closed", "unencoded"} :
              /\ (how = "unencoded" => s.made < MaxItems)
              /\ stream' = [stream EXCEPT ![c].writer = how]
              /\ Over(t, c)
  /\ UNCHANGED <<actor, mailbox, queue, coro, call, trace>>

\* blocking_send: waits for room, or for the receiver to go; 0 is an error.
Send(t) ==
  /\ gil = t
  /\ LET c == thread[t][2]
         s == stream[c]
     IN  \/ /\ Dropped(c)
            /\ stream' = [stream EXCEPT ![c].writer = "closed"]
            /\ Over(t, c)
         \/ /\ ~Dropped(c) /\ HasRoom(c) /\ s.writer = "sending"
            /\ stream' = [stream EXCEPT ![c].buf = Append(@, s.made),
                                        ![c].writer = "open"]
            /\ gil' = Free /\ UNCHANGED thread
         \/ /\ ~Dropped(c) /\ HasRoom(c) /\ s.writer = "failing"
            /\ stream' = [stream EXCEPT ![c].buf = Append(@, 0), ![c].writer = "closed"]
            /\ Over(t, c)
  /\ UNCHANGED <<actor, mailbox, queue, coro, call, trace>>

\* PyStreamWriter: an item is encoded under the lock and waits for room without
\* it; close and error take the sender away.
Write(c) ==
  /\ stream[c].kind = "writer" /\ stream[c].writer = "open" /\ gil = Free
  /\ LET s == stream[c]
     IN  \/ /\ s.made < MaxItems
            /\ stream' = [stream EXCEPT ![c].made = @ + 1, ![c].writer = "writing"]
         \/ stream' = [stream EXCEPT ![c].writer = "erring"]
         \/ stream' = [stream EXCEPT ![c].writer = "closed"]
  /\ UNCHANGED <<gil, actor, mailbox, queue, thread, coro, call, trace>>

Written(c) ==
  /\ stream[c].writer \in {"writing", "erring"}
  /\ LET s == stream[c]
     IN  \/ /\ Dropped(c)
            /\ stream' = [stream EXCEPT ![c].writer = "closed"]
         \/ /\ ~Dropped(c) /\ HasRoom(c)
            /\ stream' = [stream EXCEPT
                 ![c].buf = Append(@, IF s.writer = "writing" THEN s.made ELSE 0),
                 ![c].writer = IF s.writer = "writing" THEN "open" ELSE "closed"]
  /\ UNCHANGED <<gil, actor, mailbox, queue, thread, coro, call, trace>>

-----------------------------------------------------------------------------
(* The reader of call c's stream: __anext__ is called by Python code, waits
   for an item in the Tokio runtime, and gives it back to Python, which needs
   the lock as the next call does.  The server reads for a caller on another
   node, without Python.  *)

Local(c) == call[c].by # Elsewhere

Next_(c) ==
  /\ call[c].state = "answered" /\ stream[c].kind # None
  /\ stream[c].reader = "idle" /\ (Local(c) => gil = Free)
  /\ stream' = [stream EXCEPT ![c].reader = "waiting"]
  /\ UNCHANGED <<gil, actor, mailbox, queue, thread, coro, call, trace>>

Pop(c) ==
  /\ stream[c].reader = "waiting"
  /\ LET s == stream[c]
     IN  \/ /\ s.buf # <<>> /\ Head(s.buf) # 0
            /\ stream' = [stream EXCEPT ![c].buf = Tail(@), ![c].got = Head(s.buf),
                                        ![c].reader = "idle"]
         \/ /\ s.buf # <<>> /\ Head(s.buf) = 0
            /\ stream' = [stream EXCEPT ![c].buf = Tail(@), ![c].reader = "error"]
         \/ /\ s.buf = <<>> /\ s.writer \in {"closed", "unencoded"}
            /\ stream' = [stream EXCEPT ![c].reader = "end"]
  /\ UNCHANGED <<gil, actor, mailbox, queue, thread, coro, call, trace>>

\* cancel, or the reader is dropped: only between two reads, because a read
\* that waits holds the stream's lock.
Cancel(c) ==
  /\ call[c].state = "answered" /\ stream[c].kind # None
  /\ stream[c].reader = "idle" /\ (Local(c) => gil = Free)
  /\ stream' = [stream EXCEPT ![c].reader = "gone", ![c].buf = <<>>]
  /\ UNCHANGED <<gil, actor, mailbox, queue, thread, coro, call, trace>>

-----------------------------------------------------------------------------
Init ==
  /\ gil = Free
  /\ actor = [a \in Actors |-> "unborn"]
  /\ mailbox = [a \in Actors |-> <<>>]
  /\ queue = <<>>
  /\ thread = [t \in Threads |-> Idle]
  /\ coro = [c \in Calls |-> None]
  /\ call = [c \in Calls |-> [to |-> 0, by |-> Here, state |-> "new"]]
  /\ trace = [a \in Actors |-> Nobody]
  /\ stream = [c \in Calls |-> NoStream]

ThreadStep(t) ==
  Take(t) \/ Started(t) \/ Stopped(t) \/ CallReceive(t) \/ ResultComes(t)
  \/ Generate(t) \/ Send(t)

CallStep(c) == RunCoroutine(c) \/ Resume(c) \/ Written(c)

ReaderStep(c) == Next_(c) \/ Pop(c)

\* What goes on by itself: threads, the event loop, the actors' loops and the
\* readers; user code that has the floor returns.
Run ==
  \/ \E a \in Actors : Receive(a)
  \/ \E t \in Threads : ThreadStep(t)
  \/ \E c \in Calls : CallStep(c) \/ ReaderStep(c) \/ Write(c)

Next ==
  \/ \E a \in Actors : Spawn(a) \/ Stop(a)
  \/ \E c \in Calls, a \in Actors : Ask(c, a)
  \/ \E c \in Calls : Cancel(c)
  \/ Run

\* No step can be undone, so that something runs while something can gives
\* everyone who can run a turn.
Spec == Init /\ [][Next]_vars /\ WF_vars(Run)

-----------------------------------------------------------------------------
\* The coroutine of a call finds its own trace context on the handler, although
\* the context is an attribute of the handler and set from another thread
\* before the event loop gets to run.
TraceIsMine ==
  \A c \in Calls : coro[c] = "ready" => trace[call[c].to] = c

\* A thread waits for room with the interpreter lock in its hand, and the
\* reader that would make room needs the lock.
Wedged ==
  \E t \in Threads :
    /\ gil = t
    /\ LET c == thread[t][2]
       IN  Local(c) /\ ~HasRoom(c) /\ stream[c].reader # "waiting"

\* Every thread of the pool waits for a coroutine that awaits an answer, and
\* the answers need a thread.
Starved ==
  \A t \in Threads :
    /\ thread[t] # Idle /\ thread[t][1] = "receive"
    /\ coro[thread[t][2]] = "asking"

\* Nothing in the machinery waits for ever: when nothing can run by itself any
\* more, every ask has its answer and no reader waits, unless a thread keeps
\* the lock on a full channel or the pool is starved.  (No step can be undone,
\* so that a machine that never comes to rest is one whose users go on asking.)
RestIsDone ==
  ~ENABLED Run =>
    \/ Wedged \/ Starved
    \/ \A c \in Calls :
         call[c].state \in {"new", "answered", "failed"} /\ stream[c].reader # "waiting"

\* Backpressure: a generator that runs ahead of its reader waits, and the
\* reader goes on.
StreamsFlow ==
  \A c \in Calls :
    (stream[c].kind # None /\ stream[c].reader = "idle") ~> stream[c].reader # "idle"
=============================================================================

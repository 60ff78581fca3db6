----------------------------- MODULE RemoteCall -----------------------------
(***************************************************************************)
(* Messages to a remote node, from Http2Client to the actor's mailbox: the *)
(* retries (retry.rs), the back-off of the connection pool (pool.rs), the  *)
(* server's routing and dispatch (server.rs, handler.rs), the bounded      *)
(* mailbox, and a network that loses connections and answers.  A request   *)
(* the client has given up on is still with the server and may be handled  *)
(* later.                                                                  *)
(*                                                                         *)
(* Time is in units of 100 ms for the two timers that compete, the back-   *)
(* off after a failed connect and the delay before a retry; the request's  *)
(* timeout is an event.                                                    *)
(***************************************************************************)
EXTENDS Naturals, Sequences

CONSTANTS
  Calls,       \* callers on the client's side
  MaxRetries,  \* RetryConfig::max_retries
  MaxErrors,   \* bound: consecutive connect errors that are told apart
  Capacity     \* capacity of the actor's mailbox

VARIABLES
  pooled,     \* the pool has an idle connection
  errors,     \* HostPool::error_count
  backoff,    \* units left of the back-off
  call,       \* the calls, as their callers see them
  wire,       \* per call, the attempts whose request the server may still act on
  actor,      \* the target on the server: absent, running, or stopped
  mailbox,    \* the requests the actor has yet to take
  handled     \* per call, how often its message was handled

clientVars == <<pooled, errors, backoff>>
serverVars == <<wire, actor, mailbox, handled>>
vars == <<clientVars, call, serverVars>>

-----------------------------------------------------------------------------

\* Http2Client::tell, Http2Client::ask (gossip) and send_message_full (the asks
\* of actors).
Kinds == {"tell", "gossip", "message"}

\* lost: a connection broke, or an error read as if one had.
NoCall == [step |-> "idle", kind |-> "message", attempt |-> 0, sleep |-> 0,
           reply |-> "none", lost |-> FALSE]

At(c, step) == call[c].step = step
Go(c, step) == call' = [call EXCEPT ![c].step = step]
Attempt(c) == <<c, call[c].attempt>>
Queued(c) == \E i \in DOMAIN mailbox : mailbox[i][1] = c

Init ==
  /\ pooled = FALSE /\ errors = 0 /\ backoff = 0
  /\ call = [c \in Calls |-> NoCall]
  /\ wire = [c \in Calls |-> {}]
  /\ actor = "absent" /\ mailbox = <<>>
  /\ handled = [c \in Calls |-> 0]

\* A caller calls again once nothing of its last call is on the way.
Begin(c) ==
  /\ At(c, "idle") /\ wire[c] = {} /\ ~Queued(c)
  /\ \E kind \in Kinds :
       call' = [call EXCEPT ![c] = [NoCall EXCEPT !.step = "connect", !.kind = kind]]
  /\ handled' = [handled EXCEPT ![c] = 0]
  /\ UNCHANGED <<clientVars, wire, actor, mailbox>>

-----------------------------------------------------------------------------
(* RetryExecutor                                                           *)

\* Mutant of is_retryable: a timeout is retried whatever the operation.
RetryableTimeout(class, kind) ==
  \/ class \in {"Connection", "Timeout"}
  \/ class = "ServerError" /\ kind = "gossip"

\* RetryableError::is_retryable with idempotent_only; only asks count as
\* idempotent.
is_retryable(class, kind) ==
  \/ class = "Connection"
  \/ class \in {"Timeout", "ServerError"} /\ kind = "gossip"

\* delay_for_attempt: initial_delay 100 ms, doubled, times 0.5 to 1.5.
Delays(attempt) ==
  LET base == 2 ^ (attempt - 1) IN (base \div 2) .. ((3 * base) \div 2)

\* execute: an attempt failed.  send_message_full does not retry.
AfterFailure(k, class, delay) ==
  IF k.kind # "message" /\ k.attempt < MaxRetries /\ is_retryable(class, k.kind)
    THEN [k EXCEPT !.step = "sleep", !.attempt = @ + 1, !.sleep = delay, !.reply = "none"]
    ELSE [k EXCEPT !.step = "idle", !.reply = "none"]

Fails(c, k, class) ==
  \E delay \in Delays(k.attempt + 1) :
    call' = [call EXCEPT ![c] = AfterFailure(k, class, delay)]

Awake(c) ==
  /\ At(c, "sleep") /\ call[c].sleep = 0
  /\ Go(c, "connect")
  /\ UNCHANGED <<clientVars, serverVars>>

-----------------------------------------------------------------------------
(* ConnectionPool::get_connection and Http2Client::send_request            *)

Sends(c, k) ==
  /\ call' = [call EXCEPT ![c] = [k EXCEPT !.step = "sent"]]
  /\ wire' = [wire EXCEPT ![c] = @ \cup {k.attempt}]
  /\ UNCHANGED <<actor, mailbox, handled>>

Reuse(c) ==
  /\ At(c, "connect") /\ pooled
  /\ Sends(c, call[c])
  /\ UNCHANGED clientVars

\* No connection is idle: back off, or connect.
CheckBackoff(c) ==
  /\ At(c, "connect")
  /\ IF backoff > 0 THEN Fails(c, call[c], "Unknown") ELSE Go(c, "dial")
  /\ UNCHANGED <<clientVars, serverVars>>

Dial(c) ==
  /\ At(c, "dial")
  /\ Sends(c, call[c])
  /\ pooled' = TRUE /\ errors' = 0
  /\ UNCHANGED backoff

\* should_backoff: 100 ms * 2 ^ error_count, from the last error on.
Window(n) == 2 ^ (IF n > 6 THEN 6 ELSE n)

DialFails(c) ==
  /\ At(c, "dial")
  /\ errors' = IF errors < MaxErrors THEN errors + 1 ELSE errors
  /\ backoff' = Window(errors')
  /\ Fails(c, call[c], "Connection")
  /\ UNCHANGED <<pooled, serverVars>>

\* The answer arrives.  Errors are classified by their text: an error of the
\* actor, or an actor's name in one, that speaks of a connection or a timeout
\* is taken for one.
Answered(c) ==
  /\ At(c, "sent")
  /\ \/ /\ call[c].reply = "ok"
        /\ call' = [call EXCEPT ![c].step = "idle"]
     \/ /\ call[c].reply = "error"
        /\ \E class \in {"Connection", "Timeout", "ServerError"} :
             Fails(c, [call[c] EXCEPT !.lost = @ \/ class = "Connection"], class)
  /\ UNCHANGED <<clientVars, serverVars>>

\* The connection is lost while the client waits.
Lost(c) ==
  /\ At(c, "sent")
  /\ pooled' = FALSE
  /\ \E class \in {"Connection", "Unknown"} : Fails(c, [call[c] EXCEPT !.lost = TRUE], class)
  /\ UNCHANGED <<errors, backoff, serverVars>>

\* request_timeout
TimedOut(c) ==
  /\ At(c, "sent")
  /\ Fails(c, call[c], "Timeout")
  /\ UNCHANGED <<clientVars, serverVars>>

-----------------------------------------------------------------------------
(* The server                                                              *)

\* The reply of one attempt reaches the call only if it still waits for it.
Reply(c, attempt, r) ==
  IF At(c, "sent") /\ attempt = call[c].attempt
    THEN call' = [call EXCEPT ![c].reply = r]
    ELSE UNCHANGED call

\* handle_gossip_request
HandleGossip(c) ==
  \E attempt \in wire[c] :
    /\ call[c].kind = "gossip"
    /\ wire' = [wire EXCEPT ![c] = @ \ {attempt}]
    /\ handled' = [handled EXCEPT ![c] = @ + 1]
    /\ \E r \in {"ok", "error"} : Reply(c, attempt, r)
    /\ UNCHANGED <<clientVars, actor, mailbox>>

\* dispatch_message, dispatch_tell: the sender is looked up by name or by named
\* path and the envelope waits for room in the mailbox.  A tell is accepted
\* when it is in the mailbox.
Dispatch(c) ==
  \E attempt \in wire[c] :
    /\ call[c].kind # "gossip" /\ actor = "running" /\ Len(mailbox) < Capacity
    /\ wire' = [wire EXCEPT ![c] = @ \ {attempt}]
    /\ mailbox' = Append(mailbox, <<c, attempt>>)
    /\ IF call[c].kind = "tell" THEN Reply(c, attempt, "ok") ELSE UNCHANGED call
    /\ UNCHANGED <<clientVars, actor, handled>>

\* actor_not_found, actor_stopped: status 500.
NotFound(c) ==
  \E attempt \in wire[c] :
    /\ call[c].kind # "gossip" /\ actor # "running"
    /\ wire' = [wire EXCEPT ![c] = @ \ {attempt}]
    /\ Reply(c, attempt, "error")
    /\ UNCHANGED <<clientVars, actor, mailbox, handled>>

\* The handler of a request whose client has gone is dropped.
Dropped(c) ==
  \E attempt \in wire[c] :
    /\ ~(At(c, "sent") /\ attempt = call[c].attempt)
    /\ wire' = [wire EXCEPT ![c] = @ \ {attempt}]
    /\ UNCHANGED <<clientVars, call, actor, mailbox, handled>>

\* The actor takes the next envelope and answers an ask.
Receive ==
  LET c == mailbox[1][1]
      attempt == mailbox[1][2]
  IN /\ mailbox # <<>> /\ actor = "running"
     /\ mailbox' = Tail(mailbox)
     /\ handled' = [handled EXCEPT ![c] = @ + 1]
     /\ IF call[c].kind = "tell" THEN UNCHANGED call
        ELSE \E r \in {"ok", "error"} : Reply(c, attempt, r)
     /\ UNCHANGED <<clientVars, wire, actor>>

\* The actor stops; its mailbox goes with it, and who waits for an answer
\* hears of it.
ActorStops ==
  /\ actor = "running" /\ actor' = "stopped"
  /\ mailbox' = <<>>
  /\ call' = [c \in Calls |->
       IF /\ call[c].kind = "message" /\ At(c, "sent")
          /\ \E i \in DOMAIN mailbox : mailbox[i] = Attempt(c)
         THEN [call[c] EXCEPT !.reply = "error"] ELSE call[c]]
  /\ UNCHANGED <<clientVars, wire, handled>>

ActorStarts ==
  /\ actor # "running" /\ actor' = "running"
  /\ UNCHANGED <<clientVars, call, wire, mailbox, handled>>

ActorRemoved ==
  /\ actor = "stopped" /\ actor' = "absent"
  /\ UNCHANGED <<clientVars, call, wire, mailbox, handled>>

-----------------------------------------------------------------------------

\* An idle connection is closed.
ConnectionCloses ==
  /\ pooled /\ pooled' = FALSE
  /\ UNCHANGED <<errors, backoff, call, serverVars>>

\* 100 ms pass.
Tick ==
  /\ backoff > 0 \/ \E c \in Calls : call[c].sleep > 0
  /\ backoff' = IF backoff > 0 THEN backoff - 1 ELSE 0
  /\ call' = [c \in Calls |-> IF call[c].sleep > 0 THEN [call[c] EXCEPT !.sleep = @ - 1]
                                                   ELSE call[c]]
  /\ UNCHANGED <<pooled, errors, serverVars>>

ClientStep(c) ==
  \/ Reuse(c) \/ CheckBackoff(c) \/ Dial(c) \/ DialFails(c)
  \/ Answered(c) \/ Lost(c) \/ TimedOut(c) \/ Awake(c)

ServerStep(c) == HandleGossip(c) \/ Dispatch(c) \/ NotFound(c) \/ Dropped(c)

Next ==
  \/ \E c \in Calls : Begin(c) \/ ClientStep(c) \/ ServerStep(c)
  \/ Receive \/ ActorStops \/ ActorStarts \/ ActorRemoved
  \/ ConnectionCloses \/ Tick

Spec == Init /\ [][Next]_vars

-----------------------------------------------------------------------------

\* A message to an actor is handled twice only if it was a tell and a connection
\* broke under it, or an error read as if one had: a request that timed out, and
\* may still be handled, is not sent again.
TwiceOnlyIfLost ==
  \A c \in Calls : call[c].kind # "gossip" /\ handled[c] > 1 =>
    call[c].kind = "tell" /\ call[c].lost
=============================================================================

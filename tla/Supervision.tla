---------------------------- MODULE Supervision ----------------------------
(***************************************************************************)
(* The task of one actor: run_supervision_loop around run_actor_instance   *)
(* (crates/pulsing-actor/src/system/runtime.rs) with its restart policy,   *)
(* restart limit, sliding window and backoff (supervision.rs), and the     *)
(* mailbox that outlives the instances.                                    *)
(*                                                                         *)
(* Every await of the loop is a phase; what user code (the factory,        *)
(* on_start, receive, on_stop) answers is a choice.  Time is a Tick; a     *)
(* timestamp is kept as its age.  recv() never returns None, for the       *)
(* loop's own ctx holds a sender of the mailbox.                           *)
(***************************************************************************)
EXTENDS Naturals, Sequences, FiniteSets

CONSTANTS
    Policy,        \* "Always", "OnFailure" or "Never"
    MaxRestarts,   \* SupervisionSpec::max_restarts
    Windows,       \* the values of restart_window, in ticks; 0 is None
    BackoffMin, BackoffMax,   \* in ticks
    JitterPercent, \* BackoffStrategy::jitter
    Messages,
    Capacity,      \* of the mailbox
    AttemptCap     \* the attempt from which on the backoff is BackoffMax

ASSUME SupervisionAssumption ==
    /\ Policy \in {"Always", "OnFailure", "Never"}
    /\ MaxRestarts \in Nat
    /\ Windows \subseteq Nat
    /\ BackoffMin \in Nat /\ BackoffMax \in Nat
    /\ JitterPercent \in 0..100
    /\ Capacity \in Nat \ {0}
    /\ AttemptCap \in Nat

VARIABLES
    window,      \* SupervisionSpec::restart_window
    phase,       \* where the task is
    reason,      \* StopReason of the instance that ended last
    restarts,    \* saturates at AttemptCap + 1 when windowed
    timestamps,  \* ages of restart_timestamps
    sleep,       \* ticks left of the backoff
    cancelled,   \* the actor's cancellation token
    mailbox,     \* queued messages
    current,     \* the message being handled, or <<>>
    outcome,     \* message -> what its sender was answered
    accepted, handled,   \* history: messages sent, messages received
    granted,     \* history: ages of the restarts granted (in the window)
    stop_hook    \* history: on_stop has run

vars == <<window, phase, reason, restarts, timestamps, sleep, cancelled, mailbox,
          current, outcome, accepted, handled, granted, stop_hook>>

Windowed == window # 0

mail == <<mailbox, current, outcome, accepted, handled>>
spec == <<restarts, timestamps, sleep, granted>>

Phases == {"create", "starting", "running", "handling", "stopping", "deciding",
           "backoff", "done", "crashed"}

Ended == phase \in {"done", "crashed"}

\* Every part of the task keeps its type; the mailbox its capacity.
TypeOK ==
    /\ window \in Windows
    /\ phase \in Phases
    /\ reason \in {"none", "Failed", "SystemShutdown"}
    /\ restarts \in 0..(MaxRestarts + AttemptCap + 1)
    /\ timestamps \in Seq(Nat)
    /\ cancelled \in BOOLEAN
    /\ mailbox \in Seq(Messages) /\ Len(mailbox) <= Capacity
    /\ current \in {<<>>} \cup {<<m>> : m \in Messages}
    /\ outcome \in [Messages -> {"unsent", "queued", "ok", "err", "dropped"}]
    /\ accepted \in Seq(Messages) /\ handled \in Seq(Messages)
    /\ granted \in Seq(Nat)
    /\ stop_hook \in BOOLEAN

Init ==
    /\ window \in Windows
    /\ phase = "create"
    /\ reason = "none"
    /\ restarts = 0
    /\ timestamps = <<>>
    /\ sleep = 0
    /\ cancelled = FALSE
    /\ mailbox = <<>>
    /\ current = <<>>
    /\ outcome = [m \in Messages |-> "unsent"]
    /\ accepted = <<>>
    /\ handled = <<>>
    /\ granted = <<>>
    /\ stop_hook = FALSE

-----------------------------------------------------------------------------
(* The environment *)

\* A caller's envelope is queued; a full mailbox makes the caller wait, a
\* mailbox whose receiver is gone refuses it.
Send(m) ==
    /\ ~Ended
    /\ outcome[m] = "unsent"
    /\ Len(mailbox) < Capacity
    /\ mailbox' = Append(mailbox, m)
    /\ accepted' = Append(accepted, m)
    /\ outcome' = [outcome EXCEPT ![m] = "queued"]
    /\ UNCHANGED <<window, phase, reason, spec, cancelled, current, handled, stop_hook>>

\* stop or shutdown cancels the token.
Cancel ==
    /\ ~cancelled
    /\ cancelled' = TRUE
    /\ UNCHANGED <<window, phase, reason, spec, mail, stop_hook>>

Aged(ages) == [i \in 1..Len(ages) |-> ages[i] + 1]

\* retain: the ages beyond the window go.  The oldest come first.
Retained(ages) ==
    SubSeq(ages, Cardinality({i \in 1..Len(ages) : ages[i] > window}) + 1, Len(ages))

\* Time passes.  Ages beyond the window are never looked at again.
Tick ==
    /\ ~Ended
    /\ timestamps' = Retained(Aged(timestamps))
    /\ granted' = IF Windowed THEN Retained(Aged(granted)) ELSE granted
    /\ sleep' = IF sleep = 0 THEN 0 ELSE sleep - 1
    /\ UNCHANGED <<window, phase, reason, restarts, cancelled, mail, stop_hook>>

-----------------------------------------------------------------------------
(* The task *)

\* The task is over: the receiver is dropped and with it every queued envelope,
\* and a message being handled loses its responder.
End(how) ==
    /\ phase' = how
    /\ outcome' = [m \in Messages |->
                      IF outcome[m] = "queued" THEN "dropped" ELSE outcome[m]]
    /\ mailbox' = <<>>
    /\ current' = <<>>

CreateOk ==
    /\ phase = "create"
    /\ phase' = "starting"
    /\ UNCHANGED <<window, reason, spec, cancelled, mail, stop_hook>>

\* A factory error ends the task without a look at the policy.
CreateErr ==
    /\ phase = "create"
    /\ End("done")
    /\ reason' = "Failed"
    /\ UNCHANGED <<window, spec, cancelled, accepted, handled, stop_hook>>

StartOk ==
    /\ phase = "starting"
    /\ phase' = "running"
    /\ UNCHANGED <<window, reason, spec, cancelled, mail, stop_hook>>

StartErr ==
    /\ phase = "starting"
    /\ phase' = "deciding"
    /\ reason' = "Failed"
    /\ UNCHANGED <<window, spec, cancelled, mail, stop_hook>>

\* select! takes either ready branch.
Receive ==
    /\ phase = "running"
    /\ mailbox # <<>>
    /\ phase' = "handling"
    /\ current' = <<Head(mailbox)>>
    /\ mailbox' = Tail(mailbox)
    /\ handled' = Append(handled, Head(mailbox))
    /\ UNCHANGED <<window, reason, spec, cancelled, outcome, accepted, stop_hook>>

\* Mutant of Answer: an error is logged and not sent.
AnswerOkOnly(result) ==
    /\ phase = "handling"
    /\ phase' = "running"
    /\ outcome' = IF result = "ok" THEN [outcome EXCEPT ![current[1]] = result]
                                   ELSE outcome
    /\ current' = <<>>
    /\ UNCHANGED <<window, reason, spec, cancelled, mailbox, accepted, handled, stop_hook>>

\* receive's result goes to the caller; an error does not end the instance.
Answer(result) ==
    /\ phase = "handling"
    /\ phase' = "running"
    /\ outcome' = [outcome EXCEPT ![current[1]] = result]
    /\ current' = <<>>
    /\ UNCHANGED <<window, reason, spec, cancelled, mailbox, accepted, handled, stop_hook>>

\* A panic in user code unwinds through the loop: the whole task ends.
Panic ==
    /\ phase \in {"create", "starting", "handling", "stopping"}
    /\ End("crashed")
    /\ UNCHANGED <<window, reason, spec, cancelled, accepted, handled, stop_hook>>

\* The other branch of the select!.
CancelSeen ==
    /\ phase = "running"
    /\ cancelled
    /\ phase' = "stopping"
    /\ reason' = "SystemShutdown"
    /\ UNCHANGED <<window, spec, cancelled, mail, stop_hook>>

\* on_stop, whose error matters only to a Normal exit.
StopHook ==
    /\ phase = "stopping"
    /\ phase' = "deciding"
    /\ stop_hook' = TRUE
    /\ UNCHANGED <<window, reason, spec, cancelled, mail>>

\* RestartPolicy::should_restart.
ShouldRestart(is_failure) ==
    \/ Policy = "Always"
    \/ Policy = "OnFailure" /\ is_failure

\* The policy allows a restart, and the instance was not told to stop.
Restartable ==
    /\ ShouldRestart(reason = "Failed")
    /\ reason # "SystemShutdown"

\* Mutant of LimitExceeded: the timestamp is pushed after the check.
LimitBeforePush ==
    IF Windowed THEN Len(timestamps) > MaxRestarts
                ELSE restarts + 1 > MaxRestarts

\* With this restart: the timestamps within the window, or all restarts.
LimitExceeded ==
    IF Windowed THEN Len(timestamps) + 1 > MaxRestarts
                ELSE restarts + 1 > MaxRestarts

\* Counting up to where neither the limit nor the backoff can tell.
Counted == IF restarts + 1 > MaxRestarts + AttemptCap THEN restarts ELSE restarts + 1

GiveUp ==
    /\ phase = "deciding"
    /\ ~Restartable \/ LimitExceeded
    /\ End("done")
    /\ restarts' = IF Restartable THEN Counted ELSE restarts
    /\ timestamps' = IF Restartable /\ Windowed THEN Append(timestamps, 0) ELSE timestamps
    /\ UNCHANGED <<window, reason, sleep, granted, cancelled, accepted, handled, stop_hook>>

\* BackoffStrategy::duration: exponential, capped, then jittered either way
\* (rounded outwards to whole ticks).
BackoffBase(attempt) ==
    LET d == BackoffMin * 2^attempt IN IF d > BackoffMax THEN BackoffMax ELSE d

BackoffRange(attempt) ==
    LET base == BackoffBase(attempt)
    IN  ((base * (100 - JitterPercent)) \div 100)
            .. ((base * (100 + JitterPercent) + 99) \div 100)

Restart ==
    /\ phase = "deciding"
    /\ Restartable
    /\ ~LimitExceeded
    /\ phase' = "backoff"
    /\ restarts' = Counted
    /\ timestamps' = IF Windowed THEN Append(timestamps, 0) ELSE timestamps
    /\ granted' = Append(granted, 0)
    /\ sleep' \in BackoffRange(IF restarts > AttemptCap THEN AttemptCap ELSE restarts)
    /\ UNCHANGED <<window, reason, cancelled, mail, stop_hook>>

\* Mutant of Wake: the new instance gets a new mailbox.
WakeEmpty ==
    /\ phase = "backoff"
    /\ sleep = 0
    /\ phase' = "create"
    /\ mailbox' = <<>>
    /\ UNCHANGED <<window, reason, spec, cancelled, current, outcome, accepted, handled,
                   stop_hook>>

\* The sleep does not watch the token.
Wake ==
    /\ phase = "backoff"
    /\ sleep = 0
    /\ phase' = "create"
    /\ UNCHANGED <<window, reason, spec, cancelled, mail, stop_hook>>

Task ==
    \/ CreateOk \/ CreateErr
    \/ StartOk \/ StartErr
    \/ Receive \/ (\E r \in {"ok", "err"} : Answer(r))
    \/ CancelSeen \/ StopHook
    \/ GiveUp \/ Restart \/ Wake
    \/ Panic

Next == (\E m \in Messages : Send(m)) \/ Cancel \/ Tick \/ Task

Spec == Init /\ [][Next]_vars

\* The runtime polls the task, user code returns, and time passes.
FairSpec == Spec /\ WF_vars(Task) /\ WF_vars(Tick)

-----------------------------------------------------------------------------
(* Properties *)

\* Within any window at most max_restarts restarts are granted (without one:
\* ever).  The ages are the history's, not the list the loop prunes.
RestartsBounded == Len(granted) <= MaxRestarts

\* The mailbox outlives the instances: until the task ends, what was received
\* followed by what is queued is what was sent, in order and without loss,
\* through any number of failed starts.  A sender that waits does so for a
\* message that is queued or in hand: after the task's end nobody waits.
NoMessageLost ==
    /\ ~Ended => handled \o mailbox = accepted
    /\ \A m \in Messages : outcome[m] = "queued" =>
          current = <<m>> \/ \E i \in 1..Len(mailbox) : mailbox[i] = m

\* The sender of every accepted message learns an outcome: an answer, an error,
\* or its responder dropped.  Without a window, that is: with one, a start that
\* keeps failing slowly enough keeps the queue waiting for ever.
EveryoneAnswered ==
    \A m \in Messages :
        (~Windowed /\ outcome[m] = "queued") ~> (outcome[m] # "queued")

=============================================================================

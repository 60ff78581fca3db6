--------------------------- MODULE CircuitBreaker ---------------------------
(***************************************************************************)
(* The circuit breaker of one remote transport (circuit_breaker.rs) and    *)
(* the callers that share it (Http2RemoteTransport in transport/http2).    *)
(*                                                                         *)
(* The state is under a lock that is released between a look and the       *)
(* transition the look leads to, and the two counters are atomics of their *)
(* own: every look, every counter and every transition is a step.          *)
(***************************************************************************)
EXTENDS Naturals

CONSTANTS
  Callers,            \* threads that use the transport
  FailureThreshold,   \* CircuitBreakerConfig; neither is 0
  SuccessThreshold

VARIABLES
  state,      \* CircuitState
  failures,   \* consecutive_failures, up to its threshold
  successes,  \* consecutive_successes, up to its threshold
  expired,    \* timeout_duration has passed since last_state_change
  step,       \* per caller: where it is
  count,      \* per caller: the value its fetch_add returned
  healed      \* no request fails any more and nobody overrides the breaker

breakerVars == <<state, failures, successes, expired>>
vars == <<breakerVars, step, count, healed>>

CircuitState == {"Closed", "Open", "HalfOpen"}

Steps == {"idle", "look", "look_half", "check", "half", "gate", "request",
          "ok", "count_ok", "judge_ok", "close",
          "failed", "count_failed", "judge_failed", "open"}

Init ==
  /\ state = "Closed" /\ failures = 0 /\ successes = 0 /\ expired = FALSE
  /\ step = [c \in Callers |-> "idle"]
  /\ count = [c \in Callers |-> 0]
  /\ healed = FALSE

Go(c, s) == step' = [step EXCEPT ![c] = s]

-----------------------------------------------------------------------------
(* State and transitions                                                   *)

\* Mutant of transition_to: a breaker that closes keeps its failure count.
TransitionKeepsFailures(new) ==
  IF state = new THEN UNCHANGED breakerVars
  ELSE /\ state' = new /\ expired' = FALSE
       /\ failures' = IF new = "HalfOpen" THEN 0 ELSE failures
       /\ successes' = 0

\* transition_to, under the write lock.
transition_to(new) ==
  IF state = new THEN UNCHANGED breakerVars
  ELSE /\ state' = new /\ expired' = FALSE
       /\ failures' = IF new = "Open" THEN failures ELSE 0
       /\ successes' = 0

\* A transport is used for a request; state(), is_half_open and stats only look.
Begin(c) ==
  /\ step[c] = "idle"
  /\ \E s \in {"check", "look"} : Go(c, s)
  /\ UNCHANGED <<breakerVars, count, healed>>

\* Mutant of check_and_update_state: the timeout of an open breaker is not read.
CheckStateOnly(c) ==
  /\ \/ step[c] = "check" /\ Go(c, "gate")
     \/ step[c] = "look" /\ Go(c, "idle")
  /\ UNCHANGED <<breakerVars, count, healed>>

\* check_and_update_state reads the state and the time of its last change.
check_and_update_state(c) ==
  LET half == state = "Open" /\ expired
  IN /\ \/ step[c] = "check" /\ Go(c, IF half THEN "half" ELSE "gate")
        \/ step[c] = "look" /\ Go(c, IF half THEN "look_half" ELSE "idle")
     /\ UNCHANGED <<breakerVars, count, healed>>

ToHalfOpen(c) ==
  /\ \/ step[c] = "half" /\ Go(c, "gate")
     \/ step[c] = "look_half" /\ Go(c, "idle")
  /\ transition_to("HalfOpen")
  /\ UNCHANGED <<count, healed>>

\* can_execute reads the state again and lets the request through, or rejects it.
can_execute(c) ==
  /\ step[c] = "gate"
  /\ Go(c, IF state = "Open" THEN "idle" ELSE "request")
  /\ UNCHANGED <<breakerVars, count, healed>>

\* The request ends and its outcome is recorded.
record_outcome(c) ==
  /\ step[c] = "request"
  /\ \/ Go(c, "ok")
     \/ ~healed /\ Go(c, "failed")
  /\ UNCHANGED <<breakerVars, count, healed>>

-----------------------------------------------------------------------------
(* record_success                                                          *)

StoreNoFailures(c) ==
  /\ step[c] = "ok" /\ Go(c, "count_ok")
  /\ failures' = 0
  /\ UNCHANGED <<state, successes, expired, count, healed>>

CountSuccess(c) ==
  /\ step[c] = "count_ok" /\ Go(c, "judge_ok")
  /\ successes' = IF successes < SuccessThreshold THEN successes + 1 ELSE successes
  /\ count' = [count EXCEPT ![c] = successes']
  /\ UNCHANGED <<state, failures, expired, healed>>

JudgeSuccess(c) ==
  /\ step[c] = "judge_ok"
  /\ Go(c, IF state = "HalfOpen" /\ count[c] >= SuccessThreshold THEN "close" ELSE "idle")
  /\ count' = [count EXCEPT ![c] = 0]
  /\ UNCHANGED <<breakerVars, healed>>

ToClosed(c) ==
  /\ step[c] = "close" /\ Go(c, "idle")
  /\ transition_to("Closed")
  /\ UNCHANGED <<count, healed>>

-----------------------------------------------------------------------------
(* record_failure                                                          *)

StoreNoSuccesses(c) ==
  /\ step[c] = "failed" /\ Go(c, "count_failed")
  /\ successes' = 0
  /\ UNCHANGED <<state, failures, expired, count, healed>>

CountFailure(c) ==
  /\ step[c] = "count_failed" /\ Go(c, "judge_failed")
  /\ failures' = IF failures < FailureThreshold THEN failures + 1 ELSE failures
  /\ count' = [count EXCEPT ![c] = failures']
  /\ UNCHANGED <<state, successes, expired, healed>>

\* A closed breaker opens at the threshold, a half-open one at once.
JudgeFailure(c) ==
  /\ step[c] = "judge_failed"
  /\ Go(c, IF \/ state = "HalfOpen"
              \/ state = "Closed" /\ count[c] >= FailureThreshold
             THEN "open" ELSE "idle")
  /\ count' = [count EXCEPT ![c] = 0]
  /\ UNCHANGED <<breakerVars, healed>>

ToOpen(c) ==
  /\ step[c] = "open" /\ Go(c, "idle")
  /\ transition_to("Open")
  /\ UNCHANGED <<count, healed>>

-----------------------------------------------------------------------------

force_open ==
  /\ ~healed
  /\ transition_to("Open")
  /\ UNCHANGED <<step, count, healed>>

\* reset stores the zeros even if the breaker was closed already.
reset ==
  /\ ~healed
  /\ state' = "Closed" /\ failures' = 0 /\ successes' = 0
  /\ expired' = IF state = "Closed" THEN expired ELSE FALSE
  /\ UNCHANGED <<step, count, healed>>

\* timeout_duration passes.
Timeout ==
  /\ state = "Open" /\ ~expired /\ expired' = TRUE
  /\ UNCHANGED <<state, failures, successes, step, count, healed>>

Heal ==
  /\ ~healed /\ healed' = TRUE
  /\ UNCHANGED <<breakerVars, step, count>>

CallerStep(c) ==
  \/ check_and_update_state(c) \/ ToHalfOpen(c) \/ can_execute(c) \/ record_outcome(c)
  \/ StoreNoFailures(c) \/ CountSuccess(c) \/ JudgeSuccess(c) \/ ToClosed(c)
  \/ StoreNoSuccesses(c) \/ CountFailure(c) \/ JudgeFailure(c) \/ ToOpen(c)

Next ==
  \/ \E c \in Callers : Begin(c) \/ CallerStep(c)
  \/ force_open \/ reset \/ Timeout \/ Heal

\* Every thread finishes what it began, time passes, and the transport keeps
\* being used for requests.
Fairness ==
  /\ \A c \in Callers :
       /\ WF_vars(CallerStep(c))
       /\ SF_vars(Begin(c) /\ step'[c] = "check")
  /\ WF_vars(Timeout)

Spec == Init /\ [][Next]_vars /\ Fairness

-----------------------------------------------------------------------------

TypeOK ==
  /\ state \in CircuitState /\ expired \in BOOLEAN /\ healed \in BOOLEAN
  /\ failures \in 0 .. FailureThreshold /\ successes \in 0 .. SuccessThreshold
  /\ step \in [Callers -> Steps]
  /\ count \in [Callers -> Nat]

\* Whatever way successes, failures, resets and transitions interleave, once no
\* failure is being judged a closed breaker is below its threshold: a failure
\* counted across a transition is never lost in a way that leaves the breaker
\* closed for ever with the threshold reached.
ClosedBelowThreshold ==
  state = "Closed" /\ (\A c \in Callers : step[c] \notin {"judge_failed", "open"})
    => failures < FailureThreshold

\* When requests stop failing, the breaker closes and stays closed: no stale
\* look, late outcome or forced opening keeps a healthy node unreachable.
BreakerRecovers == healed ~> [](state = "Closed")

=============================================================================

----------------------------- MODULE MCRemote -------------------------------
(* What a caller of a remote actor relies on: the circuit breaker of its   *)
(* transport (CircuitBreaker) and a message stream (RemoteStream).  They   *)
(* share no state: a behaviour runs one of them, `part` says which, and    *)
(* the other rests.                                                        *)
EXTENDS Naturals, Sequences

CONSTANTS
  Callers, FailureThreshold, SuccessThreshold,
  MaxItems, Capacity, Window

ASSUME ThresholdAssumption ==
  FailureThreshold \in Nat \ {0} /\ SuccessThreshold \in Nat \ {0}

ASSUME ItemsAssumption == MaxItems \in Nat

VARIABLES
  part,
  state, failures, successes, expired, step, count, healed,
  side, made, writer, chan, body, link, buffer, frames, reader, queue,
  got, consumer, timedOut

Breaker == INSTANCE CircuitBreaker
Stream == INSTANCE RemoteStream WITH seen <- got, expired <- timedOut

callerVars == <<state, failures, successes, expired, step, count, healed>>
streamVars == <<side, made, writer, chan, body, link, buffer, frames, reader, queue,
                got, consumer, timedOut>>

PackInit ==
  /\ part \in {"breaker", "stream"}
  /\ Breaker!Init
  /\ Stream!Init /\ (part # "stream" => side = "request")

PackNext ==
  \/ part = "breaker" /\ Breaker!Next /\ UNCHANGED <<part, streamVars>>
  \/ part = "stream" /\ Stream!Next /\ UNCHANGED <<part, callerVars>>

\* The fairness of the breaker's callers, in its part.
PackFairness ==
  /\ \A c \in Callers :
       /\ WF_callerVars(part = "breaker" /\ Breaker!CallerStep(c))
       /\ SF_callerVars(part = "breaker" /\ Breaker!Begin(c) /\ step'[c] = "check")
  /\ WF_callerVars(part = "breaker" /\ Breaker!Timeout)

PackSpec == PackInit /\ [][PackNext]_<<part, callerVars, streamVars>> /\ PackFairness

-----------------------------------------------------------------------------

\* Once no failure is being judged, a closed breaker is below its threshold
\* (circuit_breaker.rs), whatever way outcomes, resets and transitions interleave.
ClosedBelowThreshold == Breaker!ClosedBelowThreshold

\* When requests stop failing the breaker closes and stays closed
\* (circuit_breaker.rs), whatever was under way.
BreakerRecovers == Breaker!BreakerRecovers

\* The consumer of a stream gets its messages in their order, none twice and
\* none left out, and one that saw the end and no error got all of them
\* (transport/http2/stream.rs), however the body is cut into chunks.
StreamIsComplete == Stream!InOrder /\ Stream!EndIsComplete
=============================================================================

----------------------------- MODULE MCRuntime -----------------------------
(* An actor and its callers: the task of an actor (Supervision) and the    *)
(* references that find it by name (Resolution).  They share no state: a   *)
(* behaviour runs one of them, `part` says which, and the other rests.     *)
EXTENDS Supervision

CONSTANTS
  LastNode, Callers, MaxMoves

VARIABLES
  part,
  running, named, suspect, moves, settled, cache, lock, caller

Lookup == INSTANCE Resolution

lookupVars == <<running, named, suspect, moves, settled, cache, lock, caller>>

PackInit ==
  /\ part \in {"task", "lookup"}
  /\ Init /\ (part # "task" => window = 0)
  /\ Lookup!Init /\ (part # "lookup" => running = {})

PackNext ==
  \/ part = "task" /\ Next /\ UNCHANGED <<part, lookupVars>>
  \/ part = "lookup" /\ Lookup!Next /\ UNCHANGED <<part, vars>>

\* The fairness of each module, in its own part.
PackFairness ==
  /\ WF_vars(part = "task" /\ Task) /\ WF_vars(part = "task" /\ Tick)
  /\ \A c \in Callers : WF_lookupVars(part = "lookup" /\ Lookup!CallerStep(c))
  /\ WF_lookupVars(part = "lookup" /\ Lookup!Expire)
  /\ \A n \in Lookup!Nodes : WF_lookupVars(part = "lookup" /\ Lookup!Hear(n))

PackSpec ==
  /\ PackInit
  /\ [][PackNext]_<<part, vars, lookupVars>>
  /\ PackFairness

-----------------------------------------------------------------------------

\* Once instances stay where they are, calls through a lazy reference reach one
\* (LazyActorRef, resolve.rs:90), whatever was cached or being resolved.
LazyFindsActor == Lookup!LazyFindsActor
=============================================================================

------------------------------ MODULE MCForge -------------------------------
(* Forge for TLC: a session (ForgeSession) of two turns, of which the first *)
(* uses a tool and can be cancelled twice and whose start is sent twice;    *)
(* and the shell tools (ForgeExec) with a command the host must approve.  A *)
(* behaviour runs one of them, `part` says which.                           *)
EXTENDS ForgeSession, TLC

CONSTANTS
    create, startA, startB, cancelA, cancelB, turnA, turnB,
    Cmds, InitialRules, Policy, MaxProcs, MaxTurns, MaxWrites

ASSUME ExecAssumption == MaxProcs \in Nat

MCTurnOf    == (startA :> turnA) @@ (startB :> turnB) @@ (cancelA :> turnA) @@ (cancelB :> turnA)
MCMaxTries  == [c \in Commands |-> IF c = startA THEN 2 ELSE 1]
MCMaxTools  == (startA :> 1) @@ (startB :> 0)
MCMaxDeltas == (startA :> 0) @@ (startB :> 1)

MCCmds  == {<<"rm", "-rf">>}
MCRules == {[pattern |-> <<"rm">>, decision |-> "prompt"]}

VARIABLES
    part,
    rules, cached, granted, turnNo, phase, stopped, toolCall,
    proc, owner, guard, sessions, stopper, purge, writes

Exec == INSTANCE ForgeExec WITH turn <- turnNo, token <- stopped, call <- toolCall

execVars == <<rules, cached, granted, turnNo, phase, stopped, toolCall,
              proc, owner, guard, sessions, stopper, purge, writes>>

PackInit == part \in {"session", "exec"} /\ Init /\ Exec!Init

PackNext ==
    \/ part = "session" /\ Next /\ UNCHANGED <<part, execVars>>
    \/ part = "exec" /\ Exec!Next /\ UNCHANGED <<part, vars>>

\* The fairness of each module, in its own part.
PackFairness ==
    /\ \A k \in Calls : WF_vars(part = "session" /\ Continue(k))
    /\ \A c \in Starts :
          /\ WF_vars(part = "session" /\ TaskStep(c))
          /\ WF_vars(part = "session" /\ process[c] = "stopping" /\ ProcessGone(c))
    /\ WF_execVars(part = "exec" /\ Exec!Progress)
    /\ WF_execVars(part = "exec" /\ Exec!Finish)
    /\ \A i \in Exec!Ids :
          /\ WF_execVars(part = "exec" /\ Exec!StopAllNext(i))
          /\ WF_execVars(part = "exec" /\ Exec!Stop(i))
          /\ WF_execVars(part = "exec" /\ Exec!Stopped(i))

PackSpec == PackInit /\ [][PackNext]_<<part, vars, execVars>> /\ PackFairness

-----------------------------------------------------------------------------

\* A process that runs and was not killed is in the manager's table, held by
\* the call that started it, or about to be terminated (unified_exec.rs), and
\* the turn's guard covers it as long as it runs (turn.rs).
ProcessesAccounted == Exec!NoStrayProcess /\ Exec!RunningIsGuarded

\* Once a turn is cancelled, or its agent is done, all it has started is
\* stopped and released, without help from the processes (turn.rs).
TurnQuiets == Exec!TurnQuiets
=============================================================================

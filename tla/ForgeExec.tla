----------------------------- MODULE ForgeExec ------------------------------
(***************************************************************************)
(* The shell tools of pulsing-forge: the approval gate (approval/gate.rs,  *)
(* execpolicy/policy.rs), one-shot commands (handlers/shell_exec.rs) and   *)
(* the background sessions of UnifiedExecManager (unified_exec.rs), with   *)
(* the turn that owns the processes (turn.rs).                             *)
(*                                                                         *)
(* Turns follow one another; a turn's agent makes one tool call at a time. *)
(* When the turn is cancelled the agent drops the call's future wherever   *)
(* it waits (agent/loop.rs).  Cancellers run as tasks of their own.  What  *)
(* a process writes is left out; that it runs, was killed or has exited is *)
(* kept.  A command is its sequence of tokens.                             *)
(***************************************************************************)
EXTENDS Integers, Sequences, FiniteSets
LOCAL INSTANCE SequencesExt

CONSTANTS
    Cmds,          \* commands the agent asks for
    InitialRules,  \* the exec policy: [pattern, decision]
    Policy,        \* ApprovalPolicy: "always", "never" or "on_request"
    MaxProcs,      \* processes started
    MaxTurns,
    MaxWrites      \* write_stdin calls

Ids == 1..MaxProcs
Nobody == 0

Decisions == <<"allow", "prompt", "forbidden">>    \* in their order

VARIABLES
    rules, cached,   \* ExecPolicy.rules; ApprovalCache: prefixes for the session
    turn, phase,     \* the turn, and "run" or "cleanup" (cleanup_and_wait)
    token,           \* the turn's cancellation token
    call,            \* the agent's tool call: [pc, cmd, id, kind]
    proc,            \* id -> "none", "running", "killed" (SIGKILL sent), "exited"
    owner,           \* id -> the turn it was started in
    guard,           \* ids whose TurnResourceGuard is held
    sessions,        \* ids in the manager's table
    stopper,         \* id -> its canceller's task: "none", "spawned", "waiting"
    purge,           \* ids that stop_all has drained and still terminates
    writes,
    granted          \* history: commands approved for more than one execution

gate   == <<rules, cached, granted>>
life   == <<turn, phase, token>>
procs  == <<proc, owner, guard>>
tables == <<sessions, stopper, purge>>
vars   == <<gate, life, call, procs, tables, writes>>

NoCall == [pc |-> "idle", cmd |-> <<>>, id |-> Nobody, kind |-> "none"]

Init ==
    /\ rules = InitialRules /\ cached = {} /\ granted = {}
    /\ turn = 1 /\ phase = "run" /\ token = FALSE
    /\ call = NoCall
    /\ proc = [i \in Ids |-> "none"] /\ owner = [i \in Ids |-> Nobody] /\ guard = {}
    /\ sessions = {} /\ stopper = [i \in Ids |-> "none"] /\ purge = {}
    /\ writes = 0

-----------------------------------------------------------------------------
(* The gate *)

Rank(d) == CHOOSE i \in 1..3 : Decisions[i] = d

\* ExecPolicy::evaluate: the longest matching rule, the strictest of equals;
\* a command no rule matches is prompted for.
Evaluate(cmd) ==
    LET hits == {r \in rules : IsPrefix(r.pattern, cmd)}
        over(r, s) == \/ Len(r.pattern) > Len(s.pattern)
                      \/ Len(r.pattern) = Len(s.pattern) /\ Rank(r.decision) >= Rank(s.decision)
    IN  IF hits = {} THEN "prompt" ELSE (CHOOSE r \in hits : \A s \in hits : over(r, s)).decision

PrefixAllowed(cmd) == \E p \in cached : IsPrefix(p, cmd)

\* ensure_shell_allowed up to the host's answer.  escalated: the arguments
\* ask for an escalation or carry a justification.
Verdict(cmd, escalated) ==
    IF PrefixAllowed(cmd) THEN "run"
    ELSE IF Evaluate(cmd) = "forbidden" THEN "refuse"
    ELSE IF Evaluate(cmd) = "allow" /\ ~escalated THEN "run"
    ELSE CASE Policy = "always" -> "run" [] Policy = "never" -> "refuse" [] OTHER -> "ask"

\* A tool call names a command (a refused one changes nothing).
Ask(cmd, kind) ==
    /\ phase = "run" /\ call.pc = "idle"
    /\ \E escalated \in BOOLEAN :
          /\ Verdict(cmd, escalated) # "refuse"
          /\ call' = [NoCall EXCEPT !.pc = IF Verdict(cmd, escalated) = "ask" THEN "ask" ELSE "allowed",
                                    !.cmd = cmd, !.kind = kind]
    /\ UNCHANGED <<gate, life, procs, tables, writes>>

\* apply_review_decision.
Approve(d) ==
    /\ cached' = IF d = "for_session" THEN cached \cup {call.cmd} ELSE cached
    /\ rules' = IF d = "amendment"
                THEN {r \in rules : r.pattern # call.cmd} \cup {[pattern |-> call.cmd, decision |-> "allow"]}
                ELSE rules

\* The host answers the request.
Answer(d) ==
    /\ call.pc = "ask" /\ Approve(d)
    /\ call' = IF d = "denied" THEN NoCall ELSE [call EXCEPT !.pc = "approved"]
    /\ granted' = IF d \in {"for_session", "amendment"} THEN granted \cup {call.cmd} ELSE granted
    /\ UNCHANGED <<life, procs, tables, writes>>

-----------------------------------------------------------------------------
(* Starting processes *)

Fresh == CHOOSE i \in Ids : proc[i] = "none" /\ owner[i] = Nobody /\ \A j \in 1..i-1 : owner[j] # Nobody
Room  == \E i \in Ids : owner[i] = Nobody

\* exec_command and run_shell register the resource and then start the
\* process.  (run_shell refuses when the turn is already cancelled.)
Launch ==
    /\ call.pc \in {"allowed", "approved"} /\ Room
    /\ call.kind = "shell" => ~token
    /\ owner' = [owner EXCEPT ![Fresh] = turn]
    /\ guard' = guard \cup {Fresh}
    /\ proc' = [proc EXCEPT ![Fresh] = "running"]
    /\ call' = [call EXCEPT !.pc = IF call.kind = "shell" THEN "output" ELSE "insert",
                            !.id = Fresh, !.cmd = <<>>]
    /\ UNCHANGED <<gate, life, tables, writes>>

\* The spawn fails, the working directory is refused, or run_shell sees the
\* cancellation: the guard goes with the call.
LaunchFails ==
    /\ call.pc \in {"allowed", "approved"}
    /\ call' = NoCall
    /\ UNCHANGED <<gate, life, procs, tables, writes>>

\* SIGKILL to the process group.
Killed(S) == [i \in Ids |-> IF i \in S /\ proc[i] = "running" THEN "killed" ELSE proc[i]]

\* The process ends by itself, or of the kill.
Exit(i) ==
    /\ proc[i] \in {"running", "killed"}
    /\ proc' = [proc EXCEPT ![i] = "exited"]
    /\ UNCHANGED <<gate, life, call, owner, guard, tables, writes>>

\* A one-shot command's output is complete: its group guard is disarmed.
ShellDone ==
    /\ call.pc = "output" /\ proc[call.id] = "exited"
    /\ guard' = guard \ {call.id} /\ call' = NoCall
    /\ UNCHANGED <<gate, life, proc, owner, tables, writes>>

\* It timed out or was cancelled: the group is killed.
ShellKill ==
    /\ call.pc = "output"
    /\ proc' = Killed({call.id})
    /\ call' = [call EXCEPT !.pc = "reap"]
    /\ UNCHANGED <<gate, life, owner, guard, tables, writes>>

\* At most two seconds for the killed process to end.
ShellReaped ==
    /\ call.pc = "reap"
    /\ guard' = guard \ {call.id} /\ call' = NoCall
    /\ UNCHANGED <<gate, life, proc, owner, tables, writes>>

-----------------------------------------------------------------------------
(* Sessions *)

Insert ==
    /\ call.pc = "insert"
    /\ sessions' = sessions \cup {call.id}
    /\ call' = [call EXCEPT !.pc = "yield"]
    /\ UNCHANGED <<gate, life, procs, stopper, purge, writes>>

\* exec_command sees the cancellation while it waits: stop_session_and_wait.
YieldCancelled ==
    /\ call.pc = "yield" /\ call.kind = "exec" /\ token
    /\ IF call.id \in sessions
       THEN /\ sessions' = sessions \ {call.id} /\ proc' = Killed({call.id})
            /\ call' = [call EXCEPT !.pc = "terminate"]
       ELSE call' = NoCall /\ UNCHANGED <<sessions, proc>>
    /\ UNCHANGED <<gate, life, owner, guard, stopper, purge, writes>>

\* terminate has waited for the exit, or two seconds; the session is dropped.
Terminated ==
    /\ call.pc = "terminate"
    /\ guard' = guard \ {call.id} /\ call' = NoCall
    /\ UNCHANGED <<gate, life, proc, owner, tables, writes>>

\* poll_session after the wait: a session whose process has exited is dropped,
\* another one goes on in the background.
Poll ==
    /\ call.pc = "yield" /\ call' = NoCall
    /\ IF call.id \in sessions /\ proc[call.id] = "exited"
       THEN sessions' = sessions \ {call.id} /\ guard' = guard \ {call.id}
       ELSE UNCHANGED <<sessions, guard>>
    /\ UNCHANGED <<gate, life, proc, owner, stopper, purge, writes>>

\* write_stdin to a session of this turn; ^C kills its process group.
WriteStdin(i) ==
    /\ phase = "run" /\ call.pc = "idle" /\ writes < MaxWrites
    /\ i \in sessions /\ owner[i] = turn
    /\ \/ proc' = Killed({i})
       \/ proc[i] # "exited" /\ UNCHANGED proc
    /\ writes' = writes + 1
    /\ call' = [NoCall EXCEPT !.pc = "yield", !.id = i, !.kind = "write"]
    /\ UNCHANGED <<gate, life, owner, guard, tables>>

\* stop_all drains the table, then terminates one session after the other.
StopAll ==
    /\ purge = {} /\ sessions # {}
    /\ purge' = sessions /\ sessions' = {}
    /\ UNCHANGED <<gate, life, call, procs, stopper, writes>>

StopAllNext(i) ==
    /\ i \in purge
    /\ proc' = Killed({i}) /\ purge' = purge \ {i} /\ guard' = guard \ {i}
    /\ UNCHANGED <<gate, life, call, owner, sessions, stopper, writes>>

-----------------------------------------------------------------------------
(* The turn *)

\* cancel_all: the canceller of every session's guard spawns a task.
Cancellers == {i \in guard : owner[i] = turn /\ ~(call.id = i /\ call.kind = "shell")}
CancelAll == stopper' = [i \in Ids |-> IF i \in Cancellers /\ stopper[i] = "none" THEN "spawned" ELSE stopper[i]]

\* The task of a canceller: stop_session_and_wait.  A session that is not in
\* the table (yet) is left alone.
Stop(i) ==
    /\ stopper[i] = "spawned"
    /\ IF i \in sessions
       THEN /\ sessions' = sessions \ {i} /\ proc' = Killed({i})
            /\ stopper' = [stopper EXCEPT ![i] = "waiting"]
       ELSE stopper' = [stopper EXCEPT ![i] = "none"] /\ UNCHANGED <<sessions, proc>>
    /\ UNCHANGED <<gate, life, call, owner, guard, purge, writes>>

Stopped(i) ==
    /\ stopper[i] = "waiting"
    /\ stopper' = [stopper EXCEPT ![i] = "none"] /\ guard' = guard \ {i}
    /\ UNCHANGED <<gate, life, call, proc, owner, sessions, purge, writes>>

CancelTurn ==
    /\ ~token /\ token' = TRUE /\ CancelAll
    /\ UNCHANGED <<gate, turn, phase, call, procs, sessions, purge, writes>>

\* Mutant of Dropped: a dropped session takes its guard but not its process.
DroppedAlive ==
    /\ token /\ call.pc \in {"insert", "yield", "terminate", "output", "reap"}
    /\ call' = NoCall
    /\ guard' = IF call.pc = "yield" THEN guard ELSE guard \ {call.id}
    /\ UNCHANGED <<gate, life, proc, owner, tables, writes>>

\* The agent's select sees the cancellation and drops the call's future.
\* What the future owned is killed and released; a session that is in the
\* table stays there.
Dropped ==
    /\ token /\ call.pc \in {"insert", "yield", "terminate", "output", "reap"}
    /\ call' = NoCall
    /\ IF call.pc = "yield" THEN UNCHANGED <<proc, guard>>
       ELSE proc' = Killed({call.id}) /\ guard' = guard \ {call.id}
    /\ UNCHANGED <<gate, life, owner, tables, writes>>

\* Mutant of Finish: relies on the cancel command to stop what is left.
FinishOnly ==
    /\ phase = "run" /\ call.pc = "idle"
    /\ phase' = "cleanup"
    /\ UNCHANGED <<gate, turn, token, call, procs, tables, writes>>

\* The agent returns and the turn's task cleans up.
Finish ==
    /\ phase = "run" /\ call.pc = "idle"
    /\ phase' = "cleanup" /\ CancelAll
    /\ UNCHANGED <<gate, turn, token, call, procs, sessions, purge, writes>>

Held == {i \in guard : owner[i] = turn}

\* All guards are released: the turn has ended, the next one may start.
NextTurn ==
    /\ phase = "cleanup" /\ Held = {} /\ turn < MaxTurns
    /\ turn' = turn + 1 /\ phase' = "run" /\ token' = FALSE
    /\ UNCHANGED <<gate, call, procs, tables, writes>>

-----------------------------------------------------------------------------

Progress ==
    \/ Insert \/ YieldCancelled \/ Terminated \/ ShellReaped \/ Dropped
    \/ Poll \/ ShellDone

Next ==
    \/ \E c \in Cmds, kind \in {"exec", "shell"} : Ask(c, kind)
    \/ \E d \in {"approved", "for_session", "amendment", "denied"} : Answer(d)
    \/ Launch \/ LaunchFails \/ ShellKill \/ Progress
    \/ StopAll \/ CancelTurn \/ Finish \/ NextTurn
    \/ \E i \in Ids : Exit(i) \/ WriteStdin(i) \/ StopAllNext(i) \/ Stop(i) \/ Stopped(i)

\* Tasks are polled.  A process need not end, a host need not answer.
Fairness ==
    /\ WF_vars(Progress) /\ WF_vars(Finish)
    /\ \A i \in Ids : WF_vars(StopAllNext(i)) /\ WF_vars(Stop(i)) /\ WF_vars(Stopped(i))

Spec == Init /\ [][Next]_vars /\ Fairness

-----------------------------------------------------------------------------
(* Properties *)

\* The call holds the process itself: it is not in the table yet, or no more.
HeldByCall(i) == call.id = i /\ call.pc \in {"insert", "output"}

\* Every process that runs and was not killed can be stopped: it is in the
\* table, held by the call that started it, or about to be terminated.  No
\* interleaving of cancel, drop, poll and stop loses one.
NoStrayProcess ==
    \A i \in Ids : proc[i] = "running" => i \in sessions \/ i \in purge \/ HeldByCall(i)

\* A running process holds its turn's guard, and the turn is not over: a turn
\* whose resources are idle has left no process running.
RunningIsGuarded ==
    \A i \in Ids : proc[i] = "running" => i \in guard /\ owner[i] = turn

\* Once a turn is cancelled, or its agent is done, all it has started is
\* stopped and released, without help from the processes.
TurnQuiets == token \/ phase = "cleanup" ~> Held = {} \/ call.pc \in {"ask", "allowed", "approved"}
=============================================================================

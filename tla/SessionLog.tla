----------------------------- MODULE SessionLog -----------------------------
(***************************************************************************)
(* What a Forge session promises its clients: one log of events, which     *)
(* only grows, in which turns do not overlap, every command has at most    *)
(* one effect, a cancellation is asked for at most once and only a turn    *)
(* whose cancellation was asked for ends as cancelled.  ForgeSession       *)
(* implements it.                                                          *)
(***************************************************************************)
EXTENDS Naturals, Sequences

CONSTANTS Commands, Turns, None

VARIABLE log      \* events [kind, turn, cause]

Terminal == {"completed", "failed", "cancelled"}
Activity == {"delta", "tool_started", "tool_completed", "tool_cancelled", "stalled"}

\* The positions of the starts that no end follows, and the one at which the
\* turn now in progress was started, or 0.
Openings(l) ==
    {i \in 1..Len(l) : /\ l[i].kind = "started"
                       /\ \A j \in i+1..Len(l) : l[j].kind \notin Terminal}
Opened(l) == IF Openings(l) = {} THEN 0 ELSE CHOOSE i \in Openings(l) : TRUE

Since(l, kinds) == \E i \in Opened(l)+1..Len(l) : l[i].kind \in kinds
Fresh(c) == \A i \in 1..Len(log) : log[i].cause # c

Init == log = <<>>

Create(c) ==
    /\ log = <<>>
    /\ log' = <<[kind |-> "created", turn |-> None, cause |-> c]>>

Start(t, c) ==
    /\ log # <<>> /\ Opened(log) = 0 /\ Fresh(c)
    /\ log' = Append(log, [kind |-> "started", turn |-> t, cause |-> c])

RequestCancel(c) ==
    /\ Opened(log) # 0 /\ Fresh(c) /\ ~Since(log, {"cancel_requested", "stalled"})
    /\ log' = Append(log, [kind |-> "cancel_requested", turn |-> log[Opened(log)].turn, cause |-> c])

Act(k) ==
    /\ Opened(log) # 0
    /\ log' = Append(log, [kind |-> k, turn |-> log[Opened(log)].turn, cause |-> None])

End(k) ==
    /\ Opened(log) # 0
    /\ k = "cancelled" => Since(log, {"cancel_requested"})
    /\ log' = Append(log, [kind |-> k, turn |-> log[Opened(log)].turn, cause |-> None])

Next ==
    \/ \E c \in Commands : Create(c) \/ RequestCancel(c) \/ \E t \in Turns : Start(t, c)
    \/ \E k \in Activity : Act(k)
    \/ \E k \in Terminal : End(k)

Spec == Init /\ [][Next]_log
=============================================================================

--------------------------- MODULE MCHeadBackend ---------------------------
(***************************************************************************)
(* Instances of HeadBackend for TLC.                                       *)
(***************************************************************************)
EXTENDS HeadBackend

CONSTANTS
    WorkerCalls,    \* calls of each worker
    HeadCalls       \* calls of the head

MCMaxCalls == [n \in Nodes |-> IF n = HeadNode THEN HeadCalls ELSE WorkerCalls]
=============================================================================

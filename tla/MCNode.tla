------------------------------- MODULE MCNode -------------------------------
(* What runs on a node beside the actors' own tasks: its control plane with *)
(* the shared memory (NodeControl), threads in the registry's two maps      *)
(* (RegistryLocks), and messages and tensors to another node (RemoteCall,   *)
(* TensorConn).  They share no state: a behaviour runs one of them, `part`  *)
(* says which, and the others rest.                                         *)
EXTENDS NodeControl, TLC

CONSTANTS
  Threads, Shards, Scenarios,
  Messages, MaxRetries, MaxErrors, Capacity,
  Clients, Conns, MaxPooled, MaxServed

VARIABLES
  part,
  operations, program, held,
  pooled, errors, backoff, call, wire, actor, mailbox, handled,
  pool, conn, client

Locks == INSTANCE RegistryLocks
Remote == INSTANCE RemoteCall WITH Calls <- Messages
Tensor == INSTANCE TensorConn WITH Callers <- Clients, MaxRequests <- MaxServed, call <- client

lockVars == <<operations, program, held>>
remoteVars == <<pooled, errors, backoff, call, wire, actor, mailbox, handled>>
tensorVars == <<pool, conn, client>>

PackInit ==
  /\ part \in {"control", "locks", "remote", "tensor"}
  /\ Init
  /\ Locks!Init /\ (part # "locks" => operations = {"list", "lookup", "stop"})
  /\ Remote!Init
  /\ Tensor!Init

PackNext ==
  \/ part = "control" /\ Next
     /\ UNCHANGED <<part, lockVars, remoteVars, tensorVars>>
  \/ part = "locks" /\ Locks!Next
     /\ UNCHANGED <<part, vars, remoteVars, tensorVars>>
  \/ part = "remote" /\ Remote!Next
     /\ UNCHANGED <<part, vars, lockVars, tensorVars>>
  \/ part = "tensor" /\ Tensor!Next
     /\ UNCHANGED <<part, vars, lockVars, remoteVars>>

PackSpec ==
  PackInit
  /\ [][PackNext]_<<part, vars, lockVars, remoteVars, tensorVars>>

Symmetry == Permutations(Messages)

-----------------------------------------------------------------------------

\* Operations on the registry's two maps never wait for each other in a circle
\* (DashMap's shard locks, taken in the order the code takes them).
NoDeadlock == part = "locks" => Locks!NoDeadlock

\* A message is handled twice only if it was a tell whose connection broke, or
\* whose error read as if one had (Http2Client::tell and its retries).
TwiceOnlyIfLost == part = "remote" => Remote!TwiceOnlyIfLost

\* What a caller reads from a pooled tensor connection is the answer to its own
\* request, whatever was timed out or dropped before (send_tensor_request).
AnswerIsMine == part = "tensor" => Tensor!AnswerIsMine
=============================================================================

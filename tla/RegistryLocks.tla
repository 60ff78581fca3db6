---------------------------- MODULE RegistryLocks ----------------------------
(***************************************************************************)
(* The shard locks the registry's callers hold at the same time.  Module   *)
(* ActorRegistry takes each table operation as atomic; this one looks      *)
(* inside the few operations that reach into one DashMap while a guard of  *)
(* the other one is alive (crates/pulsing-actor/src/system/spawn.rs,       *)
(* lifecycle.rs, handler.rs and registry.rs).                              *)
(*                                                                         *)
(* A thread runs the program of one operation: a sequence of acquisitions  *)
(* and releases of shard locks.  DashMap's shard lock blocks the thread;   *)
(* it admits many readers or one writer.                                   *)
(***************************************************************************)
EXTENDS Naturals, Sequences

CONSTANTS
    Threads,
    Shards,        \* number of shards of each map
    Scenarios      \* sets of operations that run at the same time

AllOperations == {"spawn_refused", "list", "lookup", "stop"}

\* A step of a program.  A lock is a shard of one of the two tables.
Acquire(table, shard, mode) == [lock |-> <<table, shard>>, mode |-> mode]
Release(table, shard)       == [lock |-> <<table, shard>>, mode |-> "release"]

\* spawn_internal with its name taken: the Occupied entry keeps the write guard
\* of the name's shard alive while remove_handle locks the handle's shard.
SpawnRefusedProgram(n, a) ==
    << Acquire("actor_names", n, "write"), Acquire("local_actors", a, "write"),
       Release("local_actors", a), Release("actor_names", n) >>

\* The reverse lookup of one handle's name: iter() locks one shard at a time.
NamesScan == [s \in 1..(2 * Shards) |->
                 IF s % 2 = 1 THEN Acquire("actor_names", (s + 1) \div 2, "read")
                              ELSE Release("actor_names", s \div 2)]

\* shutdown and health_check: the iterator over the handles keeps the read guard
\* of the shard it is in while the closure scans the names.  This is the program
\* for one handle; a scan that finds the name early takes fewer of these locks,
\* in the same order.
ListProgram(n, a) ==
    << Acquire("local_actors", a, "read") >> \o NamesScan
        \o << Release("local_actors", a) >>

\* Mutant of LookupProgram: the handle is looked up first.
LookupHandleFirst(n, a) ==
    << Acquire("local_actors", a, "read"), Acquire("actor_names", n, "read"),
       Release("actor_names", n), Release("local_actors", a) >>

\* local_actor_ref_by_name and find_actor_sender: the guard of the name lives
\* until the handle has been read.
LookupProgram(n, a) ==
    << Acquire("actor_names", n, "read"), Acquire("local_actors", a, "read"),
       Release("local_actors", a), Release("actor_names", n) >>

\* remove_by_name, then remove_handle: each guard ends with its call.
StopProgram(n, a) ==
    << Acquire("actor_names", n, "write"), Release("actor_names", n),
       Acquire("local_actors", a, "write"), Release("local_actors", a) >>

Program(operation, n, a) ==
    CASE operation = "spawn_refused" -> SpawnRefusedProgram(n, a)
      [] operation = "list"          -> ListProgram(n, a)
      [] operation = "lookup"        -> LookupProgram(n, a)
      [] operation = "stop"          -> StopProgram(n, a)

-----------------------------------------------------------------------------
VARIABLES
    operations, \* the operations of this behaviour
    program,   \* what is left of the thread's operation
    held       \* the locks the thread holds, with their modes

vars == <<operations, program, held>>

Init ==
    /\ operations \in Scenarios
    /\ program = [t \in Threads |-> <<>>]
    /\ held = [t \in Threads |-> {}]

\* A thread starts an operation on a name and an actor, in any shards.
Start(t, operation, n, a) ==
    /\ operation \in operations
    /\ program[t] = <<>>
    /\ program' = [program EXCEPT ![t] = Program(operation, n, a)]
    /\ UNCHANGED <<operations, held>>

\* u's guard keeps t from its next acquisition.
Blocks(u, t) ==
    /\ u # t
    /\ program[t] # <<>>
    /\ \E h \in held[u] :
          /\ h.lock = Head(program[t]).lock
          /\ \/ Head(program[t]).mode = "write"
             \/ Head(program[t]).mode = "read" /\ h.mode = "write"

Lock(t) ==
    /\ program[t] # <<>>
    /\ Head(program[t]).mode # "release"
    /\ \A u \in Threads : ~Blocks(u, t)
    /\ held' = [held EXCEPT ![t] = @ \cup {Head(program[t])}]
    /\ program' = [program EXCEPT ![t] = Tail(@)]
    /\ UNCHANGED operations

Unlock(t) ==
    /\ program[t] # <<>>
    /\ Head(program[t]).mode = "release"
    /\ held' = [held EXCEPT ![t] = {h \in @ : h.lock # Head(program[t]).lock}]
    /\ program' = [program EXCEPT ![t] = Tail(@)]
    /\ UNCHANGED operations

Next ==
    \E t \in Threads :
        \/ \E operation \in AllOperations, n, a \in 1..Shards : Start(t, operation, n, a)
        \/ Lock(t)
        \/ Unlock(t)

Spec == Init /\ [][Next]_vars

-----------------------------------------------------------------------------
\* No set of threads waits for itself: every operation on the registry ends.  A
\* blocked runtime thread is not an actor that waits, it never runs again.
NoDeadlock ==
    \A D \in SUBSET Threads :
        D # {} => \E t \in D : \A u \in D : ~Blocks(u, t)
=============================================================================

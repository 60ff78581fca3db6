------------------------ MODULE ActorRegistryProofs ------------------------
(***************************************************************************)
(* Proofs about ActorRegistry, for any number of actors, names and         *)
(* concurrent calls: RegistryInv is inductive, and the safety properties   *)
(* follow from it.                                                         *)
(***************************************************************************)
EXTENDS ActorRegistry, TLAPS

\* The empty registry of a started node satisfies the invariant.
LEMMA InitInv == Init => RegistryInv
<1> SUFFICES ASSUME Init PROVE RegistryInv
  OBVIOUS
<1>1. TypeInv
  BY DEF Init, TypeInv, TypeOK, CallOK, BornOK, Born, Steps, SpawnSteps,
         CleanupSteps, ShutdownSteps, Keys
<1>2. TableInv
  BY DEF Init, TableInv, NamesOK, NameHasHandle, HandlesOK
<1>3. CancelInv
  BY DEF Init, CancelInv, CleanupOK, CleanupSteps, DroppedIsCancelled,
         ShutdownReachesAll, NotifiedIsGone
<1>4. QED
  BY <1>1, <1>2, <1>3 DEF RegistryInv

\* The monitor's table keeps its type when a stop takes an entry out of it.
LEMMA MonitorTyped ==
  ASSUME TypeOK, NEW c \in Calls, NotifyStopped(c)
  PROVE  monitor' \in [Keys -> Actors \cup {NoActor}]
  BY DEF TypeOK, NotifyStopped

\* A call that returns without touching a table leaves the invariant alone, if it
\* gives up a handle step only when the handle is gone.
LEMMA ReturnPreserves ==
  ASSUME RegistryInv, NEW c \in Calls, Return(c, pc[c]),
         pc[c] \in {"byname", "handle", "notify"},
         pc[c] = "handle" => act[c] \notin local_actors,
         UNCHANGED <<tables, cluster, watchers, inbox, tasks, node_state>>,
         monitor' \in [Keys -> Actors \cup {NoActor}]
  PROVE  RegistryInv'
<1> USE RegistryAssumption
    DEF RegistryInv, Keys, KeyOf, Born, SpawnSteps, CleanupSteps, ShutdownSteps,
        Goto, Return, NotifySpawned, NotifyStopped, tables, cluster, watching,
        tasks, locals
<1>1. TypeInv'
  BY DEF TypeInv, TypeOK, CallOK, BornOK, Steps
<1>2. NamesOK' /\ NameHasHandle'
  BY DEF TypeInv, TypeOK, CallOK, BornOK, TableInv, NamesOK, NameHasHandle
<1>3. HandlesOK'
  BY DEF TypeInv, TypeOK, CallOK, BornOK, TableInv, NamesOK, HandlesOK
<1>4. CancelInv'
  BY DEF TypeInv, TypeOK, CallOK, BornOK, CancelInv, CleanupOK,
         DroppedIsCancelled, ShutdownReachesAll, NotifiedIsGone
<1>5. QED
  BY <1>1, <1>2, <1>3, <1>4 DEF TableInv

\* A step that leaves the name and handle tables alone, starts no shutdown, and in
\* which no call comes to or leaves one of the two steps that hold an unnamed
\* handle, preserves the invariant of the tables.
LEMMA TableFrame ==
  ASSUME RegistryInv,
         UNCHANGED <<local_actors, named_path, actor_names, root_cancelled>>,
         \A d \in Calls :
            \/ pc'[d] = pc[d] /\ op'[d] = op[d] /\ act'[d] = act[d]
            \/ /\ pc[d] \notin {"name", "handle"} /\ pc'[d] \notin {"name", "handle"}
               /\ op'[d] = "stop" => op[d] = "stop" /\ act'[d] = act[d]
  PROVE  TableInv'
<1>1. NamesOK'
  BY DEF RegistryInv, TableInv, NamesOK, KeyOf
<1>2. NameHasHandle' /\ HandlesOK'
  BY DEF RegistryInv, TableInv, NameHasHandle, HandlesOK, KeyOf
<1>3. QED
  BY <1>1, <1>2 DEF TableInv

\* Every step of a spawn call preserves the invariant.
LEMMA SpawnPreserves ==
  RegistryInv /\ (\E c \in Calls :
      \/ \E a \in Actors, n \in Names \cup {NoName} : Spawn(c, a, n)
      \/ SpawnStep(c))
  => RegistryInv'
<1> USE RegistryAssumption
    DEF RegistryInv, Keys, KeyOf, Born, SpawnSteps, CleanupSteps, ShutdownSteps,
        Goto, Return, NotifySpawned, NotifyStopped, tables, cluster, watching,
        tasks, locals
<1>1. ASSUME RegistryInv, NEW c \in Calls, NEW a \in Actors,
             NEW n \in Names \cup {NoName}, Spawn(c, a, n)
      PROVE  RegistryInv'
  <2> USE <1>1 DEF Spawn
  <2>1. TypeInv'
    BY DEF TypeInv, TypeOK, CallOK, BornOK, Steps
  <2>2. TableInv'
    BY DEF TypeInv, TypeOK, CallOK, BornOK, TableInv, NamesOK, NameHasHandle,
           HandlesOK
  <2>3. CancelInv'
    BY DEF TypeInv, TypeOK, CallOK, BornOK,
           CancelInv, CleanupOK, DroppedIsCancelled, ShutdownReachesAll, NotifiedIsGone
  <2>4. QED
    BY <2>1, <2>2, <2>3
<1>2. ASSUME RegistryInv, NEW c \in Calls, SpawnRefused(c)
      PROVE  RegistryInv'
  <2> USE <1>2 DEF SpawnRefused
  <2>1. TypeInv'
    BY DEF TypeInv, TypeOK, CallOK, BornOK, Steps
  <2>2. NamesOK'
    BY DEF TypeInv, TypeOK, CallOK, BornOK, TableInv, NamesOK
  <2>3. NameHasHandle'
    BY DEF TypeInv, TypeOK, CallOK, BornOK, TableInv, NamesOK, NameHasHandle
  <2>4. HandlesOK'
    BY SMTT(30) DEF TypeInv, TypeOK, CallOK, BornOK, TableInv, NamesOK, HandlesOK
  <2>5. \A a \in Actors : cancelled[a] => cancelled'[a]
    BY DEF TypeInv, TypeOK, CallOK
  <2>6. \A a \in Actors : a \in local_actors /\ a \notin local_actors' => cancelled'[a]
    BY DEF TypeInv, TypeOK, CallOK
  <2>7. CleanupOK' /\ NotifiedIsGone'
    BY <2>5 DEF TypeInv, TypeOK, CallOK, BornOK, CancelInv, CleanupOK, NotifiedIsGone
  <2>8. DroppedIsCancelled' /\ ShutdownReachesAll'
    BY <2>5, <2>6 DEF CancelInv, DroppedIsCancelled, ShutdownReachesAll
  <2>9. QED
    BY <2>1, <2>2, <2>3, <2>4, <2>7, <2>8 DEF TableInv, CancelInv
<1>3. ASSUME RegistryInv, NEW c \in Calls, SpawnNamed(c)
      PROVE  RegistryInv'
  <2> USE <1>3 DEF SpawnNamed
  <2>1. TypeInv'
    BY DEF TypeInv, TypeOK, CallOK, BornOK, Steps
  <2>2. NamesOK'
    BY DEF TypeInv, TypeOK, CallOK, BornOK, TableInv, NamesOK
  <2>3. NameHasHandle'
    BY DEF TypeInv, TypeOK, CallOK, BornOK, TableInv, NamesOK, NameHasHandle,
           HandlesOK
  <2>4. HandlesOK'
    BY SMTT(30) DEF TypeInv, TypeOK, CallOK, BornOK, TableInv, NamesOK, HandlesOK
  <2>5. CancelInv'
    BY DEF TypeInv, TypeOK, CallOK, BornOK,
           CancelInv, CleanupOK, DroppedIsCancelled, ShutdownReachesAll, NotifiedIsGone
  <2>6. QED
    BY <2>1, <2>2, <2>3, <2>4, <2>5 DEF TableInv
<1>4. ASSUME RegistryInv, NEW c \in Calls, SpawnAnonymous(c)
      PROVE  RegistryInv'
  <2> USE <1>4 DEF SpawnAnonymous
  <2>1. TypeInv'
    BY DEF TypeInv, TypeOK, CallOK, BornOK, Steps
  <2>2. NamesOK'
    BY DEF TypeInv, TypeOK, CallOK, BornOK, TableInv, NamesOK
  <2>3. NameHasHandle'
    BY DEF TypeInv, TypeOK, CallOK, BornOK, TableInv, NamesOK, NameHasHandle,
           HandlesOK
  <2>4. HandlesOK'
    <3>1. /\ actor_names'[act[c]] = act[c]
          /\ \A k \in Keys : k # act[c] => actor_names'[k] = actor_names[k]
          /\ KeyOf(act[c]) = act[c]
      BY DEF TypeInv, TypeOK, CallOK
    <3>2. \A a \in local_actors : KeyOf(a) = act[c] => a = act[c]
      BY DEF TypeInv, TypeOK, CallOK
    <3>3. \A d \in Calls : pc[d] \in {"name", "handle"} /\ d # c =>
             pc'[d] = pc[d] /\ op'[d] = op[d] /\ act'[d] = act[d]
      BY DEF TypeInv, TypeOK
    <3>4. \A d \in Calls : pc'[d] = "name" => d # c
      BY DEF TypeInv, TypeOK
    <3>5. QED
      BY <3>1, <3>2, <3>3, <3>4 DEF TypeInv, TypeOK, TableInv, HandlesOK
  <2>5. CancelInv'
    BY DEF TypeInv, TypeOK, CallOK, BornOK,
           CancelInv, CleanupOK, DroppedIsCancelled, ShutdownReachesAll, NotifiedIsGone
  <2>6. QED
    BY <2>1, <2>2, <2>3, <2>4, <2>5 DEF TableInv
<1>5. ASSUME RegistryInv, NEW c \in Calls, SpawnPath(c)
      PROVE  RegistryInv'
  <2> USE <1>5 DEF SpawnPath
  <2>1. TypeInv'
    BY DEF TypeInv, TypeOK, CallOK, BornOK, Steps
  <2>2. TableInv'
    BY TableFrame DEF TypeInv, TypeOK, CallOK, BornOK
  <2>3. CancelInv'
    BY DEF TypeInv, TypeOK, CallOK, BornOK,
           CancelInv, CleanupOK, DroppedIsCancelled, ShutdownReachesAll, NotifiedIsGone
  <2>4. QED
    BY <2>1, <2>2, <2>3
<1>6. ASSUME RegistryInv, NEW c \in Calls, SpawnPublish(c)
      PROVE  RegistryInv'
  <2> USE <1>6 DEF SpawnPublish
  <2>1. TypeInv'
    BY DEF TypeInv, TypeOK, CallOK, BornOK, Steps
  <2>2. TableInv'
    BY TableFrame DEF TypeInv, TypeOK, CallOK, BornOK
  <2>3. CancelInv'
    BY DEF TypeInv, TypeOK, CallOK, BornOK,
           CancelInv, CleanupOK, DroppedIsCancelled, ShutdownReachesAll, NotifiedIsGone
  <2>4. QED
    BY <2>1, <2>2, <2>3
<1>7. ASSUME RegistryInv, NEW c \in Calls, SpawnIndex(c)
      PROVE  RegistryInv'
  <2> USE <1>7 DEF SpawnIndex
  <2>1. TypeInv'
    BY DEF TypeInv, TypeOK, CallOK, BornOK, Steps
  <2>2. TableInv'
    BY TableFrame DEF TypeInv, TypeOK, CallOK, BornOK
  <2>3. CancelInv'
    BY DEF TypeInv, TypeOK, CallOK, BornOK,
           CancelInv, CleanupOK, DroppedIsCancelled, ShutdownReachesAll, NotifiedIsGone
  <2>4. QED
    BY <2>1, <2>2, <2>3
<1>8. QED
  BY <1>1, <1>2, <1>3, <1>4, <1>5, <1>6, <1>7 DEF SpawnStep

\* Every step of a stop call, or of a shutdown stopping one actor, preserves it.
LEMMA StopPreserves ==
  RegistryInv /\ (\E c \in Calls :
      \/ \E k \in Keys : Stop(c, k)
      \/ \E n \in Names : StopNamed(c, n)
      \/ StopStep(c))
  => RegistryInv'
<1> USE RegistryAssumption
    DEF RegistryInv, Keys, KeyOf, Born, SpawnSteps, CleanupSteps, ShutdownSteps,
        Goto, Return, NotifySpawned, NotifyStopped, tables, cluster, watching,
        tasks, locals
<1>1. ASSUME RegistryInv, NEW c \in Calls, NEW k \in Keys, Stop(c, k)
      PROVE  RegistryInv'
  <2> USE <1>1 DEF Stop
  <2>1. TypeInv'
    BY DEF TypeInv, TypeOK, CallOK, BornOK, Steps
  <2>2. NamesOK'
    BY DEF TypeInv, TypeOK, CallOK, BornOK, TableInv, NamesOK
  <2>3. NameHasHandle'
    BY DEF TypeInv, TypeOK, CallOK, BornOK, TableInv, NamesOK, NameHasHandle,
           HandlesOK
  <2>4. HandlesOK'
    BY DEF TypeInv, TypeOK, CallOK, BornOK, TableInv, NamesOK, HandlesOK
  <2>5. CancelInv'
    BY DEF TypeInv, TypeOK, CallOK, BornOK,
           CancelInv, CleanupOK, DroppedIsCancelled, ShutdownReachesAll, NotifiedIsGone
  <2>6. QED
    BY <2>1, <2>2, <2>3, <2>4, <2>5 DEF TableInv
<1>2. ASSUME RegistryInv, NEW c \in Calls, NEW n \in Names, StopNamed(c, n)
      PROVE  RegistryInv'
  <2> USE <1>2 DEF StopNamed
  <2>1. TypeInv'
    BY DEF TypeInv, TypeOK, CallOK, BornOK, Steps
  <2>2. TableInv'
    BY DEF TypeInv, TypeOK, CallOK, BornOK, TableInv, NamesOK, NameHasHandle,
           HandlesOK
  <2>3. CancelInv'
    BY DEF TypeInv, TypeOK, CallOK, BornOK,
           CancelInv, CleanupOK, DroppedIsCancelled, ShutdownReachesAll, NotifiedIsGone
  <2>4. QED
    BY <2>1, <2>2, <2>3
<1>3. ASSUME RegistryInv, NEW c \in Calls, StopByName(c)
      PROVE  RegistryInv'
  <2> USE <1>3 DEF StopByName
  <2>1. TypeInv'
    BY DEF TypeInv, TypeOK, CallOK, BornOK, Steps
  <2>2. NamesOK'
    BY DEF TypeInv, TypeOK, CallOK, BornOK, TableInv, NamesOK
  <2>3. NameHasHandle'
    BY DEF TypeInv, TypeOK, CallOK, BornOK, TableInv, NamesOK, NameHasHandle,
           HandlesOK
  <2>4. HandlesOK'
    BY DEF TypeInv, TypeOK, CallOK, BornOK, TableInv, NamesOK, HandlesOK
  <2>5. CancelInv'
    BY DEF TypeInv, TypeOK, CallOK, BornOK,
           CancelInv, CleanupOK, DroppedIsCancelled, ShutdownReachesAll, NotifiedIsGone
  <2>6. QED
    BY <2>1, <2>2, <2>3, <2>4, <2>5 DEF TableInv
<1>4. ASSUME RegistryInv, NEW c \in Calls, StopByNameMissing(c)
      PROVE  RegistryInv'
  BY <1>4, ReturnPreserves
     DEF StopByNameMissing, TypeInv, TypeOK
<1>5. ASSUME RegistryInv, NEW c \in Calls, StopHandle(c)
      PROVE  RegistryInv'
  <2> USE <1>5 DEF StopHandle
  <2>1. TypeInv'
    BY DEF TypeInv, TypeOK, CallOK, BornOK, Steps
  <2>2. TableInv'
    BY SMTT(30)
    DEF TypeInv, TypeOK, CallOK, BornOK, TableInv, NamesOK, NameHasHandle,
           HandlesOK
  <2>3. CancelInv'
    BY DEF TypeInv, TypeOK, CallOK, BornOK,
           CancelInv, CleanupOK, DroppedIsCancelled, ShutdownReachesAll, NotifiedIsGone
  <2>4. QED
    BY <2>1, <2>2, <2>3
<1>6. ASSUME RegistryInv, NEW c \in Calls, StopHandleMissing(c)
      PROVE  RegistryInv'
  <2>1. CASE op[c] = "shutdown"
    <3>1. /\ Goto(c, "handle", "drain")
          /\ UNCHANGED <<tables, cluster, watching, tasks, node_state, locals>>
      BY <1>6, <2>1 DEF StopHandleMissing, StopReturn
    <3>2. TypeInv'
      BY <1>6, <2>1, <3>1 DEF TypeInv, TypeOK, CallOK, BornOK, Steps
    <3>3. NamesOK' /\ NameHasHandle'
      BY <1>6, <2>1, <3>1 DEF TypeInv, TypeOK, TableInv, NamesOK, NameHasHandle
    <3>4. HandlesOK'
      BY <1>6, <2>1, <3>1 DEF TypeInv, TypeOK, CallOK, TableInv, HandlesOK
    <3>5. CancelInv'
      BY <1>6, <2>1, <3>1 DEF TypeInv, TypeOK, CallOK, BornOK, CancelInv, CleanupOK,
         DroppedIsCancelled, ShutdownReachesAll, NotifiedIsGone
    <3>6. QED
      BY <3>2, <3>3, <3>4, <3>5 DEF TableInv
  <2>2. CASE op[c] # "shutdown"
    <3>1. /\ Return(c, pc[c])
          /\ pc[c] = "handle" => act[c] \notin local_actors
          /\ pc[c] \in {"handle", "notify"}
          /\ UNCHANGED <<tables, cluster, watchers, inbox, tasks, node_state>>
          /\ monitor' \in [Keys -> Actors \cup {NoActor}]
      BY <1>6, <2>2 DEF StopHandleMissing, StopReturn, TypeInv, TypeOK, CallOK
    <3>2. QED
      BY <1>6, <3>1, ReturnPreserves
  <2>3. QED
    BY <2>1, <2>2
<1>7. ASSUME RegistryInv, NEW c \in Calls, StopJoined(c)
      PROVE  RegistryInv'
  <2> USE <1>7 DEF StopJoined
  <2>1. TypeInv'
    BY DEF TypeInv, TypeOK, CallOK, BornOK, Steps
  <2>2. TableInv'
    BY TableFrame DEF TypeInv, TypeOK, CallOK, BornOK
  <2>3. CancelInv'
    BY DEF TypeInv, TypeOK, CallOK, BornOK,
           CancelInv, CleanupOK, DroppedIsCancelled, ShutdownReachesAll, NotifiedIsGone
  <2>4. QED
    BY <2>1, <2>2, <2>3
<1>8. ASSUME RegistryInv, NEW c \in Calls, StopTimedOut(c)
      PROVE  RegistryInv'
  <2> USE <1>8 DEF StopTimedOut
  <2>1. TypeInv'
    BY DEF TypeInv, TypeOK, CallOK, BornOK, Steps
  <2>2. TableInv'
    BY TableFrame DEF TypeInv, TypeOK, CallOK, BornOK
  <2>3. CancelInv'
    BY DEF TypeInv, TypeOK, CallOK, BornOK,
           CancelInv, CleanupOK, DroppedIsCancelled, ShutdownReachesAll, NotifiedIsGone
  <2>4. QED
    BY <2>1, <2>2, <2>3
<1>9. ASSUME RegistryInv, NEW c \in Calls, StopPaths(c)
      PROVE  RegistryInv'
  <2> USE <1>9 DEF StopPaths
  <2>1. TypeInv'
    BY DEF TypeInv, TypeOK, CallOK, BornOK, Steps
  <2>2. TableInv'
    BY TableFrame DEF TypeInv, TypeOK, CallOK, BornOK
  <2>3. CancelInv'
    BY DEF TypeInv, TypeOK, CallOK, BornOK,
           CancelInv, CleanupOK, DroppedIsCancelled, ShutdownReachesAll, NotifiedIsGone
  <2>4. QED
    BY <2>1, <2>2, <2>3
<1>10. ASSUME RegistryInv, NEW c \in Calls, StopLookup(c)
      PROVE  RegistryInv'
  <2> USE <1>10 DEF StopLookup
  <2>1. TypeInv'
    BY DEF TypeInv, TypeOK, CallOK, BornOK, Steps
  <2>2. TableInv'
    BY TableFrame DEF TypeInv, TypeOK, CallOK, BornOK
  <2>3. CancelInv'
    BY DEF TypeInv, TypeOK, CallOK, BornOK,
           CancelInv, CleanupOK, DroppedIsCancelled, ShutdownReachesAll, NotifiedIsGone
  <2>4. QED
    BY <2>1, <2>2, <2>3
<1>11. ASSUME RegistryInv, NEW c \in Calls, StopUnregister(c)
      PROVE  RegistryInv'
  <2> USE <1>11 DEF StopUnregister
  <2>1. TypeInv'
    BY DEF TypeInv, TypeOK, CallOK, BornOK, Steps
  <2>2. TableInv'
    BY TableFrame DEF TypeInv, TypeOK, CallOK, BornOK
  <2>3. CancelInv'
    BY DEF TypeInv, TypeOK, CallOK, BornOK,
           CancelInv, CleanupOK, DroppedIsCancelled, ShutdownReachesAll, NotifiedIsGone
  <2>4. QED
    BY <2>1, <2>2, <2>3
<1>12. ASSUME RegistryInv, NEW c \in Calls, StopUnindex(c)
      PROVE  RegistryInv'
  <2> USE <1>12 DEF StopUnindex
  <2>1. TypeInv'
    BY DEF TypeInv, TypeOK, CallOK, BornOK, Steps
  <2>2. TableInv'
    BY TableFrame DEF TypeInv, TypeOK, CallOK, BornOK
  <2>3. CancelInv'
    BY DEF TypeInv, TypeOK, CallOK, BornOK,
           CancelInv, CleanupOK, DroppedIsCancelled, ShutdownReachesAll, NotifiedIsGone
  <2>4. QED
    BY <2>1, <2>2, <2>3
<1>13. ASSUME RegistryInv, NEW c \in Calls, StopUnlist(c)
      PROVE  RegistryInv'
  <2> USE <1>13 DEF StopUnlist
  <2>1. TypeInv'
    BY DEF TypeInv, TypeOK, CallOK, BornOK, Steps
  <2>2. TableInv'
    BY TableFrame DEF TypeInv, TypeOK, CallOK, BornOK
  <2>3. CancelInv'
    BY DEF TypeInv, TypeOK, CallOK, BornOK,
           CancelInv, CleanupOK, DroppedIsCancelled, ShutdownReachesAll, NotifiedIsGone
  <2>4. QED
    BY <2>1, <2>2, <2>3
<1>14. ASSUME RegistryInv, NEW c \in Calls, StopTakeWatchers(c)
      PROVE  RegistryInv'
  <2> USE <1>14 DEF StopTakeWatchers
  <2>1. TypeInv'
    BY DEF TypeInv, TypeOK, CallOK, BornOK, Steps
  <2>2. TableInv'
    BY TableFrame DEF TypeInv, TypeOK, CallOK, BornOK
  <2>3. CancelInv'
    BY DEF TypeInv, TypeOK, CallOK, BornOK,
           CancelInv, CleanupOK, DroppedIsCancelled, ShutdownReachesAll, NotifiedIsGone
  <2>4. QED
    BY <2>1, <2>2, <2>3
<1>15. ASSUME RegistryInv, NEW c \in Calls, NEW w \in Actors,
             NEW d \in BOOLEAN, Notify(c, w, d)
      PROVE  RegistryInv'
  <2> USE <1>15 DEF Notify
  <2>1. TypeInv'
    BY DEF TypeInv, TypeOK, CallOK, BornOK, Steps
  <2>2. TableInv'
    BY TableFrame DEF TypeInv, TypeOK, CallOK, BornOK
  <2>3. CancelInv'
    BY DEF TypeInv, TypeOK, CallOK, BornOK,
           CancelInv, CleanupOK, DroppedIsCancelled, ShutdownReachesAll, NotifiedIsGone
  <2>4. QED
    BY <2>1, <2>2, <2>3
<1>16. ASSUME RegistryInv, NEW c \in Calls, StopDone(c)
      PROVE  RegistryInv'
  <2>1. CASE op[c] = "shutdown"
    <3>1. TypeInv'
      <4>1. monitor' \in [Keys -> Actors \cup {NoActor}]
        BY <1>16, MonitorTyped DEF StopDone, TypeInv
      <4>2. TypeOK'
        BY <1>16, <2>1, <4>1 DEF StopDone, StopReturn, TypeInv, TypeOK, CallOK, Steps
      <4>3. CallOK' /\ BornOK'
        BY <1>16, <2>1 DEF StopDone, StopReturn, TypeInv, TypeOK, CallOK, BornOK, Steps
      <4>4. QED
        BY <4>2, <4>3 DEF TypeInv
    <3>2. TableInv'
      BY <1>16, <2>1, TableFrame DEF StopDone, StopReturn, TypeInv, TypeOK
    <3>3. CancelInv'
      BY <1>16, <2>1 DEF StopDone, StopReturn, TypeInv, TypeOK, CallOK, BornOK,
           CancelInv, CleanupOK, DroppedIsCancelled, ShutdownReachesAll, NotifiedIsGone
    <3>4. QED
      BY <3>1, <3>2, <3>3
  <2>2. CASE op[c] # "shutdown"
    <3>1. /\ Return(c, pc[c])
          /\ pc[c] = "notify"
          /\ UNCHANGED <<tables, cluster, watchers, inbox, tasks, node_state>>
         
      BY <1>16, <2>2 DEF StopDone, StopReturn, TypeInv, TypeOK, CallOK
    <3>2. monitor' \in [Keys -> Actors \cup {NoActor}]
      BY <1>16, MonitorTyped DEF StopDone, TypeInv
    <3>3. QED
      BY <1>16, <3>1, <3>2, ReturnPreserves
  <2>3. QED
    BY <2>1, <2>2
<1>17. QED
  BY <1>1, <1>2, <1>3, <1>4, <1>5, <1>6, <1>7, <1>8, <1>9,
     <1>10, <1>11, <1>12, <1>13, <1>14, <1>15, <1>16
  DEF StopStep

\* So do watch, unwatch and the end of an actor's task.
LEMMA WatchPreserves ==
  RegistryInv /\ (\/ \E c \in Calls, w \in Watchers, t \in Actors : Watch(c, w, t)
                  \/ \E c \in Calls : WatchInsert(c)
                  \/ \E w, t \in Actors : Unwatch(w, t)
                  \/ \E a \in Actors : TaskEnd(a))
  => RegistryInv'
<1> USE RegistryAssumption
    DEF RegistryInv, Keys, KeyOf, Born, SpawnSteps, CleanupSteps, ShutdownSteps,
        Goto, Return, NotifySpawned, NotifyStopped, tables, cluster, watching,
        tasks, locals
<1>1. ASSUME RegistryInv, NEW c \in Calls, NEW w \in Watchers,
             NEW t \in Actors, Watch(c, w, t)
      PROVE  RegistryInv'
  <2> USE <1>1 DEF Watch
  <2>1. TypeInv'
    BY DEF TypeInv, TypeOK, CallOK, BornOK, Steps
  <2>2. TableInv'
    BY TableFrame DEF TypeInv, TypeOK, CallOK, BornOK
  <2>3. CancelInv'
    BY DEF TypeInv, TypeOK, CallOK, BornOK,
           CancelInv, CleanupOK, DroppedIsCancelled, ShutdownReachesAll, NotifiedIsGone
  <2>4. QED
    BY <2>1, <2>2, <2>3
<1>2. ASSUME RegistryInv, NEW c \in Calls, WatchInsert(c)
      PROVE  RegistryInv'
  <2> USE <1>2 DEF WatchInsert
  <2>1. TypeInv'
    BY DEF TypeInv, TypeOK, CallOK, BornOK, Steps
  <2>2. TableInv'
    BY TableFrame DEF TypeInv, TypeOK, CallOK, BornOK
  <2>3. CancelInv'
    BY DEF TypeInv, TypeOK, CallOK, BornOK,
           CancelInv, CleanupOK, DroppedIsCancelled, ShutdownReachesAll, NotifiedIsGone
  <2>4. QED
    BY <2>1, <2>2, <2>3
<1>3. ASSUME RegistryInv, NEW w \in Actors, NEW t \in Actors, Unwatch(w, t)
      PROVE  RegistryInv'
  <2> USE <1>3 DEF Unwatch
  <2>1. TypeInv'
    BY DEF TypeInv, TypeOK, CallOK, BornOK, Steps
  <2>2. TableInv'
    BY TableFrame DEF TypeInv, TypeOK, CallOK, BornOK
  <2>3. CancelInv'
    BY DEF TypeInv, TypeOK, CallOK, BornOK,
           CancelInv, CleanupOK, DroppedIsCancelled, ShutdownReachesAll, NotifiedIsGone
  <2>4. QED
    BY <2>1, <2>2, <2>3
<1>4. ASSUME RegistryInv, NEW a \in Actors, TaskEnd(a)
      PROVE  RegistryInv'
  <2> USE <1>4 DEF TaskEnd
  <2>1. TypeInv'
    BY DEF TypeInv, TypeOK, CallOK, BornOK, Steps
  <2>2. TableInv'
    BY TableFrame DEF TypeInv, TypeOK, CallOK, BornOK
  <2>3. CancelInv'
    BY DEF TypeInv, TypeOK, CallOK, BornOK,
           CancelInv, CleanupOK, DroppedIsCancelled, ShutdownReachesAll, NotifiedIsGone
  <2>4. QED
    BY <2>1, <2>2, <2>3
<1>5. QED
  BY <1>1, <1>2, <1>3, <1>4

\* And every step of a shutdown.
LEMMA ShutdownPreserves ==
  RegistryInv /\ (\/ \E c \in Closers : Shutdown(c)
                  \/ \E c \in Calls : ShutdownStep(c))
  => RegistryInv'
<1> USE RegistryAssumption
    DEF RegistryInv, Keys, KeyOf, Born, SpawnSteps, CleanupSteps, ShutdownSteps,
        Goto, Return, NotifySpawned, NotifyStopped, tables, cluster, watching,
        tasks, locals
<1>1. ASSUME RegistryInv, NEW c \in Closers, Shutdown(c)
      PROVE  RegistryInv'
  <2> USE <1>1 DEF Shutdown
  <2>1. TypeInv'
    BY DEF TypeInv, TypeOK, CallOK, BornOK, Steps
  <2>2. TableInv'
    BY DEF TypeInv, TypeOK, CallOK, BornOK, TableInv, NamesOK, NameHasHandle,
           HandlesOK
  <2>3. CleanupOK' /\ NotifiedIsGone'
    BY DEF TypeInv, TypeOK, CallOK, BornOK, CancelInv, CleanupOK, NotifiedIsGone
  <2>4. DroppedIsCancelled' /\ ShutdownReachesAll'
    BY DEF TypeInv, TypeOK, CancelInv, DroppedIsCancelled, ShutdownReachesAll
  <2>5. QED
    BY <2>1, <2>2, <2>3, <2>4 DEF CancelInv
<1>2. ASSUME RegistryInv, NEW c \in Calls, ShutdownCollect(c)
      PROVE  RegistryInv'
  <2> USE <1>2 DEF ShutdownCollect
  <2>1. TypeInv'
    BY DEF TypeInv, TypeOK, CallOK, BornOK, Steps
  <2>2. TableInv'
    BY TableFrame DEF TypeInv, TypeOK, CallOK, BornOK
  <2>3. CancelInv'
    BY DEF TypeInv, TypeOK, CallOK, BornOK,
           CancelInv, CleanupOK, DroppedIsCancelled, ShutdownReachesAll, NotifiedIsGone
  <2>4. QED
    BY <2>1, <2>2, <2>3
<1>3. ASSUME RegistryInv, NEW c \in Calls, NEW e \in todo[c], ShutdownEntry(c, e)
      PROVE  RegistryInv'
  <2> USE <1>3 DEF ShutdownEntry
  <2>1. TypeInv'
    BY DEF TypeInv, TypeOK, CallOK, BornOK, Steps
  <2>2. TableInv'
    BY DEF TypeInv, TypeOK, CallOK, BornOK, TableInv, NamesOK, NameHasHandle,
           HandlesOK
  <2>3. CancelInv'
    BY DEF TypeInv, TypeOK, CallOK, BornOK,
           CancelInv, CleanupOK, DroppedIsCancelled, ShutdownReachesAll, NotifiedIsGone
  <2>4. QED
    BY <2>1, <2>2, <2>3
<1>4. ASSUME RegistryInv, NEW c \in Calls, ShutdownClear(c)
      PROVE  RegistryInv'
  <2> USE <1>4 DEF ShutdownClear
  <2>1. TypeInv'
    BY DEF TypeInv, TypeOK, CallOK, BornOK, Steps
  <2>2. TableInv'
    BY DEF TypeInv, TypeOK, CallOK, BornOK, TableInv, NamesOK, NameHasHandle,
           HandlesOK
  <2>3. CancelInv'
    BY DEF TypeInv, TypeOK, CallOK, BornOK,
           CancelInv, CleanupOK, DroppedIsCancelled, ShutdownReachesAll, NotifiedIsGone
  <2>4. QED
    BY <2>1, <2>2, <2>3
<1>5. ASSUME RegistryInv, NEW c \in Calls, ShutdownClearWatchers(c)
      PROVE  RegistryInv'
  <2> USE <1>5 DEF ShutdownClearWatchers
  <2>1. TypeInv'
    BY DEF TypeInv, TypeOK, CallOK, BornOK, Steps
  <2>2. TableInv'
    BY TableFrame DEF TypeInv, TypeOK, CallOK, BornOK
  <2>3. CancelInv'
    BY DEF TypeInv, TypeOK, CallOK, BornOK,
           CancelInv, CleanupOK, DroppedIsCancelled, ShutdownReachesAll, NotifiedIsGone
  <2>4. QED
    BY <2>1, <2>2, <2>3
<1>6. ASSUME RegistryInv, NEW c \in Calls, ShutdownLeave(c)
      PROVE  RegistryInv'
  <2> USE <1>6 DEF ShutdownLeave
  <2>1. TypeInv'
    BY DEF TypeInv, TypeOK, CallOK, BornOK, Steps
  <2>2. TableInv'
    BY TableFrame DEF TypeInv, TypeOK, CallOK, BornOK
  <2>3. CancelInv'
    BY DEF TypeInv, TypeOK, CallOK, BornOK,
           CancelInv, CleanupOK, DroppedIsCancelled, ShutdownReachesAll, NotifiedIsGone
  <2>4. QED
    BY <2>1, <2>2, <2>3
<1>7. QED
  BY <1>1, <1>2, <1>3, <1>4, <1>5, <1>6 DEF ShutdownStep

\* RegistryInv is an invariant of the registry, whatever calls run concurrently.
THEOREM RegistryCorrect == Spec => []RegistryInv
<1>1. RegistryInv /\ [Next]_vars => RegistryInv'
  <2> SUFFICES ASSUME RegistryInv, [Next]_vars PROVE RegistryInv'
    OBVIOUS
  <2>1. CASE UNCHANGED vars
    BY <2>1
    DEF vars, tables, cluster, watching, tasks, locals, RegistryInv, TypeInv, TypeOK,
        CallOK, BornOK, Born, TableInv, NamesOK, NameHasHandle, HandlesOK,
        CancelInv, CleanupOK, DroppedIsCancelled, ShutdownReachesAll,
        NotifiedIsGone, KeyOf
  <2>2. CASE Next
    BY <2>2, SpawnPreserves, StopPreserves, WatchPreserves, ShutdownPreserves
    DEF Next, Step
  <2>3. QED
    BY <2>1, <2>2
<1>2. QED
  BY InitInv, <1>1, PTL DEF Spec

\* The tables, the tokens and the calls' local variables always have their types.
THEOREM TypeCorrect == Spec => []TypeOK
  BY RegistryCorrect, PTL DEF RegistryInv, TypeInv

\* Until a shutdown, a registered name always has a handle.
THEOREM NamesResolve == Spec => []NameHasHandle
  BY RegistryCorrect, PTL DEF RegistryInv, TableInv

\* Until a shutdown, a handle is registered under its name or a call is at work
\* on it: no actor is left running out of reach.
THEOREM NoOrphans == Spec => []NoOrphanHandle
<1>1. RegistryInv => NoOrphanHandle
  BY DEF RegistryInv, TypeInv, CallOK, TableInv, HandlesOK, NoOrphanHandle, Handled,
         SpawnSteps
<1>2. QED
  BY RegistryCorrect, <1>1, PTL

\* The two together: for any number of racing spawns and stops, the name table
\* and the handle table of the registry agree.
THEOREM TablesStayTogether == Spec => []TablesAgree
  BY NamesResolve, NoOrphans, PTL DEF TablesAgree

\* A live task without a handle has been cancelled, by whichever call dropped it.
THEOREM DroppedTasksStop == Spec => []DroppedIsCancelled
  BY RegistryCorrect, PTL DEF RegistryInv, CancelInv

\* After a shutdown every live task is cancelled, later spawns included.
THEOREM ShutdownReaches == Spec => []ShutdownReachesAll
  BY RegistryCorrect, PTL DEF RegistryInv, CancelInv

\* A watcher is told of a termination only after the actor left the table.
THEOREM NotifiedAfterRemoval == Spec => []NotifiedIsGone
  BY RegistryCorrect, PTL DEF RegistryInv, CancelInv
=============================================================================

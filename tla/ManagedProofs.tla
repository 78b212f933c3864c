---------------------------- MODULE ManagedProofs ----------------------------
(***************************************************************************)
(* The compositor forgets no live surface and keeps no dead one, whatever  *)
(* happens to the Activities and also when the process dies, any number of *)
(* times; and while it lives it does what WindowSession promises.          *)
(***************************************************************************)
EXTENDS WindowLifecycleProofs, WindowRestart

-----------------------------------------------------------------------------
(* Removals, in one process and in those that follow it.  After a death    *)
(* the ids start at 1 again and Android may restore Activities that carry  *)
(* ids of the new process, so an id below next_id no longer says whose it  *)
(* is.  What a process does to an Activity still says something: it is     *)
(* told to finish only when the window of its id has been removed, and     *)
(* what has been removed does not come back before the next death.         *)
Removed(w) == w < next_id /\ w \notin DOMAIN windows

WindowsBelowNext == \A w \in DOMAIN windows : w < next_id

ClosingIsFinishing ==
  \A a \in Acts : act[a].closing =>
    act[a].state = "destroyed" \/ (act[a].state = "created" /\ act[a].finishing)

PostedIsUsed == \A a \in Acts : posted[a] # "none" => act[a].state # "unused"

ToldIsRemoved ==
  \A a \in Acts :
    posted[a] # "none" \/ (act[a].state = "created" /\ act[a].closing)
      => Removed(act[a].window_id)

RemovalInv ==
  WindowsBelowNext /\ RegistryNamesCreated /\ ClosingIsFinishing /\ PostedIsUsed /\ ToldIsRemoved

LEMMA InitRemovalInv == Init => RemovalInv
  BY DEF Init, InitWithFirstId, RemovalInv, WindowsBelowNext, RegistryNamesCreated,
         ClosingIsFinishing, PostedIsUsed, ToldIsRemoved

LEMMA FewerWindows ==
  ASSUME TypeInv, RemovalInv, DOMAIN windows' \subseteq DOMAIN windows,
         UNCHANGED <<next_id, instances, act, posted>>
  PROVE  RemovalInv'
  BY DEF RemovalInv, WindowsBelowNext, RegistryNamesCreated, ClosingIsFinishing, PostedIsUsed,
         ToldIsRemoved, Removed

(* The id of a new window is none that has been removed. *)
LEMMA RemovedStays ==
  ASSUME TypeInv, DOMAIN windows' = DOMAIN windows \cup {next_id}, next_id' = next_id + 1
  PROVE  \A w \in Nat : Removed(w) => Removed(w)'
  BY DEF Removed, TypeInv, TypeOK, WindowIds

LEMMA CompositorRemovalInv ==
  ASSUME TypeInv, RemovalInv, dispatch_wayland \/ Timer
  PROVE  RemovalInv'
<1> USE DEF androidVars
<1>1. ASSUME NEW s \in Surfaces, new_window(s) PROVE RemovalInv'
  <2>1. /\ DOMAIN windows' = DOMAIN windows \cup {next_id}
        /\ next_id' = next_id + 1 /\ next_id \in Nat
        /\ UNCHANGED <<instances, act, posted>>
    BY <1>1 DEF new_window, Put, TypeInv, TypeOK, WindowIds
  <2>2. \A a \in Acts : act[a].window_id \in Nat
    BY DEF TypeInv, TypeOK, ActivityRecord, WindowIds
  <2>3. \A w \in DOMAIN windows : w \in Nat
    BY DEF TypeInv, TypeOK, IsMap, WindowIds
  <2>4. WindowsBelowNext'
    BY <2>1, <2>3 DEF RemovalInv, WindowsBelowNext
  <2>5. \A a \in Acts : Removed(act[a].window_id) => Removed(act[a].window_id)'
    BY <2>1, <2>2, RemovedStays
  <2>6. ToldIsRemoved'
    BY <2>1, <2>5 DEF RemovalInv, ToldIsRemoved
  <2> QED
    BY <2>1, <2>4, <2>6 DEF RemovalInv, RegistryNamesCreated, ClosingIsFinishing, PostedIsUsed
<1>2. ASSUME NEW s \in Surfaces, finish_destroyed(s) PROVE RemovalInv'
  <2>1. CASE UNCHANGED <<windows, posted>>
    BY <1>2, <2>1, FewerWindows DEF finish_destroyed
  <2>2. CASE \E w \in DOMAIN windows : finishByWindowId(w) /\ remove_window(w)
    <3>1. PICK w \in DOMAIN windows : finishByWindowId(w) /\ remove_window(w)
      BY <2>2
    <3>2. DOMAIN windows' = DOMAIN windows \ {w} /\ UNCHANGED <<next_id, instances, act>>
      BY <1>2, <3>1 DEF finish_destroyed, remove_window, Drop
    <3>3. \A a \in Acts : posted'[a] = posted[a] \/ (w \in DOMAIN instances /\ a = instances[w])
      BY <3>1 DEF finishByWindowId, TypeInv, TypeOK, IsMap
    <3>4. w < next_id
      BY DEF RemovalInv, WindowsBelowNext
    <3>5. \A a \in Acts : posted'[a] = posted[a]
                            \/ (act[a].window_id = w /\ act[a].state = "created")
      BY <3>3 DEF RemovalInv, RegistryNamesCreated
    <3>6. ToldIsRemoved'
      BY <3>2, <3>4, <3>5 DEF RemovalInv, ToldIsRemoved, Removed
    <3>7. PostedIsUsed'
      BY <3>2, <3>5 DEF RemovalInv, PostedIsUsed
    <3> QED
      BY <3>2, <3>6, <3>7
      DEF RemovalInv, WindowsBelowNext, RegistryNamesCreated, ClosingIsFinishing
  <2> QED  BY <1>2, <2>1, <2>2 DEF finish_destroyed
<1>3. ASSUME NEW w \in DOMAIN windows, NEW a \in Acts, launch_activity(w, a) PROVE RemovalInv'
  <2>1. DOMAIN windows' = DOMAIN windows /\ UNCHANGED <<next_id, instances, posted>>
    BY <1>3 DEF launch_activity
  <2>2. /\ act[a].state = "unused"
        /\ act'[a].state \in {"starting", "destroyed"}
        /\ act'[a].closing = act[a].closing
        /\ \A b \in Acts \ {a} : act'[b] = act[b]
    BY <1>3 DEF launch_activity, TypeInv, TypeOK, ActivityRecord
  <2>3. ~act[a].closing /\ posted[a] = "none"
    BY <2>2 DEF RemovalInv, ClosingIsFinishing, PostedIsUsed
  <2>4. ToldIsRemoved'
    BY <2>1, <2>2, <2>3 DEF RemovalInv, ToldIsRemoved, Removed
  <2>5. PostedIsUsed' /\ ClosingIsFinishing'
    BY <2>1, <2>2, <2>3 DEF RemovalInv, PostedIsUsed, ClosingIsFinishing
  <2>6. RegistryNamesCreated'
    BY <2>1, <2>2 DEF RemovalInv, RegistryNamesCreated, TypeInv, TypeOK, IsMap
  <2> QED  BY <2>1, <2>4, <2>5, <2>6 DEF RemovalInv, WindowsBelowNext
<1>4. CASE AdoptDone \/ LaunchDone \/ EventsDone \/ DispatchDone \/ CollectEvents
  BY <1>4, FewerWindows DEF AdoptDone, LaunchDone, EventsDone, DispatchDone, CollectEvents
<1>5. CASE HandleSurfaceCreated \/ HandleSurfaceDestroyed
  BY <1>5, FewerWindows DEF HandleSurfaceCreated, HandleSurfaceDestroyed
<1>6. CASE HandleCloseRequested
  BY <1>6, FewerWindows DEF HandleCloseRequested, PrepareRelaunch
<1>7. CASE HandleWindowClosed
  BY <1>7, FewerWindows DEF HandleWindowClosed, remove_window, Drop
<1>8. ASSUME NEW w \in DOMAIN windows, CreatedTimeout(w) \/ CloseTimeout(w) PROVE RemovalInv'
  BY <1>8, FewerWindows DEF CreatedTimeout, CloseTimeout
<1> QED
  BY <1>1, <1>2, <1>3, <1>4, <1>5, <1>6, <1>7, <1>8 DEF dispatch_wayland, Timer

(* An entry of the registry stays that of a created Activity with its id,  *)
(* although onDestroy of one Activity may remove the entry of another.     *)
LEMMA CallbackKeepsRegistry ==
  ASSUME TypeInv, RegistryNamesCreated, NEW a \in Acts,
         \/ surfaceCreated(a) \/ surfaceDestroyed(a) \/ BackPressed(a) \/ RemoveTask(a)
         \/ onCreate(a) \/ RunFinish(a) \/ onDestroy(a) \/ onDestroyKept(a)
  PROVE  RegistryNamesCreated'
<1>1. act \in [Acts -> ActivityRecord]
  BY DEF TypeInv, TypeOK
<1>2. /\ \A b \in Acts : act'[b].window_id = act[b].window_id
      /\ \A b \in Acts \ {a} : act'[b] = act[b]
  BY CallbackChanges
<1>3. CASE onCreate(a)
  <2>1. act'[a].state = "created" /\ instances' = Put(instances, act[a].window_id, a)
    BY <1>1, <1>3 DEF onCreate, ActivityRecord
  <2> QED  BY <1>2, <2>1 DEF RegistryNamesCreated, Put, TypeInv, TypeOK, IsMap
<1>4. CASE onDestroy(a) \/ onDestroyKept(a)
  <2>1. instances' = Drop(instances, act[a].window_id)
    BY <1>4 DEF onDestroy, onDestroyKept, Unregister
  <2> QED  BY <1>2, <2>1 DEF RegistryNamesCreated, Drop, TypeInv, TypeOK, IsMap
<1>5. CASE \/ surfaceCreated(a) \/ surfaceDestroyed(a) \/ BackPressed(a) \/ RemoveTask(a)
           \/ RunFinish(a)
  <2>1. act'[a].state = act[a].state \/ act[a].state # "created"
    BY <1>1, <1>5 DEF surfaceCreated, surfaceDestroyed, BackPressed, RemoveTask, RunFinish,
                      ActivityRecord
  <2>2. UNCHANGED instances
    BY <1>5 DEF surfaceCreated, surfaceDestroyed, BackPressed, RemoveTask, RunFinish
  <2> QED  BY <1>2, <2>1, <2>2 DEF RegistryNamesCreated, TypeInv, TypeOK, IsMap
<1> QED  BY <1>3, <1>4, <1>5

LEMMA UiThreadRemovalInv ==
  ASSUME TypeInv, RemovalInv, UiThread
  PROVE  RemovalInv'
<1> USE DEF compositorVars
<1>1. act \in [Acts -> ActivityRecord] /\ posted \in [Acts -> {"none", "current", "stale"}]
  BY DEF TypeInv, TypeOK
<1>2. PICK a \in Acts :
        \/ surfaceCreated(a) \/ surfaceDestroyed(a) \/ BackPressed(a) \/ RemoveTask(a)
        \/ onCreate(a) \/ RunFinish(a) \/ onDestroy(a) \/ onDestroyKept(a)
  BY DEF UiThread
<1>3. /\ \A b \in Acts : act'[b].window_id = act[b].window_id
      /\ \A b \in Acts \ {a} : act'[b] = act[b]
      /\ act[a].state = "unused" \/ act'[a].state # "unused"
  BY <1>2, CallbackChanges
<1>4. UNCHANGED <<windows, next_id>>
  BY <1>2 DEF surfaceCreated, surfaceDestroyed, BackPressed, RemoveTask, onCreate, RunFinish,
              onDestroy, onDestroyKept
<1>5. RegistryNamesCreated'
  BY <1>2, CallbackKeepsRegistry DEF RemovalInv
<1>6. \A b \in Acts : posted'[b] = "none" \/ posted[b] # "none"
  BY <1>1, <1>2 DEF surfaceCreated, surfaceDestroyed, BackPressed, RemoveTask, onCreate,
                    RunFinish, onDestroy, onDestroyKept
<1>7. act'[a].closing =>
        /\ act'[a].state = "destroyed" \/ (act'[a].state = "created" /\ act'[a].finishing)
        /\ \/ act[a].state = "created" /\ act[a].closing
           \/ posted[a] # "none"
           \/ act'[a].state = "destroyed"
  <2>1. act[a].closing =>
          act[a].state = "destroyed" \/ (act[a].state = "created" /\ act[a].finishing)
    BY DEF RemovalInv, ClosingIsFinishing
  <2> QED
    BY <1>1, <1>2, <2>1
    DEF surfaceCreated, surfaceDestroyed, BackPressed, RemoveTask, onCreate, RunFinish,
        onDestroy, onDestroyKept, ActivityRecord
<1>8. ClosingIsFinishing'
  BY <1>3, <1>7 DEF RemovalInv, ClosingIsFinishing
<1>9. PostedIsUsed'
  BY <1>3, <1>6 DEF RemovalInv, PostedIsUsed
<1>10. ToldIsRemoved'
  BY <1>3, <1>4, <1>6, <1>7 DEF RemovalInv, ToldIsRemoved, Removed
<1>11. WindowsBelowNext'
  BY <1>4 DEF RemovalInv, WindowsBelowNext
<1> QED  BY <1>5, <1>8, <1>9, <1>10, <1>11 DEF RemovalInv

(* The records that outlive a process are those of Activities it had not   *)
(* told to finish, and the next one has removed no window yet.             *)
LEMMA DeathRemovalInv ==
  ASSUME TypeInv, RemovalInv, ProcessDeath
  PROVE  RemovalInv'
<1>0. windows' = << >> /\ instances' = << >>
      /\ posted' = [a \in Acts |-> "none"]
  BY DEF ProcessDeath
<1>1. /\ DOMAIN windows' = {} /\ DOMAIN instances' = {}
      /\ \A a \in Acts : posted'[a] = "none"
  BY <1>0
<1>2. \A a \in Acts : act'[a].closing => act'[a].state = "destroyed"
  BY DEF ProcessDeath, RemovalInv, ClosingIsFinishing, TypeInv, TypeOK, ActivityRecord
<1> QED
  BY <1>1, <1>2 DEF RemovalInv, WindowsBelowNext, RegistryNamesCreated, ClosingIsFinishing,
                    PostedIsUsed, ToldIsRemoved

LEMMA NextRemovalInv == TypeInv /\ RemovalInv /\ [RestartNext]_vars => RemovalInv'
<1>1. ASSUME TypeInv, RemovalInv, Client PROVE RemovalInv'
  BY <1>1, FewerWindows
  DEF Client, new_toplevel, commit, toplevel_destroyed, compositorVars, androidVars
<1>2. ASSUME TypeInv, RemovalInv, UNCHANGED vars PROVE RemovalInv'
  BY <1>2, FewerWindows DEF vars, compositorVars, androidVars
<1> QED
  BY <1>1, <1>2, CompositorRemovalInv, UiThreadRemovalInv, DeathRemovalInv DEF RestartNext, Next

-----------------------------------------------------------------------------
(* The types survive the process as well. *)
LEMMA DeathTypeInv ==
  ASSUME TypeInv, ProcessDeath
  PROVE  TypeInv'
<1>1. act \in [Acts -> ActivityRecord]
  BY DEF TypeInv, TypeOK
<1>2. \A a \in Acts : /\ act'[a] \in ActivityRecord /\ act'[a].window_id = act[a].window_id
                      /\ act[a].state = "unused" => act'[a].state = "unused"
                      /\ act'[a].state = "unused" => act[a].state = "unused"
  <2> SUFFICES ASSUME NEW a \in Acts
               PROVE  /\ act'[a] \in ActivityRecord /\ act'[a].window_id = act[a].window_id
                      /\ act[a].state = "unused" => act'[a].state = "unused"
                      /\ act'[a].state = "unused" => act[a].state = "unused"
    OBVIOUS
  <2>1. CASE act[a].state \notin {"starting", "created"}
    BY <1>1, <2>1 DEF ProcessDeath
  <2>2. CASE act[a].state \in {"starting", "created"}
    BY <1>1, <2>2 DEF ProcessDeath, ActivityRecord
  <2> QED  BY <2>1, <2>2
<1>3. act' \in [Acts -> ActivityRecord]
  BY <1>2 DEF ProcessDeath
<1>4. UsedHasWindow'
  BY <1>2 DEF TypeInv, UsedHasWindow
<1>9. /\ windows' = << >> /\ instances' = << >> /\ batch' = << >> /\ channel' = << >>
      /\ next_id' = 1 /\ phase' = "adopt" /\ actions < MaxUserActions /\ actions' = actions + 1
  BY DEF ProcessDeath
<1>5. IsMap(windows', WindowIds, WindowState) /\ IsMap(instances', WindowIds, Acts)
  BY <1>9 DEF IsMap
<1>6. batch' \in Seq(WindowEvent) /\ channel' \in Seq(WindowEvent)
  BY <1>9
<1>7. next_id' \in WindowIds /\ actions' \in 0 .. MaxUserActions /\ phase' \in Phases
  BY <1>9, ActionsAssumption DEF WindowIds, Phases, TypeInv, TypeOK
<1>8. /\ surface' \in [Surfaces -> {"unborn", "live", "gone"}]
      /\ geometry' \in [Surfaces -> BOOLEAN] /\ close_sent' \in [Surfaces -> BOOLEAN]
      /\ pending' \subseteq Surfaces /\ destroyed' \subseteq Surfaces
      /\ posted' \in [Acts -> {"none", "current", "stale"}]
  BY DEF ProcessDeath
<1> QED  BY <1>3, <1>4, <1>5, <1>6, <1>7, <1>8 DEF TypeInv, TypeOK

LEMMA RestartTypeInv == TypeInv /\ [RestartNext]_vars => TypeInv'
  BY NextTypeInv, DeathTypeInv DEF RestartNext

(* Whatever a process that dies leaves of its Activities, every variable   *)
(* of the next one is well-typed: in particular no Activity that Android   *)
(* restores reports an event without a window id.                          *)
THEOREM RestartTyping == RestartSpec => []TypeOK
<1>1. TypeInv => TypeOK
  BY DEF TypeInv
<1> QED  BY <1>1, InitTypeInv, RestartTypeInv, PTL DEF RestartSpec

(* The compositor tells an Activity to finish only after it has removed    *)
(* the window with the id that the Activity carries, also when it was      *)
(* started for a window of an earlier process: finishByWindowId never asks *)
(* an Activity to finish whose id is that of a window in use.              *)
THEOREM ToldOnlyIfRemoved == RestartSpec => []ToldIsRemoved
<1>1. RemovalInv => ToldIsRemoved
  BY DEF RemovalInv
<1> QED  BY <1>1, InitTypeInv, RestartTypeInv, InitRemovalInv, NextRemovalInv, PTL DEF RestartSpec

-----------------------------------------------------------------------------
(* Surfaces and their windows.  The compositor drains the pending lists    *)
(* before it looks at the destroyed ones, and clients run between          *)
(* dispatch_wayland's phases.                                              *)
DrainedBeforeFinish == phase \in {"launch", "finish", "events"} => pending = {}

SurfaceOrder ==
  \A s \in Surfaces :
    /\ s \in pending => surface[s] = "live" \/ s \in destroyed
    /\ s \in destroyed => surface[s] = "gone"

(* WindowClosed(is_finishing) is only under way for windows that are gone. *)
FinishingIsStale ==
  \A i \in 1 .. Len(Unhandled) :
    Unhandled[i].type = "WindowClosedFinishing" => Removed(Unhandled[i].window_id)

ManagedInv == DrainedBeforeFinish /\ SurfaceOrder /\ FinishingIsStale /\ LiveSurfaceManaged

LEMMA InitManagedInv == Init => ManagedInv
  BY DEF Init, InitWithFirstId, ManagedInv, DrainedBeforeFinish, SurfaceOrder, FinishingIsStale,
         LiveSurfaceManaged, Unhandled

(* FinishingIsStale only depends on the queue and the set of windows. *)
LEMMA StaleUnderway ==
  ASSUME TypeInv, ManagedInv,
         \/ DOMAIN windows' \subseteq DOMAIN windows /\ next_id' = next_id
         \/ DOMAIN windows' = DOMAIN windows \cup {next_id} /\ next_id' = next_id + 1,
         \/ Unhandled' = Unhandled
         \/ Unhandled # << >> /\ Unhandled' = Tail(Unhandled)
         \/ \E e \in WindowEvent :
              /\ Unhandled' = Append(Unhandled, e)
              /\ e.type = "WindowClosedFinishing" =>
                   e.window_id < next_id' /\ e.window_id \notin DOMAIN windows'
  PROVE  FinishingIsStale'
<1>1. Unhandled \in Seq(WindowEvent)
  BY UnhandledType
<1> DEFINE Gone(w) == w < next_id' /\ w \notin DOMAIN windows'
<1>2. \A w \in Nat : Removed(w) => Gone(w)
  <2>1. CASE DOMAIN windows' \subseteq DOMAIN windows /\ next_id' = next_id
    BY <2>1 DEF Removed
  <2>2. CASE DOMAIN windows' = DOMAIN windows \cup {next_id} /\ next_id' = next_id + 1
    BY <2>2, RemovedStays DEF Removed
  <2> QED  BY <2>1, <2>2
<1>3. \A i \in 1 .. Len(Unhandled) :
        Unhandled[i].type = "WindowClosedFinishing" => Gone(Unhandled[i].window_id)
  <2>1. \A i \in 1 .. Len(Unhandled) : Unhandled[i].window_id \in Nat
    <3>1. \A i \in 1 .. Len(Unhandled) : Unhandled[i] \in WindowEvent
      BY <1>1
    <3> QED  BY <3>1 DEF WindowEvent, WindowIds
  <2> HIDE DEF Gone
  <2> QED  BY <1>2, <2>1 DEF ManagedInv, FinishingIsStale
<1>4. ASSUME \A i \in 1 .. Len(Unhandled') :
               Unhandled'[i].type = "WindowClosedFinishing" => Gone(Unhandled'[i].window_id)
      PROVE  FinishingIsStale'
  BY <1>4 DEF FinishingIsStale, Removed
<1> HIDE DEF Gone
<1>5. CASE Unhandled' = Unhandled
  BY <1>3, <1>4, <1>5
<1>6. CASE Unhandled # << >> /\ Unhandled' = Tail(Unhandled)
  <2>1. \A i \in 1 .. Len(Unhandled') :
          i + 1 \in 1 .. Len(Unhandled) /\ Unhandled'[i] = Unhandled[i + 1]
    BY <1>1, <1>6
  <2> QED  BY <1>3, <1>4, <2>1
<1>7. ASSUME NEW e \in WindowEvent, Unhandled' = Append(Unhandled, e),
             e.type = "WindowClosedFinishing" => Gone(e.window_id)
      PROVE  FinishingIsStale'
  <2>1. \A i \in 1 .. Len(Unhandled') :
          \/ i \in 1 .. Len(Unhandled) /\ Unhandled'[i] = Unhandled[i]
          \/ Unhandled'[i] = e
    BY <1>1, <1>7
  <2> QED  BY <1>3, <1>4, <1>7, <2>1
<1> QED  BY <1>5, <1>6, <1>7 DEF Removed, Gone

(* The rest only depends on the surfaces, the lists and what each window   *)
(* shows.                                                                  *)
LEMMA SurfacesUntouched ==
  ASSUME TypeInv, ManagedInv, UNCHANGED <<surface, pending, destroyed>>, DrainedBeforeFinish',
         DOMAIN windows' = DOMAIN windows,
         \A w \in DOMAIN windows : windows'[w].surface_kind = windows[w].surface_kind
  PROVE  SurfaceOrder' /\ LiveSurfaceManaged'
  BY DEF ManagedInv, SurfaceOrder, LiveSurfaceManaged

LEMMA UiThreadManagedInv ==
  ASSUME TypeInv, RemovalInv, BatchOnlyInEvents, ManagedInv, UiThread
  PROVE  ManagedInv'
<1> USE DEF clientVars, compositorVars
<1>1. PICK a \in Acts :
        \/ surfaceCreated(a) \/ surfaceDestroyed(a) \/ BackPressed(a) \/ RemoveTask(a)
        \/ onCreate(a) \/ RunFinish(a) \/ onDestroy(a) \/ onDestroyKept(a)
  BY DEF UiThread
<1>2. UNCHANGED <<surface, pending, destroyed, phase, windows, next_id, batch>>
  BY <1>1 DEF surfaceCreated, surfaceDestroyed, BackPressed, RemoveTask, onCreate, RunFinish,
              onDestroy, onDestroyKept
<1>3. DrainedBeforeFinish'
  BY <1>2 DEF ManagedInv, DrainedBeforeFinish
<1>4. CASE onCreate(a) \/ RemoveTask(a) \/ RunFinish(a)
  <2>1. Unhandled' = Unhandled
    BY <1>2, <1>4 DEF onCreate, RemoveTask, RunFinish, Unhandled
  <2> QED  BY <1>2, <1>3, <2>1, StaleUnderway, SurfacesUntouched DEF ManagedInv
<1>5. CASE \/ surfaceCreated(a) \/ surfaceDestroyed(a) \/ BackPressed(a)
           \/ onDestroy(a) \/ onDestroyKept(a)
  <2>1. act[a].window_id \in WindowIds
    BY <1>5 DEF surfaceCreated, surfaceDestroyed, BackPressed, onDestroy, onDestroyKept,
                TypeInv, UsedHasWindow
  <2>2. PICK t \in EventTypes :
          /\ channel' = Append(channel, [type |-> t, window_id |-> act[a].window_id])
          /\ t = "WindowClosedFinishing" => act[a].closing
    BY <1>5 DEF surfaceCreated, surfaceDestroyed, BackPressed, onDestroy, onDestroyKept,
                ReportDestroyed, send_event, EventTypes
  <2> DEFINE e == [type |-> t, window_id |-> act[a].window_id]
  <2>3. e \in WindowEvent /\ e.type = t /\ e.window_id = act[a].window_id
    BY <2>1 DEF WindowEvent
  <2> HIDE DEF e
  <2>4. Unhandled' = Append(Unhandled, e)
    BY <1>2, <2>2, <2>3 DEF e, Unhandled, TypeInv, TypeOK
  <2>5. e.type = "WindowClosedFinishing" => Removed(e.window_id)
    BY <1>5, <2>2, <2>3 DEF RemovalInv, ToldIsRemoved, onDestroy, onDestroyKept, surfaceCreated,
                            surfaceDestroyed, BackPressed
  <2>6. e.type = "WindowClosedFinishing" => e.window_id < next_id' /\ e.window_id \notin DOMAIN windows'
    BY <1>2, <2>5 DEF Removed
  <2> QED  BY <1>2, <1>3, <2>3, <2>4, <2>6, StaleUnderway, SurfacesUntouched DEF ManagedInv
<1> QED  BY <1>1, <1>4, <1>5

LEMMA ClientManagedInv ==
  ASSUME TypeInv, RemovalInv, BatchOnlyInEvents, ManagedInv, Client
  PROVE  ManagedInv'
<1> USE DEF compositorVars, TypeInv, TypeOK
<1>1. UNCHANGED <<phase, windows, next_id, batch, channel>> /\ phase = "dispatch"
  BY DEF Client, new_toplevel, commit, toplevel_destroyed
<1>2. FinishingIsStale' /\ DrainedBeforeFinish'
  BY <1>1, StaleUnderway DEF Unhandled, DrainedBeforeFinish
<1>3. ASSUME NEW s \in Surfaces, new_toplevel(s) PROVE ManagedInv'
  BY <1>1, <1>2, <1>3 DEF new_toplevel, ManagedInv, SurfaceOrder, LiveSurfaceManaged, IsMap, WindowState
<1>4. ASSUME NEW s \in Surfaces, commit(s) PROVE ManagedInv'
  BY <1>1, <1>2, <1>4, SurfacesUntouched DEF commit, ManagedInv
<1>5. ASSUME NEW s \in Surfaces, toplevel_destroyed(s) PROVE ManagedInv'
  BY <1>1, <1>2, <1>5 DEF toplevel_destroyed, ManagedInv, SurfaceOrder, LiveSurfaceManaged, IsMap, WindowState
<1> QED  BY <1>3, <1>4, <1>5 DEF Client

LEMMA CompositorManagedInv ==
  ASSUME TypeInv, RemovalInv, BatchOnlyInEvents, ManagedInv, dispatch_wayland \/ Timer
  PROVE  ManagedInv'
<1> USE DEF Goto, androidVars, clientVars
<1>0. \A w \in DOMAIN windows : windows[w] \in WindowState /\ windows[w].surface_kind \in Surfaces
  BY DEF TypeInv, TypeOK, IsMap, WindowState
<1>1. ASSUME NEW s \in Surfaces, new_window(s) PROVE ManagedInv'
  <2>1. /\ DOMAIN windows' = DOMAIN windows \cup {next_id}
        /\ \A w \in DOMAIN windows : windows'[w] = windows[w]
        /\ windows'[next_id].surface_kind = s
    BY <1>1 DEF new_window, Put, RemovalInv, WindowsBelowNext, TypeInv, TypeOK, IsMap, WindowIds
  <2>2. FinishingIsStale'
    BY <1>1, <2>1, StaleUnderway DEF new_window, Unhandled
  <2>3. /\ phase = "adopt" /\ s \in pending /\ pending' = pending \ {s}
        /\ UNCHANGED <<surface, destroyed, phase>>
    BY <1>1 DEF new_window
  <2>4. DrainedBeforeFinish' /\ SurfaceOrder'
    BY <2>3 DEF ManagedInv, DrainedBeforeFinish, SurfaceOrder
  <2>5. LiveSurfaceManaged'
    BY <1>0, <2>1, <2>3 DEF ManagedInv, SurfaceOrder, LiveSurfaceManaged
  <2> QED  BY <2>2, <2>4, <2>5 DEF ManagedInv
<1>2. ASSUME NEW s \in Surfaces, finish_destroyed(s) PROVE ManagedInv'
  <2>1. /\ phase = "finish" /\ s \in destroyed /\ destroyed' = destroyed \ {s}
        /\ UNCHANGED <<surface, pending, phase, batch, channel, next_id>>
    BY <1>2 DEF finish_destroyed
  <2>2. /\ DOMAIN windows' \subseteq DOMAIN windows
        /\ \A w \in DOMAIN windows' : windows'[w] = windows[w]
        /\ \A w \in DOMAIN windows : w \in DOMAIN windows' <=> windows[w].surface_kind # s
    BY <1>0, <1>2 DEF finish_destroyed, remove_window, Drop, ManagedInv, LiveSurfaceManaged
  <2>3. FinishingIsStale' /\ DrainedBeforeFinish'
    BY <2>1, <2>2, StaleUnderway DEF Unhandled, ManagedInv, DrainedBeforeFinish
  <2>4. SurfaceOrder'
    BY <2>1 DEF ManagedInv, DrainedBeforeFinish, SurfaceOrder
  <2>5. LiveSurfaceManaged'
    BY <1>0, <2>1, <2>2 DEF ManagedInv, SurfaceOrder, LiveSurfaceManaged
  <2> QED  BY <2>3, <2>4, <2>5 DEF ManagedInv
<1>3. ASSUME UNCHANGED <<surface, pending, destroyed>>, DrainedBeforeFinish',
             \/ Unhandled' = Unhandled
             \/ Unhandled # << >> /\ Unhandled' = Tail(Unhandled),
             DOMAIN windows' = DOMAIN windows, next_id' = next_id,
             \A w \in DOMAIN windows : windows'[w].surface_kind = windows[w].surface_kind
      PROVE  ManagedInv'
  BY <1>3, StaleUnderway, SurfacesUntouched DEF ManagedInv
<1>4. ASSUME NEW w \in DOMAIN windows,
             \/ \E a \in Acts : launch_activity(w, a)
             \/ CreatedTimeout(w) \/ CloseTimeout(w)
      PROVE  ManagedInv'
  <2>1. DOMAIN windows' = DOMAIN windows
        /\ \A v \in DOMAIN windows : windows'[v].surface_kind = windows[v].surface_kind
    <3>1. CASE \E a \in Acts : launch_activity(w, a)
      BY <1>0, <3>1 DEF launch_activity, WindowState
    <3>2. CASE CreatedTimeout(w)
      BY <1>0, <3>2 DEF CreatedTimeout, WindowState
    <3>3. CASE CloseTimeout(w)
      BY <1>0, <3>3 DEF CloseTimeout, WindowState
    <3> QED  BY <1>4, <3>1, <3>2, <3>3
  <2>2. UNCHANGED <<surface, pending, destroyed, phase, batch, channel, next_id>>
    BY <1>4 DEF launch_activity, CreatedTimeout, CloseTimeout
  <2> QED  BY <1>3, <2>1, <2>2 DEF Unhandled, ManagedInv, DrainedBeforeFinish
<1>5. ASSUME AdoptDone \/ LaunchDone \/ EventsDone \/ DispatchDone PROVE ManagedInv'
  <2>1. /\ DrainedBeforeFinish'
        /\ UNCHANGED <<surface, pending, destroyed, windows, next_id, batch, channel>>
    BY <1>5 DEF AdoptDone, LaunchDone, EventsDone, DispatchDone, ManagedInv, DrainedBeforeFinish
  <2> QED  BY <1>3, <2>1 DEF Unhandled
<1>6. CASE CollectEvents
  <2>1. Unhandled' = Unhandled
    BY <1>6 DEF CollectEvents, Unhandled, BatchOnlyInEvents, TypeInv, TypeOK
  <2>2. DrainedBeforeFinish' /\ UNCHANGED <<surface, pending, destroyed, windows, next_id>>
    BY <1>6 DEF CollectEvents, ManagedInv, DrainedBeforeFinish
  <2> QED  BY <1>3, <2>1, <2>2
<1>7. CASE \/ HandleSurfaceCreated \/ HandleSurfaceDestroyed
           \/ HandleCloseRequested \/ HandleWindowClosed
  <2> DEFINE e == Head(batch)
  <2>1. /\ UNCHANGED <<surface, pending, destroyed, phase, channel, next_id>>
        /\ batch # << >> /\ batch' = Tail(batch)
    BY <1>7 DEF HandleSurfaceCreated, HandleSurfaceDestroyed, HandleCloseRequested,
                HandleWindowClosed, NextEvent
  <2>2. Unhandled # << >> /\ Unhandled[1] = e /\ Unhandled' = Tail(Unhandled)
    BY <2>1 DEF Unhandled, TypeInv, TypeOK
  <2>3. e.type = "WindowClosedFinishing" => e.window_id \notin DOMAIN windows
    BY <2>2, UnhandledType DEF ManagedInv, FinishingIsStale, Removed
  <2>4. DOMAIN windows' = DOMAIN windows
        /\ \A w \in DOMAIN windows : windows'[w].surface_kind = windows[w].surface_kind
    <3>1. CASE HandleWindowClosed
      BY <2>3, <3>1 DEF HandleWindowClosed, NextEvent, remove_window, Drop
    <3>2. CASE HandleSurfaceCreated \/ HandleSurfaceDestroyed
      BY <1>0, <3>2 DEF HandleSurfaceCreated, HandleSurfaceDestroyed, WindowState
    <3>3. CASE HandleCloseRequested
      BY <1>0, <3>3 DEF HandleCloseRequested, PrepareRelaunch, WindowState
    <3> QED  BY <1>7, <3>1, <3>2, <3>3
  <2> QED  BY <1>3, <2>1, <2>2, <2>4 DEF ManagedInv, DrainedBeforeFinish
<1> QED
  BY <1>1, <1>2, <1>4, <1>5, <1>6, <1>7 DEF dispatch_wayland, Timer

(* No surface of the process that died is left, nor an event for one. *)
LEMMA DeathManagedInv ==
  ASSUME ProcessDeath
  PROVE  ManagedInv'
<1>1. /\ surface' = [s \in Surfaces |-> "unborn"] /\ pending' = {} /\ destroyed' = {}
      /\ phase' = "adopt" /\ windows' = << >> /\ batch' = << >> /\ channel' = << >>
  BY DEF ProcessDeath
<1>2. DOMAIN windows' = {} /\ Len(Unhandled') = 0
  BY <1>1 DEF Unhandled
<1>3. FinishingIsStale'
  BY <1>2 DEF FinishingIsStale
<1>4. DrainedBeforeFinish' /\ SurfaceOrder' /\ LiveSurfaceManaged'
  BY <1>1, <1>2 DEF DrainedBeforeFinish, SurfaceOrder, LiveSurfaceManaged
<1> QED  BY <1>3, <1>4 DEF ManagedInv

LEMMA NextManagedInv ==
  ASSUME TypeInv, RemovalInv, BatchOnlyInEvents, ManagedInv, [RestartNext]_vars
  PROVE  ManagedInv'
<1>1. CASE UNCHANGED vars
  BY <1>1, StaleUnderway, SurfacesUntouched
  DEF vars, clientVars, compositorVars, Unhandled, ManagedInv, DrainedBeforeFinish
<1> QED
  BY <1>1, CompositorManagedInv, ClientManagedInv, UiThreadManagedInv, DeathManagedInv
  DEF RestartNext, Next

LEMMA NextBatch == TypeInv /\ BatchOnlyInEvents /\ [RestartNext]_vars => BatchOnlyInEvents'
<1> SUFFICES ASSUME TypeInv, BatchOnlyInEvents, [RestartNext]_vars PROVE BatchOnlyInEvents'
  OBVIOUS
<1> USE DEF BatchOnlyInEvents
<1>1. CASE ProcessDeath
  <2>1. batch' = << >>
    BY <1>1 DEF ProcessDeath
  <2> QED  BY <2>1
<1>2. CASE dispatch_wayland
  BY <1>2
  DEF dispatch_wayland, new_window, finish_destroyed, launch_activity, AdoptDone, LaunchDone,
      CollectEvents, EventsDone, DispatchDone, HandleSurfaceCreated, HandleSurfaceDestroyed,
      HandleCloseRequested, HandleWindowClosed, NextEvent, Goto
<1>3. CASE Client
  BY <1>3 DEF Client, new_toplevel, commit, toplevel_destroyed, compositorVars
<1>4. CASE Timer
  BY <1>4 DEF Timer, CreatedTimeout, CloseTimeout
<1>5. CASE UiThread
  BY <1>5
  DEF UiThread, surfaceCreated, surfaceDestroyed, BackPressed, RemoveTask, onCreate, RunFinish,
      onDestroy, onDestroyKept, compositorVars
<1>6. CASE UNCHANGED vars
  BY <1>6 DEF vars, compositorVars
<1> QED  BY <1>1, <1>2, <1>3, <1>4, <1>5, <1>6 DEF RestartNext, Next

LEMMA RestartInvariant ==
  RestartSpec => [](TypeInv /\ RemovalInv /\ BatchOnlyInEvents /\ ManagedInv)
<1>1. Init => BatchOnlyInEvents
  BY DEF Init, InitWithFirstId, BatchOnlyInEvents
<1> QED
  BY <1>1, InitTypeInv, InitRemovalInv, InitManagedInv,
     RestartTypeInv, NextRemovalInv, NextBatch, NextManagedInv, PTL DEF RestartSpec

(* Through any number of deaths of the process, with Activities that       *)
(* Android restores under ids that the new process gives out again, the    *)
(* compositor neither forgets a live surface nor keeps a dead one: no      *)
(* event of a restored Activity removes a window that is in use.           *)
THEOREM RestartsKeepSurfaces == RestartSpec => []LiveSurfaceManaged
<1>1. ManagedInv => LiveSurfaceManaged
  BY DEF ManagedInv
<1> QED  BY <1>1, RestartInvariant, PTL

(* No user action, lost Activity or order of events makes the compositor   *)
(* drop a surface whose client lives, keep the window of one that is gone, *)
(* or keep two windows for one surface.                                    *)
THEOREM SurfacesStayManaged == Spec => []LiveSurfaceManaged
<1>1. [Next]_vars => [RestartNext]_vars
  BY DEF RestartNext
<1>2. Spec => RestartSpec
  BY <1>1, PTL DEF Spec, RestartSpec
<1> QED  BY <1>2, RestartsKeepSurfaces, PTL

-----------------------------------------------------------------------------
(* The window lifecycle does what WindowSession promises: every step of    *)
(* the compositor, the clients and Android is one of its steps or none.    *)

(* The refinement mapping, for one surface.  An Activity shows a surface   *)
(* if it is live and carries the id of the surface's window.               *)
StageOf(s) ==
  CASE WindowsOf(s) # {} -> "managed"
    [] surface[s] = "unborn" \/ s \in pending -> "absent"
    [] OTHER -> "retired"

ShownBy(s) == UNION {ActivitiesOf(w) : w \in WindowsOf(s)}

Shows(a, s) == a \in Acts /\ Live(a) /\ act[a].window_id \in WindowsOf(s)

LEMMA ShownByShows == \A s, a : a \in ShownBy(s) <=> Shows(a, s)
BY DEF ShownBy, Shows, ActivitiesOf, Live

LEMMA StageCases ==
  ASSUME NEW s
  PROVE  /\ WindowsOf(s) # {} /\ surface[s] # "unborn" /\ s \notin pending =>
              StageOf(s) = "managed"
         /\ WindowsOf(s) = {} /\ (surface[s] = "unborn" \/ s \in pending) => StageOf(s) = "absent"
         /\ WindowsOf(s) = {} /\ surface[s] # "unborn" /\ s \notin pending => StageOf(s) = "retired"
<1>1. CASE WindowsOf(s) # {} /\ surface[s] # "unborn" /\ s \notin pending
  BY <1>1 DEF StageOf
<1>2. CASE WindowsOf(s) = {} /\ (surface[s] = "unborn" \/ s \in pending)
  BY <1>2 DEF StageOf
<1>3. CASE WindowsOf(s) = {} /\ surface[s] # "unborn" /\ s \notin pending
  BY <1>3 DEF StageOf
<1> QED  BY <1>1, <1>2, <1>3

-----------------------------------------------------------------------------
(* The steps of WindowSession under the mapping.                           *)

Stages == [s \in Surfaces |-> StageOf(s)]
Shown  == [s \in Surfaces |-> ShownBy(s)]

LEMMA SessionInit ==
  (\A s \in Surfaces : StageOf(s) = "absent" /\ \A a : ~Shows(a, s)) => Session!Init
<1> SUFFICES ASSUME \A s \in Surfaces : StageOf(s) = "absent" /\ \A a : ~Shows(a, s)
             PROVE  Session!Init
  OBVIOUS
<1>1. \A s \in Surfaces : ShownBy(s) = {}
  BY ShownByShows
<1>2. Stages = [s \in Surfaces |-> "absent"] /\ Shown = [s \in Surfaces |-> {}]
  BY <1>1 DEF Stages, Shown
<1> QED  BY <1>2 DEF Session!Init, Stages, Shown, StageOf, ShownBy

LEMMA SessionSteps ==
  /\ Stages' = Stages /\ Shown' = Shown => UNCHANGED Session!vars
  /\ \A s : Session!Adopt(s) <=>
       Stages[s] = "absent" /\ Stages' = [Stages EXCEPT ![s] = "managed"] /\ Shown' = Shown
  /\ \A s : Session!Retire(s) <=>
       /\ Stages[s] = "managed" /\ Stages' = [Stages EXCEPT ![s] = "retired"]
       /\ Shown' = [Shown EXCEPT ![s] = {}]
  /\ \A s, a : Session!End(s, a) <=>
       a \in Shown[s] /\ Shown' = [Shown EXCEPT ![s] = @ \ {a}] /\ Stages' = Stages
  /\ \A s, a : Session!Launch(s, a) <=>
       /\ Stages[s] = "managed" /\ Shown[s] = {} /\ \A t \in Surfaces : a \notin Shown[t]
       /\ Shown' = [Shown EXCEPT ![s] = {a}] /\ Stages' = Stages
<1>1. Stages' = Stages /\ Shown' = Shown => UNCHANGED Session!vars
  BY DEF Session!vars, Stages, Shown, StageOf, ShownBy
<1>2. ASSUME NEW s
      PROVE  Session!Adopt(s) <=>
               Stages[s] = "absent" /\ Stages' = [Stages EXCEPT ![s] = "managed"] /\ Shown' = Shown
  BY DEF Session!Adopt, Stages, Shown, StageOf, ShownBy
<1>3. ASSUME NEW s
      PROVE  Session!Retire(s) <=>
               /\ Stages[s] = "managed" /\ Stages' = [Stages EXCEPT ![s] = "retired"]
               /\ Shown' = [Shown EXCEPT ![s] = {}]
  BY DEF Session!Retire, Stages, Shown, StageOf, ShownBy
<1>4. ASSUME NEW s, NEW a
      PROVE  Session!End(s, a) <=>
               a \in Shown[s] /\ Shown' = [Shown EXCEPT ![s] = @ \ {a}] /\ Stages' = Stages
  BY DEF Session!End, Stages, Shown, StageOf, ShownBy
<1>5. ASSUME NEW s, NEW a
      PROVE  Session!Launch(s, a) <=>
               /\ Stages[s] = "managed" /\ Shown[s] = {} /\ \A t \in Surfaces : a \notin Shown[t]
               /\ Shown' = [Shown EXCEPT ![s] = {a}] /\ Stages' = Stages
  BY DEF Session!Launch, Stages, Shown, StageOf, ShownBy
<1> QED  BY <1>1, <1>2, <1>3, <1>4, <1>5

Simulated == Session!Next \/ UNCHANGED Session!vars

(* What is left of the mapping to show, surface by surface. *)
SameStages(S) == \A s \in S : StageOf(s)' = StageOf(s)
SameShown(S)  == \A s \in S : \A a : Shows(a, s)' <=> Shows(a, s)

LEMMA Stutter ==
  ASSUME SameStages(Surfaces), SameShown(Surfaces)
  PROVE  Simulated
<1>1. \A s, a : a \in ShownBy(s)' <=> Shows(a, s)'
  BY DEF ShownBy, Shows, ActivitiesOf, Live
<1>2. \A s \in Surfaces : ShownBy(s)' = ShownBy(s)
  BY <1>1, ShownByShows DEF SameShown
<1>3. Stages' = Stages /\ Shown' = Shown
  BY <1>2 DEF Stages, Shown, SameStages
<1> QED  BY <1>3, SessionSteps DEF Simulated

LEMMA ShownNext == \A s, a : a \in ShownBy(s)' <=> Shows(a, s)'
BY DEF ShownBy, Shows, ActivitiesOf, Live

LEMMA AdoptStep ==
  ASSUME NEW s \in Surfaces, StageOf(s) = "absent", StageOf(s)' = "managed",
         SameStages(Surfaces \ {s}), SameShown(Surfaces)
  PROVE  Simulated
<1>1. \A t \in Surfaces : ShownBy(t)' = ShownBy(t)
  BY ShownNext, ShownByShows DEF SameShown
<1>2. Shown' = Shown /\ Stages[s] = "absent" /\ Stages' = [Stages EXCEPT ![s] = "managed"]
  BY <1>1 DEF Stages, Shown, SameStages
<1> QED  BY <1>2, SessionSteps DEF Simulated, Session!Next

LEMMA RetireStep ==
  ASSUME NEW s \in Surfaces, StageOf(s) = "managed", StageOf(s)' = "retired",
         SameStages(Surfaces \ {s}), SameShown(Surfaces \ {s}), \A a : ~Shows(a, s)'
  PROVE  Simulated
<1>1. \A t \in Surfaces \ {s} : ShownBy(t)' = ShownBy(t)
  BY ShownNext, ShownByShows DEF SameShown
<1>2. ShownBy(s)' = {}
  BY ShownNext
<1>3. /\ Stages[s] = "managed" /\ Stages' = [Stages EXCEPT ![s] = "retired"]
      /\ Shown' = [Shown EXCEPT ![s] = {}]
  BY <1>1, <1>2 DEF Stages, Shown, SameStages
<1> QED  BY <1>3, SessionSteps DEF Simulated, Session!Next

LEMMA EndStep ==
  ASSUME NEW s \in Surfaces, NEW a \in Acts, Shows(a, s),
         \A b : Shows(b, s)' <=> Shows(b, s) /\ b # a,
         SameStages(Surfaces), SameShown(Surfaces \ {s})
  PROVE  Simulated
<1>1. \A t \in Surfaces \ {s} : ShownBy(t)' = ShownBy(t)
  BY ShownNext, ShownByShows DEF SameShown
<1>2. ShownBy(s)' = ShownBy(s) \ {a} /\ a \in ShownBy(s)
  BY ShownNext, ShownByShows
<1>3. a \in Shown[s] /\ Shown' = [Shown EXCEPT ![s] = @ \ {a}] /\ Stages' = Stages
  BY <1>1, <1>2 DEF Stages, Shown, SameStages
<1> QED  BY <1>3, SessionSteps DEF Simulated, Session!Next

LEMMA LaunchStep ==
  ASSUME NEW s \in Surfaces, NEW a \in Acts, StageOf(s) = "managed",
         \A b : ~Shows(b, s), \A t \in Surfaces : ~Shows(a, t),
         \A b : Shows(b, s)' <=> b = a,
         SameStages(Surfaces), SameShown(Surfaces \ {s})
  PROVE  Simulated
<1>1. \A t \in Surfaces \ {s} : ShownBy(t)' = ShownBy(t)
  BY ShownNext, ShownByShows DEF SameShown
<1>2. ShownBy(s)' = {a} /\ ShownBy(s) = {} /\ \A t \in Surfaces : a \notin ShownBy(t)
  BY ShownNext, ShownByShows
<1>3. /\ Stages[s] = "managed" /\ Shown[s] = {} /\ \A t \in Surfaces : a \notin Shown[t]
      /\ Shown' = [Shown EXCEPT ![s] = {a}] /\ Stages' = Stages
  BY <1>1, <1>2 DEF Stages, Shown, SameStages
<1> QED  BY <1>3, SessionSteps DEF Simulated, Session!Next

-----------------------------------------------------------------------------
(* The stages from the invariant: a managed surface has been born and is   *)
(* no longer pending. *)

Managed(s) == WindowsOf(s) # {}
Waits(s)   == surface[s] = "unborn" \/ s \in pending
Apart(S)   == \A s \in S : Managed(s) => ~Waits(s)

LEMMA ManagedIsApart == ManagedInv => Apart(Surfaces)
BY DEF ManagedInv, LiveSurfaceManaged, SurfaceOrder, Apart, Managed, Waits, WindowsOf

LEMMA StageNow ==
  ASSUME Apart(Surfaces), NEW s \in Surfaces
  PROVE  /\ StageOf(s) = "managed" <=> Managed(s)
         /\ StageOf(s) = "absent" <=> ~Managed(s) /\ Waits(s)
         /\ StageOf(s) = "retired" <=> ~Managed(s) /\ ~Waits(s)
         /\ StageOf(s) \in {"managed", "absent", "retired"}
BY StageCases DEF Apart, Managed, Waits

LEMMA StageCasesNext ==
  ASSUME NEW s
  PROVE  /\ Managed(s)' /\ ~Waits(s)' => StageOf(s)' = "managed"
         /\ ~Managed(s)' /\ Waits(s)' => StageOf(s)' = "absent"
         /\ ~Managed(s)' /\ ~Waits(s)' => StageOf(s)' = "retired"
<1>1. CASE Managed(s)' /\ ~Waits(s)'
  BY <1>1 DEF StageOf, Managed, Waits
<1>2. CASE ~Managed(s)' /\ Waits(s)'
  BY <1>2 DEF StageOf, Managed, Waits
<1>3. CASE ~Managed(s)' /\ ~Waits(s)'
  BY <1>3 DEF StageOf, Managed, Waits
<1> QED  BY <1>1, <1>2, <1>3

LEMMA StageThen ==
  ASSUME Apart(Surfaces)', NEW s \in Surfaces
  PROVE  /\ StageOf(s)' = "managed" <=> Managed(s)'
         /\ StageOf(s)' = "absent" <=> ~Managed(s)' /\ Waits(s)'
         /\ StageOf(s)' = "retired" <=> ~Managed(s)' /\ ~Waits(s)'
         /\ StageOf(s)' \in {"managed", "absent", "retired"}
BY StageCasesNext DEF Apart

LEMMA StageStays ==
  ASSUME Apart(Surfaces), Apart(Surfaces)', NEW s \in Surfaces,
         Managed(s)' <=> Managed(s),
         ~Managed(s) => (Waits(s)' <=> Waits(s))
  PROVE  StageOf(s)' = StageOf(s)
BY StageNow, StageThen

-----------------------------------------------------------------------------
(* Steps that do not change the windows and what they show. *)

KindsKept == /\ DOMAIN windows' = DOMAIN windows
             /\ \A w \in DOMAIN windows : windows'[w].surface_kind = windows[w].surface_kind

LEMMA WindowsOfKept == KindsKept => \A s : WindowsOf(s)' = WindowsOf(s)
BY DEF KindsKept, WindowsOf

LEMMA NoActivityChanges ==
  ASSUME Apart(Surfaces), Apart(Surfaces)', KindsKept, UNCHANGED act,
         \A s \in Surfaces : ~Managed(s) => (Waits(s)' <=> Waits(s))
  PROVE  Simulated
<1>1. \A s \in Surfaces : Managed(s)' <=> Managed(s)
  BY WindowsOfKept DEF Managed
<1>2. SameStages(Surfaces)
  BY <1>1, StageStays DEF SameStages
<1>3. SameShown(Surfaces)
  BY WindowsOfKept DEF SameShown, Shows, Live
<1> QED  BY <1>2, <1>3, Stutter

LEMMA OneActivityChanges ==
  ASSUME Apart(Surfaces), Apart(Surfaces)', KindsKept, UNCHANGED <<surface, pending>>,
         NEW a \in Acts, \A b \in Acts \ {a} : act'[b] = act[b],
         act'[a].window_id = act[a].window_id, Live(a)' => Live(a)
  PROVE  Simulated
<1>1. SameStages(Surfaces)
  <2>1. \A s \in Surfaces : (Managed(s)' <=> Managed(s)) /\ (Waits(s)' <=> Waits(s))
    BY WindowsOfKept DEF Managed, Waits
  <2> QED  BY <2>1, StageStays DEF SameStages
<1>2. ASSUME NEW b, NEW s, b # a  PROVE Shows(b, s)' <=> Shows(b, s)
  BY <1>2, WindowsOfKept DEF Shows, Live
<1>3. \A s : Shows(a, s)' <=> Shows(a, s) /\ Live(a)'
  BY WindowsOfKept DEF Shows
<1>4. CASE \E s \in Surfaces : Shows(a, s) /\ ~Live(a)'
  <2>1. PICK s \in Surfaces : Shows(a, s) /\ ~Live(a)'
    BY <1>4
  <2>2. \A t \in Surfaces \ {s} : ~Shows(a, t)
    BY <2>1 DEF Shows, WindowsOf
  <2>3. SameShown(Surfaces \ {s})
    BY <1>2, <1>3, <2>2 DEF SameShown
  <2> QED  BY <1>1, <1>2, <1>3, <2>1, <2>3, EndStep
<1>5. CASE \A s \in Surfaces : Shows(a, s) => Live(a)'
  BY <1>1, <1>2, <1>3, <1>5, Stutter DEF SameShown
<1> QED  BY <1>4, <1>5

-----------------------------------------------------------------------------
(* Every step is a step of WindowSession or changes nothing of it.         *)

Sound == TypeInv /\ IdInv /\ OneInv /\ RemovalInv /\ ManagedInv

LEMMA SoundStep ==
  ASSUME Sound, [Next]_vars
  PROVE  Sound' /\ Apart(Surfaces) /\ Apart(Surfaces)'
<1>1. Sound'
  BY NextTypeInv, NextIdInv, NextOneInv, NextRemovalInv, NextManagedInv
  DEF Sound, OneInv, RestartNext
<1>2. Apart(Surfaces)'
  BY <1>1 DEF Sound, ManagedInv, LiveSurfaceManaged, SurfaceOrder, Apart, Managed, Waits, WindowsOf
<1> QED  BY <1>1, <1>2, ManagedIsApart DEF Sound

LEMMA WindowTypes ==
  ASSUME Sound, NEW w \in DOMAIN windows
  PROVE  /\ windows[w] \in WindowState /\ windows[w].surface_kind \in Surfaces
         /\ w \in WindowIds /\ w < next_id /\ w # next_id
  BY DEF Sound, TypeInv, TypeOK, IsMap, WindowState, WindowIds, IdInv, IdsBelowNext

(* new_window adopts the surface: it has no window yet, and no Activity    *)
(* knows the fresh id.                                                     *)
LEMMA NewWindowAdopts ==
  ASSUME Sound, Apart(Surfaces), Apart(Surfaces)', NEW s \in Surfaces, new_window(s)
  PROVE  Simulated
<1>1. /\ s \in pending /\ pending' = pending \ {s} /\ UNCHANGED <<surface, act>>
      /\ DOMAIN windows' = DOMAIN windows \cup {next_id}
      /\ windows'[next_id].surface_kind = s
  BY DEF new_window, Put, androidVars
<1>2. \A w \in DOMAIN windows : windows'[w] = windows[w]
  BY WindowTypes DEF new_window, Put
<1>3. \A t : WindowsOf(t)' = IF t = s THEN WindowsOf(t) \cup {next_id} ELSE WindowsOf(t)
  BY <1>1, <1>2, WindowTypes DEF WindowsOf
<1>4. ~Managed(s) /\ Managed(s)'
  BY <1>1, <1>3 DEF Managed, Apart, Waits
<1>5. StageOf(s) = "absent" /\ StageOf(s)' = "managed"
  BY <1>1, <1>4, StageNow, StageThen DEF Waits
<1>6. SameStages(Surfaces \ {s})
  <2>1. \A t \in Surfaces \ {s} : (Managed(t)' <=> Managed(t)) /\ (Waits(t)' <=> Waits(t))
    BY <1>1, <1>3 DEF Managed, Waits
  <2> QED  BY <2>1, StageStays DEF SameStages
<1>7. \A a \in Acts : act[a].window_id # next_id
  BY DEF Sound, IdInv, IdsBelowNext, TypeInv, TypeOK, WindowIds
<1>8. SameShown(Surfaces)
  BY <1>1, <1>3, <1>7 DEF SameShown, Shows, Live
<1> QED  BY <1>5, <1>6, <1>8, AdoptStep

(* launch_activity finds a window without an Activity.                     *)
LEMMA LaunchLaunches ==
  ASSUME Sound, Apart(Surfaces), Apart(Surfaces)', NEW w \in DOMAIN windows, NEW a \in Acts,
         launch_activity(w, a)
  PROVE  Simulated
<1>s. PICK s \in Surfaces : windows[w].surface_kind = s
  BY WindowTypes
<1>0. act \in [Acts -> ActivityRecord]
  BY DEF Sound, TypeInv, TypeOK
<1>1. /\ UNCHANGED <<surface, pending>> /\ act[a].state = "unused"
      /\ windows' = [windows EXCEPT ![w].activity_launched = TRUE]
      /\ ~windows[w].activity_launched
      /\ \/ act' = [act EXCEPT ![a].state = "starting", ![a].window_id = w]
         \/ act' = [act EXCEPT ![a].state = "destroyed", ![a].window_id = w]
  BY DEF launch_activity, LaunchPending, clientVars
<1>2. KindsKept
  BY <1>1, WindowTypes DEF KindsKept, WindowState
<1>3. SameStages(Surfaces)
  <2>1. \A t \in Surfaces : (Managed(t)' <=> Managed(t)) /\ (Waits(t)' <=> Waits(t))
    BY <1>1, <1>2, WindowsOfKept DEF Managed, Waits
  <2> QED  BY <2>1, StageStays DEF SameStages
<1>4. \A b \in Acts \ {a} : act'[b] = act[b]
  BY <1>0, <1>1
<1>5. ASSUME NEW b, NEW t, b # a  PROVE Shows(b, t)' <=> Shows(b, t)
  BY <1>2, <1>4, <1>5, WindowsOfKept DEF Shows, Live
<1>6. \A t : ~Shows(a, t)
  BY <1>1 DEF Shows, Live
<1>7. CASE act'[a].state = "destroyed"
  <2>1. \A t : ~Shows(a, t)'
    BY <1>7 DEF Shows, Live
  <2> QED  BY <1>3, <1>5, <1>6, <2>1, Stutter DEF SameShown
<1>8. CASE act'[a].state = "starting" /\ act'[a].window_id = w
  <2>1. \A t : Shows(a, t)' <=> t = s
    <3>1. \A t : Shows(a, t)' <=> w \in WindowsOf(t)'
      BY <1>8 DEF Shows, Live
    <3> QED  BY <1>s, <1>2, <3>1, WindowsOfKept DEF WindowsOf
  <2>2. WindowsOf(s) = {w}
    BY <1>s DEF WindowsOf, Sound, ManagedInv, LiveSurfaceManaged
  <2>3. \A b : ~Shows(b, s)
    <3>1. ActivitiesOf(w) = {}
      BY <1>1 DEF Sound, OneInv, LaunchIsClean
    <3> QED  BY <2>2, <3>1 DEF Shows, ActivitiesOf, Live
  <2>4. StageOf(s) = "managed"
    BY <2>2, StageNow DEF Managed
  <2>5. SameShown(Surfaces \ {s})
    BY <1>5, <1>6, <2>1 DEF SameShown
  <2>6. \A b : Shows(b, s)' <=> b = a
    <3>1. Shows(a, s)'
      BY <2>1
    <3>2. ASSUME NEW b, b # a  PROVE ~Shows(b, s)'
      BY <1>5, <2>3, <3>2
    <3> QED  BY <3>1, <3>2
  <2> QED  BY <1>3, <1>6, <2>3, <2>4, <2>5, <2>6, LaunchStep
<1>9. act'[a].state = "destroyed" \/ (act'[a].state = "starting" /\ act'[a].window_id = w)
  BY <1>0, <1>1 DEF ActivityRecord
<1> QED  BY <1>7, <1>8, <1>9

(* finish_destroyed retires the surface with its window, if it has one.    *)
LEMMA FinishRetires ==
  ASSUME Sound, Apart(Surfaces), Apart(Surfaces)', NEW s \in Surfaces, finish_destroyed(s)
  PROVE  Simulated
<1>1. /\ s \in destroyed /\ phase = "finish" /\ UNCHANGED <<surface, pending, act>>
  BY DEF finish_destroyed
<1>2. CASE ~Managed(s)
  <2>1. UNCHANGED windows
    BY <1>2 DEF finish_destroyed, Managed, WindowsOf
  <2> QED  BY <1>1, <2>1, NoActivityChanges DEF KindsKept, Waits
<1>3. CASE Managed(s)
  <2>1. PICK w \in DOMAIN windows : windows[w].surface_kind = s /\ windows' = Drop(windows, w)
    BY <1>3 DEF finish_destroyed, remove_window, Managed, WindowsOf
  <2>2. \A v \in DOMAIN windows : windows[v].surface_kind = s => v = w
    BY <2>1 DEF Sound, ManagedInv, LiveSurfaceManaged
  <2>3. WindowsOf(s)' = {} /\ \A t : t # s => WindowsOf(t)' = WindowsOf(t)
    BY <2>1, <2>2 DEF WindowsOf, Drop
  <2>4. ~Managed(s)' /\ ~Waits(s)'
    <3>1. surface[s] = "gone" /\ pending = {}
      BY <1>1 DEF Sound, ManagedInv, SurfaceOrder, DrainedBeforeFinish
    <3> QED  BY <1>1, <2>3, <3>1 DEF Managed, Waits
  <2>5. StageOf(s) = "managed" /\ StageOf(s)' = "retired"
    BY <1>3, <2>4, StageNow, StageThen
  <2>6. SameStages(Surfaces \ {s})
    <3>1. \A t \in Surfaces \ {s} : (Managed(t)' <=> Managed(t)) /\ (Waits(t)' <=> Waits(t))
      BY <1>1, <2>3 DEF Managed, Waits
    <3> QED  BY <3>1, StageStays DEF SameStages
  <2>7. SameShown(Surfaces \ {s}) /\ \A a : ~Shows(a, s)'
    BY <1>1, <2>3 DEF SameShown, Shows, Live
  <2> QED  BY <2>5, <2>6, <2>7, RetireStep
<1> QED  BY <1>2, <1>3

(* The events change what a window knows of its Activity, and remove none: *)
(* WindowClosed(is_finishing) only comes for windows already removed.      *)
LEMMA EventsKeep ==
  ASSUME Sound,
         \/ HandleSurfaceCreated \/ HandleSurfaceDestroyed
         \/ HandleCloseRequested \/ HandleWindowClosed
  PROVE  KindsKept /\ UNCHANGED <<surface, pending, act>>
<1> DEFINE e == Head(batch)
<1>1. UNCHANGED <<surface, pending, act>> /\ batch # << >>
  BY DEF HandleSurfaceCreated, HandleSurfaceDestroyed, HandleCloseRequested,
         HandleWindowClosed, NextEvent, clientVars, androidVars
<1>2. Unhandled # << >> /\ Unhandled[1] = e
  BY <1>1 DEF Unhandled, Sound, TypeInv, TypeOK
<1>3. e.type = "WindowClosedFinishing" => e.window_id \notin DOMAIN windows
  BY <1>2, UnhandledType DEF Sound, ManagedInv, FinishingIsStale, Removed
<1>4. DOMAIN windows' = DOMAIN windows
      /\ \A w \in DOMAIN windows : windows'[w].surface_kind = windows[w].surface_kind
  <2>0. \A w \in DOMAIN windows : windows[w] \in WindowState
    BY WindowTypes
  <2>1. CASE HandleWindowClosed
    BY <1>3, <2>1 DEF HandleWindowClosed, NextEvent, remove_window, Drop
  <2>2. CASE HandleSurfaceCreated \/ HandleSurfaceDestroyed
    BY <2>0, <2>2 DEF HandleSurfaceCreated, HandleSurfaceDestroyed, WindowState
  <2>3. CASE HandleCloseRequested
    BY <2>0, <2>3 DEF HandleCloseRequested, PrepareRelaunch, WindowState
  <2> QED  BY <2>1, <2>2, <2>3
<1> QED  BY <1>1, <1>4 DEF KindsKept

LEMMA CompositorSimulated ==
  ASSUME Sound, Apart(Surfaces), Apart(Surfaces)', dispatch_wayland \/ Timer
  PROVE  Simulated
<1> USE DEF Goto, androidVars, clientVars
<1>1. ASSUME KindsKept, UNCHANGED <<surface, pending, act>> PROVE Simulated
  BY <1>1, NoActivityChanges DEF Waits
<1>2. ASSUME NEW w \in DOMAIN windows, CreatedTimeout(w) \/ CloseTimeout(w) PROVE Simulated
  <2>1. KindsKept
    BY <1>2, WindowTypes DEF CreatedTimeout, CloseTimeout, WindowState, KindsKept
  <2> QED  BY <1>1, <1>2, <2>1 DEF CreatedTimeout, CloseTimeout
<1>3. CASE AdoptDone \/ LaunchDone \/ CollectEvents \/ EventsDone \/ DispatchDone
  BY <1>1, <1>3 DEF AdoptDone, LaunchDone, CollectEvents, EventsDone, DispatchDone, KindsKept
<1>4. CASE \/ HandleSurfaceCreated \/ HandleSurfaceDestroyed
           \/ HandleCloseRequested \/ HandleWindowClosed
  BY <1>1, <1>4, EventsKeep
<1> QED
  BY <1>2, <1>3, <1>4, NewWindowAdopts, LaunchLaunches, FinishRetires DEF dispatch_wayland, Timer

(* Clients cannot change a stage by themselves: a new surface waits, and a *)
(* destroyed one is still managed or pending.                              *)
LEMMA ClientSimulated ==
  ASSUME Sound, Apart(Surfaces), Apart(Surfaces)', Client
  PROVE  Simulated
<1>1. KindsKept /\ UNCHANGED act
  BY DEF Client, new_toplevel, commit, toplevel_destroyed, compositorVars, androidVars, KindsKept
<1>2. surface \in [Surfaces -> {"unborn", "live", "gone"}] /\ pending \subseteq Surfaces
  BY DEF Sound, TypeInv, TypeOK
<1>3. ASSUME NEW t \in Surfaces, ~Managed(t)  PROVE Waits(t)' <=> Waits(t)
  <2>1. ASSUME NEW s \in Surfaces, new_toplevel(s)  PROVE Waits(t)' <=> Waits(t)
    BY <1>2, <2>1 DEF new_toplevel, Waits
  <2>2. ASSUME NEW s \in Surfaces, commit(s)  PROVE Waits(t)' <=> Waits(t)
    BY <2>2 DEF commit, Waits
  <2>3. ASSUME NEW s \in Surfaces, toplevel_destroyed(s)  PROVE Waits(t)' <=> Waits(t)
    <3>1. s = t => t \in pending
      BY <1>3, <2>3 DEF toplevel_destroyed, Managed, WindowsOf, Sound, ManagedInv, LiveSurfaceManaged
    <3> QED  BY <1>2, <2>3, <3>1 DEF toplevel_destroyed, Waits
  <2> QED  BY <2>1, <2>2, <2>3 DEF Client
<1> QED  BY <1>1, <1>3, NoActivityChanges

(* A callback at most ends the existence of its own record.                *)
LEMMA UiThreadSimulated ==
  ASSUME Sound, Apart(Surfaces), Apart(Surfaces)', UiThread
  PROVE  Simulated
<1>1. PICK a \in Acts :
        \/ surfaceCreated(a) \/ surfaceDestroyed(a) \/ BackPressed(a) \/ RemoveTask(a)
        \/ onCreate(a) \/ RunFinish(a) \/ onDestroy(a) \/ onDestroyKept(a)
  BY DEF UiThread
<1>2. /\ \A b \in Acts : act'[b].window_id = act[b].window_id
      /\ \A b \in Acts \ {a} : act'[b] = act[b]
  BY <1>1, CallbackChanges DEF Sound
<1>3. UNCHANGED <<surface, pending, windows>>
  BY <1>1 DEF surfaceCreated, surfaceDestroyed, BackPressed, RemoveTask, onCreate, RunFinish,
              onDestroy, onDestroyKept, clientVars, compositorVars
<1>4. act \in [Acts -> ActivityRecord]
  BY DEF Sound, TypeInv, TypeOK
<1>5. Live(a)' => Live(a)
  <2>1. CASE surfaceCreated(a) \/ surfaceDestroyed(a) \/ BackPressed(a)
    BY <1>4, <2>1 DEF surfaceCreated, surfaceDestroyed, BackPressed, Live
  <2>2. CASE onCreate(a) \/ onDestroy(a) \/ onDestroyKept(a)
    BY <2>2 DEF onCreate, onDestroy, onDestroyKept, Live
  <2>3. CASE RemoveTask(a)
    BY <1>4, <2>3 DEF RemoveTask, Live
  <2>4. CASE RunFinish(a)
    <3>1. CASE act[a].state \in {"created", "dormant"}
      BY <3>1 DEF Live
    <3>2. CASE act[a].state \notin {"created", "dormant"}
      <4>1. UNCHANGED act
        BY <2>4, <3>2 DEF RunFinish
      <4> QED  BY <4>1 DEF Live
    <3> QED  BY <3>1, <3>2
  <2> QED  BY <1>1, <2>1, <2>2, <2>3, <2>4
<1> QED  BY <1>2, <1>3, <1>5, OneActivityChanges DEF KindsKept

LEMMA NextSimulated ==
  ASSUME Sound, [Next]_vars
  PROVE  Simulated
<1>1. Apart(Surfaces) /\ Apart(Surfaces)'
  BY SoundStep
<1>2. CASE UNCHANGED vars
  BY <1>1, <1>2, NoActivityChanges
  DEF vars, clientVars, compositorVars, androidVars, KindsKept, Waits
<1> QED  BY <1>1, <1>2, CompositorSimulated, ClientSimulated, UiThreadSimulated DEF Next

LEMMA InitSimulated == Init => Session!Init
<1> SUFFICES ASSUME Init PROVE Session!Init
  OBVIOUS
<1>1. DOMAIN windows = {} /\ surface = [s \in Surfaces |-> "unborn"]
  BY DEF Init, InitWithFirstId
<1>2. \A s \in Surfaces : WindowsOf(s) = {} /\ surface[s] = "unborn"
  BY <1>1 DEF WindowsOf
<1> QED  BY <1>2, SessionInit, StageCases DEF Shows

(* The compositor keeps the promise of WindowSession: a surface is adopted *)
(* once, shown by at most one Activity at a time, a new one only after the *)
(* last has ended, and is retired once, whatever the order of the          *)
(* callbacks, the events and the phases of dispatch_wayland.               *)
THEOREM SessionImplemented == Spec => ImplementsSession
<1>1. Sound /\ [Next]_vars => [Session!Next]_(Session!vars)
  BY NextSimulated DEF Simulated
<1>2. Init => Sound
  BY InitTypeInv, InitIdInv, InitOneInv, InitRemovalInv, InitManagedInv DEF Sound
<1>3. Sound /\ [Next]_vars => Sound'
  BY SoundStep
<1> QED  BY <1>1, <1>2, <1>3, InitSimulated, PTL DEF Spec, ImplementsSession, Session!Spec
=============================================================================

------------------------ MODULE WindowLifecycleProofs ------------------------
(***************************************************************************)
(* Theorems about WindowLifecycle, for every set of surfaces and           *)
(* Activities and any number of user actions.                              *)
(***************************************************************************)
EXTENDS WindowLifecycle, TLAPS, SequenceTheorems

-----------------------------------------------------------------------------
(* Maps.                                                                   *)

(* HashMap::insert keeps a map well-typed. *)
LEMMA PutType ==
  ASSUME NEW K, NEW V, NEW f, IsMap(f, K, V), NEW k \in K, NEW v \in V
  PROVE  IsMap(Put(f, k, v), K, V)
  BY DEF IsMap, Put

(* HashMap::remove keeps a map well-typed. *)
LEMMA DropType ==
  ASSUME NEW K, NEW V, NEW f, IsMap(f, K, V), NEW k
  PROVE  IsMap(Drop(f, k), K, V)
  BY DEF IsMap, Drop

(* HashMap::get_mut keeps a map well-typed. *)
LEMMA UpdateType ==
  ASSUME NEW K, NEW V, NEW f, IsMap(f, K, V), NEW k \in DOMAIN f, NEW v \in V
  PROVE  IsMap([f EXCEPT ![k] = v], K, V)
  BY DEF IsMap

LEMMA LookupType ==
  ASSUME NEW K, NEW V, NEW f, IsMap(f, K, V), NEW k \in DOMAIN f
  PROVE  k \in K /\ f[k] \in V
  BY DEF IsMap

(* The fields of a record may be assigned one by one. *)
LEMMA WindowStateUpdates ==
  ASSUME NEW r \in WindowState, NEW b \in BOOLEAN, NEW c \in {"none", "recent", "elapsed"}
  PROVE  /\ [r EXCEPT !.activity_launched = b] \in WindowState
         /\ [r EXCEPT !.native_window = b] \in WindowState
         /\ [r EXCEPT !.old = b] \in WindowState
         /\ [r EXCEPT !.close_pending = c] \in WindowState
  BY DEF WindowState

LEMMA ActivityRecordUpdates ==
  ASSUME NEW r \in ActivityRecord, NEW b \in BOOLEAN,
         NEW t \in {"unused", "starting", "created", "dormant", "destroyed"}
  PROVE  /\ [r EXCEPT !.state = t] \in ActivityRecord
         /\ [r EXCEPT !.surface = b] \in ActivityRecord
         /\ [r EXCEPT !.closing = b] \in ActivityRecord
         /\ [r EXCEPT !.finishing = b] \in ActivityRecord
  BY DEF ActivityRecord

(* send_event appends one well-formed event. *)
LEMMA SendType ==
  ASSUME channel \in Seq(WindowEvent), NEW t \in EventTypes, NEW w \in WindowIds,
         send_event(t, w)
  PROVE  channel' \in Seq(WindowEvent)
  BY DEF send_event, WindowEvent

-----------------------------------------------------------------------------
(* Types.  An Activity in use has the id of the window it was started for: *)
(* without that, the events it sends would not be well-formed.             *)
UsedHasWindow == \A a \in Acts : act[a].state # "unused" => act[a].window_id \in WindowIds

TypeInv == TypeOK /\ UsedHasWindow

LEMMA InitTypeInv == Init => TypeInv
<1> SUFFICES ASSUME Init PROVE TypeInv
  OBVIOUS
<1>1. IsMap(windows, WindowIds, WindowState) /\ IsMap(instances, WindowIds, Acts)
  BY DEF Init, InitWithFirstId, IsMap
<1>2. batch \in Seq(WindowEvent) /\ channel \in Seq(WindowEvent)
  BY DEF Init, InitWithFirstId
<1>3. act \in [Acts -> ActivityRecord] /\ UsedHasWindow
  BY DEF Init, InitWithFirstId, ActivityRecord, UsedHasWindow
<1>4. next_id \in WindowIds /\ actions \in 0 .. MaxUserActions /\ phase \in Phases
  BY ActionsAssumption DEF Init, InitWithFirstId, WindowIds, Phases
<1> QED
  BY <1>1, <1>2, <1>3, <1>4 DEF Init, InitWithFirstId, TypeInv, TypeOK

(* An assignment to the entry of one window. *)
LEMMA WindowAssigned ==
  ASSUME TypeInv, NEW w \in DOMAIN windows, NEW b \in BOOLEAN,
         NEW c \in {"none", "recent", "elapsed"},
         \/ windows' = [windows EXCEPT ![w].activity_launched = b]
         \/ windows' = [windows EXCEPT ![w].native_window = b]
         \/ windows' = [windows EXCEPT ![w].old = b]
         \/ windows' = [windows EXCEPT ![w].close_pending = c]
         \/ windows' = [windows EXCEPT ![w].close_pending = c, ![w].activity_launched = b]
  PROVE  IsMap(windows', WindowIds, WindowState)
<1>1. windows[w] \in WindowState
  BY LookupType DEF TypeInv, TypeOK
<1>2. PICK r \in WindowState : windows' = [windows EXCEPT ![w] = r]
  <2>1. [[windows[w] EXCEPT !.close_pending = c] EXCEPT !.activity_launched = b] \in WindowState
    BY <1>1, WindowStateUpdates
  <2> QED  BY <1>1, <2>1, WindowStateUpdates DEF IsMap, TypeInv, TypeOK
<1> QED  BY <1>2, UpdateType DEF TypeInv, TypeOK

LEMMA CompositorTypeInv ==
  ASSUME TypeInv, dispatch_wayland \/ Timer
  PROVE  TypeInv'
<1> USE DEF TypeInv, TypeOK, Goto
<1>1. ASSUME NEW s \in Surfaces, new_window(s) PROVE TypeInv'
  <2>1. [surface_kind |-> s, activity_launched |-> FALSE, native_window |-> FALSE,
         close_pending |-> "none", old |-> FALSE] \in WindowState
    BY DEF WindowState
  <2>2. IsMap(windows', WindowIds, WindowState)
    BY <1>1, <2>1, PutType DEF new_window
  <2>3. next_id' \in WindowIds
    BY <1>1 DEF new_window, WindowIds
  <2> QED  BY <1>1, <2>2, <2>3 DEF new_window, androidVars, UsedHasWindow
<1>2. ASSUME NEW s \in Surfaces, finish_destroyed(s) PROVE TypeInv'
  <2>1. IsMap(windows', WindowIds, WindowState)
    BY <1>2, DropType DEF finish_destroyed, remove_window
  <2>2. posted' \in [Acts -> {"none", "current", "stale"}]
    BY <1>2 DEF finish_destroyed, finishByWindowId
  <2> QED  BY <1>2, <2>1, <2>2 DEF finish_destroyed, UsedHasWindow
<1>3. ASSUME NEW w \in DOMAIN windows, NEW a \in Acts, launch_activity(w, a) PROVE TypeInv'
  <2>1. IsMap(windows', WindowIds, WindowState)
    BY <1>3, WindowAssigned DEF launch_activity
  <2>2. w \in WindowIds
    BY LookupType
  <2>3. act' \in [Acts -> ActivityRecord] /\ UsedHasWindow'
    <3> DEFINE r(st) == [[act[a] EXCEPT !.state = st] EXCEPT !.window_id = w]
    <3>1. \A st \in {"starting", "destroyed"} :
            r(st) \in ActivityRecord /\ r(st).window_id = w
      BY <2>2 DEF ActivityRecord
    <3>2. \E st \in {"starting", "destroyed"} : act' = [act EXCEPT ![a] = r(st)]
      BY <1>3 DEF launch_activity
    <3> HIDE DEF r
    <3> QED  BY <2>2, <3>1, <3>2 DEF UsedHasWindow
  <2> QED  BY <1>3, <2>1, <2>3 DEF launch_activity, clientVars
<1>4. ASSUME AdoptDone \/ LaunchDone \/ EventsDone \/ DispatchDone PROVE TypeInv'
  BY <1>4 DEF AdoptDone, LaunchDone, EventsDone, DispatchDone, Phases, clientVars,
              androidVars, UsedHasWindow
<1>5. CASE CollectEvents
  BY <1>5 DEF CollectEvents, Phases, clientVars, androidVars, UsedHasWindow
<1>6. ASSUME batch # << >>, batch' = Tail(batch) PROVE batch' \in Seq(WindowEvent)
  BY <1>6
<1>7. CASE HandleSurfaceCreated \/ HandleSurfaceDestroyed
  <2>1. IsMap(windows', WindowIds, WindowState)
    BY <1>7, WindowAssigned DEF HandleSurfaceCreated, HandleSurfaceDestroyed
  <2> QED  BY <1>6, <1>7, <2>1
           DEF HandleSurfaceCreated, HandleSurfaceDestroyed, NextEvent, clientVars,
               androidVars, UsedHasWindow
<1>8. CASE HandleCloseRequested
  <2>1. IsMap(windows', WindowIds, WindowState)
    BY <1>8, WindowAssigned DEF HandleCloseRequested, PrepareRelaunch
  <2>2. close_sent' \in [Surfaces -> BOOLEAN]
    BY <1>8 DEF HandleCloseRequested
  <2> QED  BY <1>6, <1>8, <2>1, <2>2
           DEF HandleCloseRequested, NextEvent, androidVars, UsedHasWindow
<1>9. CASE HandleWindowClosed
  <2>1. IsMap(windows', WindowIds, WindowState)
    BY <1>9, DropType DEF HandleWindowClosed, remove_window
  <2> QED  BY <1>6, <1>9, <2>1
           DEF HandleWindowClosed, NextEvent, clientVars, androidVars, UsedHasWindow
<1>10. ASSUME NEW w \in DOMAIN windows, CreatedTimeout(w) \/ CloseTimeout(w) PROVE TypeInv'
  <2>1. IsMap(windows', WindowIds, WindowState)
    BY <1>10, WindowAssigned DEF CreatedTimeout, CloseTimeout
  <2> QED  BY <1>10, <2>1 DEF CreatedTimeout, CloseTimeout, clientVars, androidVars, UsedHasWindow
<1> QED
  BY <1>1, <1>2, <1>3, <1>4, <1>5, <1>7, <1>8, <1>9, <1>10 DEF dispatch_wayland, Timer

LEMMA ClientTypeInv ==
  ASSUME TypeInv, Client
  PROVE  TypeInv'
<1> USE DEF TypeInv, TypeOK, UsedHasWindow, compositorVars, androidVars
<1>1. ASSUME NEW s \in Surfaces, new_toplevel(s) PROVE TypeInv'
  BY <1>1 DEF new_toplevel
<1>2. ASSUME NEW s \in Surfaces, commit(s) PROVE TypeInv'
  BY <1>2 DEF commit
<1>3. ASSUME NEW s \in Surfaces, toplevel_destroyed(s) PROVE TypeInv'
  BY <1>3 DEF toplevel_destroyed
<1> QED  BY <1>1, <1>2, <1>3 DEF Client

(* An assignment to the record of one Activity. *)
LEMMA ActivityAssigned ==
  ASSUME TypeInv, NEW a \in Acts, NEW b \in BOOLEAN, NEW c \in BOOLEAN,
         \/ act[a].state # "unused" /\ act' = [act EXCEPT ![a].state = "created"]
         \/ act[a].state # "unused" /\ act' = [act EXCEPT ![a].state = "dormant"]
         \/ act[a].state # "unused" /\ act' = [act EXCEPT ![a].state = "destroyed"]
         \/ act' = [act EXCEPT ![a].surface = b]
         \/ act' = [act EXCEPT ![a].finishing = b]
         \/ act' = [act EXCEPT ![a].finishing = b, ![a].closing = c]
  PROVE  act' \in [Acts -> ActivityRecord] /\ UsedHasWindow'
<1> USE DEF TypeInv, TypeOK
<1>1. act[a] \in ActivityRecord
  OBVIOUS
<1>2. ASSUME NEW r \in ActivityRecord, act' = [act EXCEPT ![a] = r],
             r.window_id = act[a].window_id, r.state # "unused" => act[a].state # "unused"
      PROVE  act' \in [Acts -> ActivityRecord] /\ UsedHasWindow'
  BY <1>2 DEF UsedHasWindow
<1>3. ASSUME NEW t \in {"created", "dormant", "destroyed"}, act[a].state # "unused",
             act' = [act EXCEPT ![a].state = t]
      PROVE  act' \in [Acts -> ActivityRecord] /\ UsedHasWindow'
  <2>1. [act[a] EXCEPT !.state = t].window_id = act[a].window_id
    BY <1>1 DEF ActivityRecord
  <2> QED  BY <1>1, <1>2, <1>3, <2>1, ActivityRecordUpdates
<1>4. ASSUME NEW r \in ActivityRecord, act' = [act EXCEPT ![a] = r],
             \/ r = [act[a] EXCEPT !.surface = b]
             \/ r = [act[a] EXCEPT !.finishing = b]
             \/ r = [[act[a] EXCEPT !.finishing = b] EXCEPT !.closing = c]
      PROVE  act' \in [Acts -> ActivityRecord] /\ UsedHasWindow'
  <2>1. r.window_id = act[a].window_id /\ r.state = act[a].state
    BY <1>1, <1>4 DEF ActivityRecord
  <2> QED  BY <1>2, <1>4, <2>1
<1>5. [[act[a] EXCEPT !.finishing = b] EXCEPT !.closing = c] \in ActivityRecord
  BY <1>1, ActivityRecordUpdates
<1> QED  BY <1>1, <1>3, <1>4, <1>5, ActivityRecordUpdates

LEMMA UiThreadTypeInv ==
  ASSUME TypeInv, UiThread
  PROVE  TypeInv'
<1> USE DEF TypeInv, TypeOK, clientVars, compositorVars
<1>0. ASSUME NEW a \in Acts, act[a].state # "unused", NEW t \in EventTypes,
             send_event(t, act[a].window_id)
      PROVE  channel' \in Seq(WindowEvent)
  BY <1>0, SendType DEF UsedHasWindow
<1>1. ASSUME NEW a \in Acts, onCreate(a) PROVE TypeInv'
  <2>1. IsMap(instances', WindowIds, Acts)
    BY <1>1, PutType DEF onCreate, UsedHasWindow
  <2>2. act' \in [Acts -> ActivityRecord] /\ UsedHasWindow'
    BY <1>1, ActivityAssigned DEF onCreate
  <2> QED  BY <1>1, <2>1, <2>2 DEF onCreate
<1>2. ASSUME NEW a \in Acts, surfaceCreated(a) PROVE TypeInv'
  <2>1. channel' \in Seq(WindowEvent)
    BY <1>0, <1>2 DEF surfaceCreated, EventTypes
  <2>2. act' \in [Acts -> ActivityRecord] /\ UsedHasWindow'
    BY <1>2, ActivityAssigned DEF surfaceCreated
  <2> QED  BY <1>2, <2>1, <2>2 DEF surfaceCreated
<1>3. ASSUME NEW a \in Acts, surfaceDestroyed(a) PROVE TypeInv'
  <2>1. channel' \in Seq(WindowEvent)
    BY <1>0, <1>3 DEF surfaceDestroyed, EventTypes
  <2>2. actions' \in 0 .. MaxUserActions
    BY <1>3, ActionsAssumption DEF surfaceDestroyed
  <2>3. act' \in [Acts -> ActivityRecord] /\ UsedHasWindow'
    BY <1>3, ActivityAssigned DEF surfaceDestroyed
  <2> QED  BY <1>3, <2>1, <2>2, <2>3 DEF surfaceDestroyed
<1>4. ASSUME NEW a \in Acts, BackPressed(a) PROVE TypeInv'
  <2>1. channel' \in Seq(WindowEvent)
    BY <1>0, <1>4 DEF BackPressed, EventTypes
  <2>2. actions' \in 0 .. MaxUserActions
    BY <1>4, ActionsAssumption DEF BackPressed
  <2> QED  BY <1>4, <2>1, <2>2 DEF BackPressed, UsedHasWindow
<1>5. ASSUME NEW a \in Acts, RemoveTask(a) PROVE TypeInv'
  <2>1. actions' \in 0 .. MaxUserActions
    BY <1>5, ActionsAssumption DEF RemoveTask
  <2>2. act' \in [Acts -> ActivityRecord] /\ UsedHasWindow'
    BY <1>5, ActivityAssigned DEF RemoveTask
  <2> QED  BY <1>5, <2>1, <2>2 DEF RemoveTask
<1>6. ASSUME NEW a \in Acts, RunFinish(a) PROVE TypeInv'
  <2>1. (act[a].closing \/ posted[a] = "current") \in BOOLEAN
    OBVIOUS
  <2>2. act' \in [Acts -> ActivityRecord] /\ UsedHasWindow'
    <3>1. CASE act[a].state = "created"
      BY <1>6, <2>1, <3>1, ActivityAssigned DEF RunFinish
    <3>2. CASE act[a].state = "dormant"
      BY <1>6, <3>2, ActivityAssigned DEF RunFinish
    <3>3. CASE act[a].state \notin {"created", "dormant"}
      BY <1>6, <3>3 DEF RunFinish, UsedHasWindow
    <3> QED  BY <3>1, <3>2, <3>3
  <2> QED  BY <1>6, <2>2 DEF RunFinish
<1>7. ASSUME NEW a \in Acts, onDestroy(a) \/ onDestroyKept(a) PROVE TypeInv'
  <2>1. channel' \in Seq(WindowEvent)
    BY <1>0, <1>7 DEF onDestroy, onDestroyKept, ReportDestroyed, EventTypes
  <2>2. IsMap(instances', WindowIds, Acts)
    BY <1>7, DropType DEF onDestroy, onDestroyKept, Unregister
  <2>3. actions' \in 0 .. MaxUserActions
    BY <1>7, ActionsAssumption DEF onDestroy, onDestroyKept
  <2>4. act' \in [Acts -> ActivityRecord] /\ UsedHasWindow'
    BY <1>7, ActivityAssigned DEF onDestroy, onDestroyKept
  <2> QED  BY <1>7, <2>1, <2>2, <2>3, <2>4 DEF onDestroy, onDestroyKept
<1> QED  BY <1>1, <1>2, <1>3, <1>4, <1>5, <1>6, <1>7 DEF UiThread

LEMMA NextTypeInv == TypeInv /\ [Next]_vars => TypeInv'
<1>1. CASE Next
  BY <1>1, CompositorTypeInv, ClientTypeInv, UiThreadTypeInv DEF Next
<1>2. CASE UNCHANGED vars
  BY <1>2 DEF vars, clientVars, compositorVars, androidVars, TypeInv, TypeOK, UsedHasWindow
<1> QED  BY <1>1, <1>2

(* Every variable keeps its type, for any number of windows and Activities. *)
THEOREM Typing == Spec => []TypeOK
<1>1. TypeInv => TypeOK
  BY DEF TypeInv
<1> QED  BY <1>1, InitTypeInv, NextTypeInv, PTL DEF Spec

-----------------------------------------------------------------------------
(* Identities.  Window ids are never reused and an Activity keeps its id,  *)
(* so what is posted to or set on the Activity of a removed window can     *)
(* never concern a later one.                                              *)
IdsBelowNext ==
  /\ \A w \in DOMAIN windows : w < next_id
  /\ \A a \in Acts : act[a].window_id < next_id

RegistryNamesCreated ==
  \A w \in DOMAIN instances : act[instances[w]].window_id = w /\ act[instances[w]].state = "created"

UnusedIsBlank ==
  \A a \in Acts : act[a].state = "unused" =>
    act[a].window_id = 0 /\ ~act[a].closing /\ posted[a] = "none"

IdInv == IdsBelowNext /\ RegistryNamesCreated /\ UnusedIsBlank /\ ClosingMeansRemoved

LEMMA InitIdInv == Init => IdInv
  BY DEF Init, InitWithFirstId, IdInv, IdsBelowNext, RegistryNamesCreated, UnusedIsBlank,
         ClosingMeansRemoved

(* The identities of an Activity do not change once it is in use, and the  *)
(* set of windows only shrinks unless new_window adds a fresh id.          *)
LEMMA WindowsShrink ==
  ASSUME TypeInv, IdInv, DOMAIN windows' \subseteq DOMAIN windows,
         UNCHANGED <<next_id, instances, act, posted>>
  PROVE  IdInv'
  BY DEF IdInv, IdsBelowNext, RegistryNamesCreated, UnusedIsBlank, ClosingMeansRemoved

LEMMA CompositorIdInv ==
  ASSUME TypeInv, IdInv, dispatch_wayland \/ Timer
  PROVE  IdInv'
<1> USE DEF androidVars
<1>1. ASSUME NEW s \in Surfaces, new_window(s) PROVE IdInv'
  <2>1. /\ DOMAIN windows' = DOMAIN windows \cup {next_id}
        /\ next_id' = next_id + 1 /\ next_id \in Nat
        /\ UNCHANGED <<instances, act, posted>>
    BY <1>1 DEF new_window, Put, TypeInv, TypeOK, WindowIds
  <2>2. \A a \in Acts : act[a].window_id \in Nat
    BY DEF TypeInv, TypeOK, ActivityRecord, WindowIds
  <2>3. \A w \in DOMAIN windows : w \in Nat
    BY DEF TypeInv, TypeOK, IsMap, WindowIds
  <2>4. IdsBelowNext'
    BY <2>1, <2>2, <2>3 DEF IdInv, IdsBelowNext
  <2>5. ClosingMeansRemoved'
    BY <2>1, <2>2 DEF IdInv, IdsBelowNext, ClosingMeansRemoved
  <2> QED  BY <2>1, <2>4, <2>5 DEF IdInv, RegistryNamesCreated, UnusedIsBlank
<1>2. ASSUME NEW s \in Surfaces, finish_destroyed(s) PROVE IdInv'
  <2>1. CASE UNCHANGED <<windows, posted>>
    BY <1>2, <2>1, WindowsShrink DEF finish_destroyed
  <2>2. CASE \E w \in DOMAIN windows : finishByWindowId(w) /\ remove_window(w)
    <3>1. PICK w \in DOMAIN windows : finishByWindowId(w) /\ remove_window(w)
      BY <2>2
    <3>2. DOMAIN windows' = DOMAIN windows \ {w} /\ UNCHANGED <<next_id, instances, act>>
      BY <1>2, <3>1 DEF finish_destroyed, remove_window, Drop
    <3>3. \A a \in Acts : posted'[a] = posted[a] \/ (w \in DOMAIN instances /\ a = instances[w])
      BY <3>1 DEF finishByWindowId, TypeInv, TypeOK, IsMap
    <3>4. ClosingMeansRemoved' /\ UnusedIsBlank'
      BY <3>2, <3>3 DEF IdInv, ClosingMeansRemoved, RegistryNamesCreated, UnusedIsBlank
    <3> QED  BY <3>2, <3>4 DEF IdInv, IdsBelowNext, RegistryNamesCreated
  <2> QED  BY <1>2, <2>1, <2>2 DEF finish_destroyed
<1>3. ASSUME NEW w \in DOMAIN windows, NEW a \in Acts, launch_activity(w, a) PROVE IdInv'
  <2>1. DOMAIN windows' = DOMAIN windows /\ UNCHANGED <<next_id, instances, posted>>
    BY <1>3 DEF launch_activity
  <2>2. /\ act[a].state = "unused"
        /\ act'[a].window_id = w /\ act'[a].state \in {"starting", "destroyed"}
        /\ act'[a].closing = act[a].closing
        /\ \A b \in Acts \ {a} : act'[b] = act[b]
    BY <1>3 DEF launch_activity, TypeInv, TypeOK, ActivityRecord
  <2>3. act'[a].state # "unused"
    BY <2>2
  <2>4. ClosingMeansRemoved'
    BY <2>1, <2>2 DEF IdInv, ClosingMeansRemoved, UnusedIsBlank, TypeInv, TypeOK
  <2>5. UnusedIsBlank'
    BY <2>1, <2>2, <2>3 DEF IdInv, UnusedIsBlank
  <2>6. IdsBelowNext'
    BY <2>1, <2>2 DEF IdInv, IdsBelowNext
  <2>7. RegistryNamesCreated'
    BY <2>1, <2>2 DEF IdInv, RegistryNamesCreated, TypeInv, TypeOK, IsMap
  <2> QED  BY <2>4, <2>5, <2>6, <2>7 DEF IdInv
<1>4. CASE AdoptDone \/ LaunchDone \/ EventsDone \/ DispatchDone \/ CollectEvents
  BY <1>4, WindowsShrink DEF AdoptDone, LaunchDone, EventsDone, DispatchDone, CollectEvents
<1>5. CASE HandleSurfaceCreated \/ HandleSurfaceDestroyed
  BY <1>5, WindowsShrink DEF HandleSurfaceCreated, HandleSurfaceDestroyed
<1>6. CASE HandleCloseRequested
  BY <1>6, WindowsShrink DEF HandleCloseRequested, PrepareRelaunch
<1>7. CASE HandleWindowClosed
  BY <1>7, WindowsShrink DEF HandleWindowClosed, remove_window, Drop
<1>8. ASSUME NEW w \in DOMAIN windows, CreatedTimeout(w) \/ CloseTimeout(w) PROVE IdInv'
  BY <1>8, WindowsShrink DEF CreatedTimeout, CloseTimeout
<1> QED
  BY <1>1, <1>2, <1>3, <1>4, <1>5, <1>6, <1>7, <1>8 DEF dispatch_wayland, Timer

(* What a callback changes of the Activity records. *)
LEMMA CallbackChanges ==
  ASSUME TypeInv, NEW a \in Acts,
         \/ surfaceCreated(a) \/ surfaceDestroyed(a) \/ BackPressed(a) \/ RemoveTask(a)
         \/ onCreate(a) \/ RunFinish(a) \/ onDestroy(a) \/ onDestroyKept(a)
  PROVE  /\ \A b \in Acts : act'[b].window_id = act[b].window_id
         /\ \A b \in Acts \ {a} : act'[b] = act[b]
         /\ act[a].state = "unused" \/ act'[a].state # "unused"
<1>1. act \in [Acts -> ActivityRecord]
  BY DEF TypeInv, TypeOK
<1> QED
  BY <1>1 DEF surfaceCreated, surfaceDestroyed, BackPressed, RemoveTask, onCreate, RunFinish,
              onDestroy, onDestroyKept, ActivityRecord

LEMMA UiThreadIdInv ==
  ASSUME TypeInv, IdInv, UiThread
  PROVE  IdInv'
<1> USE DEF compositorVars
<1>1. act \in [Acts -> ActivityRecord] /\ posted \in [Acts -> {"none", "current", "stale"}]
  BY DEF TypeInv, TypeOK
<1>2. PICK a \in Acts :
        \/ surfaceCreated(a) \/ surfaceDestroyed(a) \/ BackPressed(a) \/ RemoveTask(a)
        \/ onCreate(a) \/ RunFinish(a) \/ onDestroy(a) \/ onDestroyKept(a)
  BY DEF UiThread
<1>3. /\ \A b \in Acts : act'[b].window_id = act[b].window_id
      /\ \A b \in Acts \ {a} : act'[b] = act[b]
  BY <1>2, CallbackChanges
<1>4. UNCHANGED <<windows, next_id>>
  BY <1>2 DEF surfaceCreated, surfaceDestroyed, BackPressed, RemoveTask, onCreate, RunFinish,
              onDestroy, onDestroyKept
<1>5. IdsBelowNext'
  BY <1>3, <1>4 DEF IdInv, IdsBelowNext
<1>6. RegistryNamesCreated'
  <2>1. CASE onCreate(a)
    <3>1. act'[a].state = "created" /\ instances' = Put(instances, act[a].window_id, a)
      BY <1>1, <2>1 DEF onCreate, ActivityRecord
    <3> QED  BY <1>3, <3>1 DEF IdInv, RegistryNamesCreated, Put, TypeInv, TypeOK, IsMap
  <2>2. CASE onDestroy(a) \/ onDestroyKept(a)
    <3>1. instances' = Drop(instances, act[a].window_id)
      BY <2>2 DEF onDestroy, onDestroyKept, Unregister
    <3> QED  BY <1>3, <3>1 DEF IdInv, RegistryNamesCreated, Drop, TypeInv, TypeOK, IsMap
  <2>3. CASE \/ surfaceCreated(a) \/ surfaceDestroyed(a) \/ BackPressed(a) \/ RemoveTask(a)
             \/ RunFinish(a)
    <3>1. act'[a].state = act[a].state \/ act[a].state # "created"
      BY <1>1, <2>3 DEF surfaceCreated, surfaceDestroyed, BackPressed, RemoveTask, RunFinish,
                        ActivityRecord
    <3>2. UNCHANGED instances
      BY <2>3 DEF surfaceCreated, surfaceDestroyed, BackPressed, RemoveTask, RunFinish
    <3> QED  BY <1>3, <3>1, <3>2 DEF IdInv, RegistryNamesCreated, TypeInv, TypeOK, IsMap
  <2> QED  BY <1>2, <2>1, <2>2, <2>3
<1>7. \A b \in Acts : posted'[b] = "none" \/ posted[b] # "none"
  BY <1>1, <1>2 DEF surfaceCreated, surfaceDestroyed, BackPressed, RemoveTask, onCreate,
                    RunFinish, onDestroy, onDestroyKept
<1>8. act'[a].closing => act[a].closing \/ posted[a] # "none"
  BY <1>1, <1>2 DEF surfaceCreated, surfaceDestroyed, BackPressed, RemoveTask, onCreate,
                    RunFinish, onDestroy, onDestroyKept, ActivityRecord
<1>9. ClosingMeansRemoved'
  BY <1>3, <1>4, <1>7, <1>8 DEF IdInv, ClosingMeansRemoved
<1>10. UnusedIsBlank'
  <2>1. act[a].state # "unused" => act'[a].state # "unused"
    BY <1>2, CallbackChanges
  <2> QED  BY <1>3, <1>7, <1>8, <2>1 DEF IdInv, UnusedIsBlank
<1> QED  BY <1>5, <1>6, <1>9, <1>10 DEF IdInv

LEMMA NextIdInv == TypeInv /\ IdInv /\ [Next]_vars => IdInv'
<1>1. ASSUME TypeInv, IdInv, Client PROVE IdInv'
  BY <1>1, WindowsShrink
  DEF Client, new_toplevel, commit, toplevel_destroyed, compositorVars, androidVars
<1>2. ASSUME TypeInv, IdInv, UNCHANGED vars PROVE IdInv'
  BY <1>2, WindowsShrink DEF vars, compositorVars, androidVars
<1> QED  BY <1>1, <1>2, CompositorIdInv, UiThreadIdInv DEF Next

(* finishByWindowId and the closingByCompositor flag only ever concern     *)
(* windows that are gone, so WindowClosed(is_finishing) removes no live    *)
(* window, for any number of windows, Activities and user actions.         *)
THEOREM ClosingIsSafe == Spec => []ClosingMeansRemoved
<1>1. TypeInv /\ IdInv => ClosingMeansRemoved
  BY DEF IdInv
<1> QED  BY <1>1, InitTypeInv, NextTypeInv, InitIdInv, NextIdInv, PTL DEF Spec


-----------------------------------------------------------------------------
(***************************************************************************)
(* A window never has two Activities and the compositor renders to the     *)
(* surface of the one it has, for every number of windows, Activities and  *)
(* user actions.  The argument is about the events under way: a close      *)
(* request that finds no native window is the last word of a dead          *)
(* Activity, so the relaunch it allows cannot make a second one.           *)
(***************************************************************************)

Live(a) == act[a].state \in {"starting", "created", "dormant"}

-----------------------------------------------------------------------------
(* The inductive invariant.                                                *)

(* Outside process_window_events no event is taken but not handled. *)
BatchOnlyInEvents == phase # "events" => batch = << >>

EventsBelowNext == \A i \in 1 .. Len(Unhandled) : Unhandled[i].window_id < next_id

OneLive ==
  \A a, b \in Acts : Live(a) /\ Live(b) /\ act[a].window_id = act[b].window_id => a = b

SurfaceMeansCreated == \A a \in Acts : act[a].surface => act[a].state = "created"

(* A close request that will find no native window is the last event for   *)
(* its window, and no Activity is left.                                    *)
CloseIsLastWord ==
  \A w \in DOMAIN windows, i \in 1 .. Len(Unhandled) :
    Is(Unhandled[i], "CloseRequested", w) =>
      \/ NativeBefore(Unhandled, windows[w].native_window, w, i)
      \/ /\ ActivitiesOf(w) = {}
         /\ \A j \in (i + 1) .. Len(Unhandled) : Unhandled[j].window_id # w

(* A window that may be launched has left no trace of an Activity. *)
LaunchIsClean ==
  \A w \in DOMAIN windows : ~windows[w].activity_launched =>
    /\ ActivitiesOf(w) = {}
    /\ ~windows[w].native_window
    /\ \A i \in 1 .. Len(Unhandled) : Unhandled[i].window_id # w

OneInv ==
  /\ BatchOnlyInEvents /\ EventsBelowNext /\ OneLive /\ SurfaceMeansCreated
  /\ CloseIsLastWord /\ LaunchIsClean /\ NativeWindowFollowsSurface

-----------------------------------------------------------------------------
(* The queue of events.                                                    *)

(* Sending an event changes nothing for the earlier ones. *)
LEMMA NativeAppend ==
  ASSUME NEW q \in Seq(WindowEvent), NEW e \in WindowEvent, NEW n, NEW w,
         NEW i \in 1 .. Len(q) + 1
  PROVE  NativeBefore(Append(q, e), n, w, i) <=> NativeBefore(q, n, w, i)
<1>1. \A k \in 1 .. (i - 1) : Append(q, e)[k] = q[k]
  OBVIOUS
<1> QED  BY <1>1 DEF NativeBefore

(* After it, native_window is what the event makes of it. *)
LEMMA NativeAppendLast ==
  ASSUME NEW q \in Seq(WindowEvent), NEW e \in WindowEvent, NEW n, NEW w
  PROVE  NativeBefore(Append(q, e), n, w, Len(q) + 2)
           <=> \/ Is(e, "SurfaceCreated", w)
               \/ NativeBefore(q, n, w, Len(q) + 1) /\ ~Is(e, "SurfaceDestroyed", w)
<1> DEFINE r == Append(q, e)
<1>1. /\ \A k \in 1 .. Len(q) : r[k] = q[k]
      /\ r[Len(q) + 1] = e
      /\ Len(q) \in Nat
  OBVIOUS
<1>2. ~(Is(e, "SurfaceCreated", w) /\ Is(e, "SurfaceDestroyed", w))
  BY DEF Is
<1> HIDE DEF r
<1>3. ASSUME NativeBefore(r, n, w, Len(q) + 2)
      PROVE  \/ Is(e, "SurfaceCreated", w)
             \/ NativeBefore(q, n, w, Len(q) + 1) /\ ~Is(e, "SurfaceDestroyed", w)
  <2>1. Len(q) + 2 - 1 = Len(q) + 1 /\ Len(q) + 1 - 1 = Len(q)
    BY <1>1
  <2>2. CASE n /\ \A k \in 1 .. (Len(q) + 1) : ~Is(r[k], "SurfaceDestroyed", w)
    BY <1>1, <2>1, <2>2 DEF NativeBefore
  <2>3. CASE \E j \in 1 .. (Len(q) + 1) :
               /\ Is(r[j], "SurfaceCreated", w)
               /\ \A k \in (j + 1) .. (Len(q) + 1) : ~Is(r[k], "SurfaceDestroyed", w)
    <3>1. PICK j \in 1 .. (Len(q) + 1) :
               /\ Is(r[j], "SurfaceCreated", w)
               /\ \A k \in (j + 1) .. (Len(q) + 1) : ~Is(r[k], "SurfaceDestroyed", w)
      BY <2>3
    <3>2. CASE j = Len(q) + 1
      BY <1>1, <3>1, <3>2
    <3>3. CASE j \in 1 .. Len(q)
      <4>1. ~Is(e, "SurfaceDestroyed", w)
        BY <1>1, <3>1, <3>3
      <4>2. Is(q[j], "SurfaceCreated", w)
            /\ \A k \in (j + 1) .. Len(q) : ~Is(q[k], "SurfaceDestroyed", w)
        BY <1>1, <3>1, <3>3
      <4> QED  BY <2>1, <3>3, <4>1, <4>2 DEF NativeBefore
    <3> QED  BY <1>1, <3>2, <3>3
  <2> QED  BY <1>3, <2>1, <2>2, <2>3 DEF NativeBefore
<1>4. ASSUME \/ Is(e, "SurfaceCreated", w)
             \/ NativeBefore(q, n, w, Len(q) + 1) /\ ~Is(e, "SurfaceDestroyed", w)
      PROVE  NativeBefore(r, n, w, Len(q) + 2)
  BY <1>1, <1>4 DEF NativeBefore
<1> QED  BY <1>3, <1>4 DEF r

(* Handling the first event changes nothing for the later ones. *)
LEMMA NativeTail ==
  ASSUME NEW q \in Seq(WindowEvent), q # << >>, NEW n, NEW m, NEW w, NEW i \in 1 .. Len(q),
         m <=> \/ Is(q[1], "SurfaceCreated", w)
               \/ n /\ ~Is(q[1], "SurfaceDestroyed", w)
  PROVE  NativeBefore(Tail(q), m, w, i) <=> NativeBefore(q, n, w, i + 1)
<1> DEFINE r == Tail(q)
<1>1. /\ \A k \in 1 .. Len(q) - 1 : r[k] = q[k + 1]
      /\ Len(q) \in Nat
  OBVIOUS
<1>2. ~(Is(q[1], "SurfaceCreated", w) /\ Is(q[1], "SurfaceDestroyed", w))
  BY DEF Is
<1> HIDE DEF r
<1>3. ASSUME NativeBefore(r, m, w, i) PROVE NativeBefore(q, n, w, i + 1)
  <2>1. \A k \in 2 .. i : q[k] = r[k - 1] /\ k - 1 \in 1 .. i - 1
    BY <1>1
  <2>2. CASE m /\ \A k \in 1 .. (i - 1) : ~Is(r[k], "SurfaceDestroyed", w)
    <3>1. \A k \in 2 .. i : ~Is(q[k], "SurfaceDestroyed", w)
      BY <2>1, <2>2
    <3> QED  BY <2>2, <3>1 DEF NativeBefore
  <2>3. CASE \E j \in 1 .. (i - 1) :
               /\ Is(r[j], "SurfaceCreated", w)
               /\ \A k \in (j + 1) .. (i - 1) : ~Is(r[k], "SurfaceDestroyed", w)
    <3>1. PICK j \in 1 .. (i - 1) :
               /\ Is(r[j], "SurfaceCreated", w)
               /\ \A k \in (j + 1) .. (i - 1) : ~Is(r[k], "SurfaceDestroyed", w)
      BY <2>3
    <3>2. Is(q[j + 1], "SurfaceCreated", w) /\ j + 1 \in 1 .. i
      BY <1>1, <3>1
    <3>3. \A k \in (j + 2) .. i : ~Is(q[k], "SurfaceDestroyed", w)
      BY <2>1, <3>1
    <3> QED  BY <3>2, <3>3 DEF NativeBefore
  <2> QED  BY <1>3, <2>2, <2>3 DEF NativeBefore
<1>4. ASSUME NativeBefore(q, n, w, i + 1) PROVE NativeBefore(r, m, w, i)
  <2>1. \A k \in 1 .. (i - 1) : r[k] = q[k + 1] /\ k + 1 \in 1 .. i
    BY <1>1
  <2>2. CASE n /\ \A k \in 1 .. i : ~Is(q[k], "SurfaceDestroyed", w)
    BY <2>1, <2>2 DEF NativeBefore
  <2>3. CASE \E j \in 1 .. i :
               /\ Is(q[j], "SurfaceCreated", w)
               /\ \A k \in (j + 1) .. i : ~Is(q[k], "SurfaceDestroyed", w)
    <3>1. PICK j \in 1 .. i :
               /\ Is(q[j], "SurfaceCreated", w)
               /\ \A k \in (j + 1) .. i : ~Is(q[k], "SurfaceDestroyed", w)
      BY <2>3
    <3>2. \A k \in j .. (i - 1) : ~Is(r[k], "SurfaceDestroyed", w)
      BY <2>1, <3>1
    <3>3. CASE j = 1
      BY <3>1, <3>2, <3>3 DEF NativeBefore
    <3>4. CASE j \in 2 .. i
      <4>1. Is(r[j - 1], "SurfaceCreated", w) /\ j - 1 \in 1 .. (i - 1)
        BY <2>1, <3>1, <3>4
      <4> QED  BY <3>2, <3>4, <4>1 DEF NativeBefore
    <3> QED  BY <3>3, <3>4
  <2> QED  BY <1>4, <2>2, <2>3 DEF NativeBefore
<1> QED  BY <1>3, <1>4 DEF r

-----------------------------------------------------------------------------
(* The kinds of steps.                                                     *)

LEMMA UnhandledType == TypeInv => Unhandled \in Seq(WindowEvent)
  BY DEF TypeInv, TypeOK, Unhandled

(* Steps that neither send nor handle an event and make no Activity live. *)
LEMMA QuietStep ==
  ASSUME TypeInv, OneInv, BatchOnlyInEvents', Unhandled' = Unhandled, next_id' = next_id,
         \A w \in DOMAIN windows' :
           /\ w \in DOMAIN windows
           /\ windows'[w].native_window = windows[w].native_window
           /\ windows'[w].activity_launched = windows[w].activity_launched,
         \A a \in Acts :
           /\ act'[a].window_id = act[a].window_id
           /\ act'[a].surface = act[a].surface
           /\ Live(a)' => Live(a)
           /\ act[a].surface => act'[a].state = "created"
  PROVE  OneInv'
<1>1. \A w : ActivitiesOf(w)' \subseteq ActivitiesOf(w)
  BY DEF ActivitiesOf, Live
<1>2. OneLive' /\ SurfaceMeansCreated' /\ EventsBelowNext'
  BY DEF OneInv, OneLive, SurfaceMeansCreated, EventsBelowNext
<1>3. CloseIsLastWord'
  BY <1>1 DEF OneInv, CloseIsLastWord
<1>4. LaunchIsClean'
  BY <1>1 DEF OneInv, LaunchIsClean
<1>5. \A w : (\E a \in ActivitiesOf(w) : act[a].surface)'
               <=> \E a \in ActivitiesOf(w) : act[a].surface
  BY DEF ActivitiesOf, Live
<1>6. NativeWindowFollowsSurface'
  BY <1>5 DEF OneInv, NativeWindowFollowsSurface
<1> QED  BY <1>2, <1>3, <1>4, <1>6 DEF OneInv

(* Steps in which a live Activity sends one event. *)
SendingStep(a, e) ==
  /\ Live(a)
  /\ e \in WindowEvent /\ e.window_id = act[a].window_id
  /\ channel' = Append(channel, e)
  /\ UNCHANGED <<phase, windows, next_id, batch>>
  /\ \A b \in Acts : act'[b].window_id = act[b].window_id
  /\ \A b \in Acts \ {a} : act'[b] = act[b]
  /\ \/ e.type = "SurfaceCreated" /\ act'[a].surface /\ act'[a].state = "created"
     \/ e.type = "SurfaceDestroyed" /\ ~act'[a].surface /\ act'[a].state = "created"
     \/ e.type = "CloseRequested" /\ act[a].surface /\ act' = act
     \/ /\ e.type = "CloseRequested" /\ ~act[a].surface /\ ~act'[a].surface
        /\ act'[a].state = "destroyed"
     \/ e.type \in {"WindowClosedFinishing", "WindowClosedKept"}
        /\ ~act[a].surface /\ ~act'[a].surface

LEMMA SendingStepInv ==
  ASSUME TypeInv, IdInv, OneInv, NEW a \in Acts, NEW e, SendingStep(a, e)
  PROVE  OneInv'
<1> DEFINE U == Unhandled
           N == Len(U)
           v == act[a].window_id
<1>1. U \in Seq(WindowEvent) /\ e \in WindowEvent
  BY UnhandledType DEF SendingStep
<1>2. U' = Append(U, e)
  BY DEF SendingStep, Unhandled, TypeInv, TypeOK
<1>3. /\ N \in Nat /\ N' = N + 1
      /\ \A i \in 1 .. N : U'[i] = U[i]
      /\ U'[N + 1] = e
  BY <1>1, <1>2
<1>4. \A b \in Acts : Live(b)' => Live(b)
  BY DEF SendingStep, Live
<1>5. \A w : ActivitiesOf(w)' \subseteq ActivitiesOf(w)
  BY <1>4 DEF ActivitiesOf, Live, SendingStep
<1>6. a \in ActivitiesOf(v) /\ \A b \in ActivitiesOf(v) : b = a
  BY DEF SendingStep, ActivitiesOf, OneInv, OneLive, Live
<1>7. BatchOnlyInEvents' /\ OneLive'
  BY <1>4 DEF OneInv, BatchOnlyInEvents, OneLive, SendingStep
<1>8. SurfaceMeansCreated'
  BY DEF OneInv, SurfaceMeansCreated, SendingStep
<1>9. EventsBelowNext'
  BY <1>3 DEF OneInv, EventsBelowNext, SendingStep, IdInv, IdsBelowNext
<1>10. LaunchIsClean'
  <2> SUFFICES ASSUME NEW w \in DOMAIN windows, ~windows[w].activity_launched
               PROVE  /\ ActivitiesOf(w)' = {}
                      /\ ~windows[w].native_window
                      /\ \A i \in 1 .. N' : U'[i].window_id # w
    BY DEF LaunchIsClean, SendingStep
  <2>1. /\ ActivitiesOf(w) = {} /\ ~windows[w].native_window
        /\ \A i \in 1 .. N : U[i].window_id # w
    BY DEF OneInv, LaunchIsClean
  <2>2. e.window_id # w
    BY <1>6, <2>1 DEF SendingStep
  <2> QED  BY <1>3, <1>5, <2>1, <2>2
<1>11. CloseIsLastWord'
  <2> SUFFICES ASSUME NEW w \in DOMAIN windows, NEW i \in 1 .. N', Is(U'[i], "CloseRequested", w)
               PROVE  \/ NativeBefore(U', windows[w].native_window, w, i)
                      \/ /\ ActivitiesOf(w)' = {}
                         /\ \A j \in (i + 1) .. N' : U'[j].window_id # w
    BY DEF CloseIsLastWord, SendingStep
  <2>1. CASE i \in 1 .. N
    <3>1. \/ NativeBefore(U, windows[w].native_window, w, i)
          \/ ActivitiesOf(w) = {} /\ \A j \in (i + 1) .. N : U[j].window_id # w
      BY <1>3, <2>1 DEF OneInv, CloseIsLastWord
    <3>2. CASE NativeBefore(U, windows[w].native_window, w, i)
      BY <1>1, <1>2, <2>1, <3>2, NativeAppend
    <3>3. CASE ActivitiesOf(w) = {} /\ \A j \in (i + 1) .. N : U[j].window_id # w
      <4>1. e.window_id # w
        BY <1>6, <3>3 DEF SendingStep
      <4> QED  BY <1>3, <1>5, <3>3, <4>1
    <3> QED  BY <3>1, <3>2, <3>3
  <2>2. CASE i = N + 1
    <3>1. w = v /\ e.type = "CloseRequested"
      BY <1>3, <2>2 DEF Is, SendingStep
    <3>2. CASE act[a].surface
      <4>1. NativeBefore(U, windows[w].native_window, w, N + 1)
        BY <1>6, <3>1, <3>2 DEF OneInv, NativeWindowFollowsSurface
      <4> QED  BY <1>1, <1>2, <1>3, <2>2, <4>1, NativeAppend
    <3>3. CASE act'[a].state = "destroyed"
      <4>1. ActivitiesOf(w)' = {}
        BY <1>5, <1>6, <3>1, <3>3 DEF ActivitiesOf
      <4> QED  BY <1>3, <2>2, <4>1
    <3> QED  BY <3>1, <3>2, <3>3 DEF SendingStep
  <2> QED  BY <1>3, <2>1, <2>2
<1>12. NativeWindowFollowsSurface'
  <2> SUFFICES ASSUME NEW w \in DOMAIN windows
               PROVE  NativeBefore(U', windows[w].native_window, w, N' + 1)
                        <=> \E b \in ActivitiesOf(w)' : act'[b].surface
    BY DEF NativeWindowFollowsSurface, SendingStep
  <2> DEFINE native == NativeBefore(U, windows[w].native_window, w, N + 1)
  <2>1. NativeBefore(U', windows[w].native_window, w, N' + 1)
          <=> Is(e, "SurfaceCreated", w) \/ (native /\ ~Is(e, "SurfaceDestroyed", w))
    <3>1. U' = Append(U, e) /\ N' + 1 = Len(U) + 2
      BY <1>2, <1>3
    <3> QED  BY <1>1, <3>1, NativeAppendLast
  <2>2. native <=> \E b \in ActivitiesOf(w) : act[b].surface
    BY DEF OneInv, NativeWindowFollowsSurface
  <2>3. CASE w # v
    <3>1. ~Is(e, "SurfaceCreated", w) /\ ~Is(e, "SurfaceDestroyed", w)
      BY <2>3 DEF Is, SendingStep
    <3>2. \A b \in ActivitiesOf(w) \cup ActivitiesOf(w)' : b \in Acts \ {a}
      BY <1>5, <2>3 DEF ActivitiesOf
    <3>3. ActivitiesOf(w)' = ActivitiesOf(w) /\ \A b \in ActivitiesOf(w) : act'[b] = act[b]
      BY <3>2 DEF ActivitiesOf, SendingStep
    <3> QED  BY <2>1, <2>2, <3>1, <3>3
  <2>4. CASE w = v
    <3>1. (\E b \in ActivitiesOf(w) : act[b].surface) <=> act[a].surface
      BY <1>6, <2>4
    <3>2. (\E b \in ActivitiesOf(w)' : act'[b].surface) <=> act'[a].surface
      <4>1. act'[a].surface => a \in ActivitiesOf(w)'
        BY <1>8, <2>4 DEF SurfaceMeansCreated, ActivitiesOf, SendingStep
      <4> QED  BY <1>5, <1>6, <2>4, <4>1
    <3>3. Is(e, "SurfaceCreated", w) <=> e.type = "SurfaceCreated"
      BY <2>4 DEF Is, SendingStep
    <3>4. Is(e, "SurfaceDestroyed", w) <=> e.type = "SurfaceDestroyed"
      BY <2>4 DEF Is, SendingStep
    <3> QED  BY <2>1, <2>2, <3>1, <3>2, <3>3, <3>4 DEF SendingStep
  <2> QED  BY <2>3, <2>4
<1> QED  BY <1>7, <1>8, <1>9, <1>10, <1>11, <1>12 DEF OneInv

(* Steps in which the compositor handles the oldest event.                 *)
HandlingStep(e) ==
  /\ phase = "events" /\ batch # << >> /\ e = Head(batch)
  /\ batch' = Tail(batch)
  /\ UNCHANGED <<phase, channel, next_id, act>>
  /\ \A w \in DOMAIN windows' :
       /\ w \in DOMAIN windows
       /\ windows'[w].native_window <=>
            \/ Is(e, "SurfaceCreated", w)
            \/ windows[w].native_window /\ ~Is(e, "SurfaceDestroyed", w)
       /\ ~windows'[w].activity_launched =>
            \/ ~windows[w].activity_launched
            \/ Is(e, "CloseRequested", w) /\ ~windows[w].native_window

LEMMA HandlingStepInv ==
  ASSUME TypeInv, OneInv, NEW e, HandlingStep(e)
  PROVE  OneInv'
<1> DEFINE U == Unhandled
           N == Len(U)
<1>1. U \in Seq(WindowEvent) /\ U # << >> /\ U[1] = e /\ U' = Tail(U)
  BY DEF HandlingStep, Unhandled, TypeInv, TypeOK
<1>2. /\ N \in Nat \ {0} /\ N' = N - 1
      /\ \A i \in 1 .. N' : U'[i] = U[i + 1]
  BY <1>1
<1>3. \A w : ActivitiesOf(w)' = ActivitiesOf(w)
  BY DEF HandlingStep, ActivitiesOf
<1>4. ASSUME NEW w \in DOMAIN windows', NEW i \in 1 .. N
      PROVE  NativeBefore(U', windows'[w].native_window, w, i)
               <=> NativeBefore(U, windows[w].native_window, w, i + 1)
  BY <1>1, NativeTail DEF HandlingStep
<1>5. BatchOnlyInEvents' /\ OneLive' /\ SurfaceMeansCreated'
  BY DEF OneInv, BatchOnlyInEvents, OneLive, SurfaceMeansCreated, HandlingStep, Live
<1>6. EventsBelowNext'
  BY <1>2 DEF OneInv, EventsBelowNext, HandlingStep
<1>7. CloseIsLastWord'
  <2> SUFFICES ASSUME NEW w \in DOMAIN windows', NEW i \in 1 .. N',
                      Is(U'[i], "CloseRequested", w)
               PROVE  \/ NativeBefore(U', windows'[w].native_window, w, i)
                      \/ /\ ActivitiesOf(w)' = {}
                         /\ \A j \in (i + 1) .. N' : U'[j].window_id # w
    BY DEF CloseIsLastWord
  <2>1. w \in DOMAIN windows /\ i + 1 \in 1 .. N /\ Is(U[i + 1], "CloseRequested", w)
    BY <1>2 DEF HandlingStep
  <2>2. CASE NativeBefore(U, windows[w].native_window, w, i + 1)
    BY <1>2, <1>4, <2>2
  <2>3. CASE /\ ActivitiesOf(w) = {}
             /\ \A j \in (i + 2) .. N : U[j].window_id # w
    <3>1. \A j \in (i + 1) .. N' : j + 1 \in (i + 2) .. N /\ U'[j] = U[j + 1]
      BY <1>2
    <3> QED  BY <1>3, <2>3, <3>1
  <2>4. i + 1 + 1 = i + 2
    OBVIOUS
  <2> QED  BY <2>1, <2>2, <2>3, <2>4 DEF OneInv, CloseIsLastWord
<1>8. LaunchIsClean'
  <2> SUFFICES ASSUME NEW w \in DOMAIN windows', ~windows'[w].activity_launched
               PROVE  /\ ActivitiesOf(w)' = {}
                      /\ ~windows'[w].native_window
                      /\ \A i \in 1 .. N' : U'[i].window_id # w
    BY DEF LaunchIsClean
  <2>1. CASE ~windows[w].activity_launched
    <3>1. /\ ActivitiesOf(w) = {} /\ ~windows[w].native_window
          /\ \A i \in 1 .. N : U[i].window_id # w
      BY <2>1 DEF OneInv, LaunchIsClean, HandlingStep
    <3>2. ~Is(e, "SurfaceCreated", w)
      BY <1>1, <1>2, <3>1 DEF Is
    <3> QED  BY <1>2, <1>3, <3>1, <3>2 DEF HandlingStep
  <2>2. CASE Is(e, "CloseRequested", w) /\ ~windows[w].native_window
    <3>1. ~NativeBefore(U, windows[w].native_window, w, 1)
      BY <2>2 DEF NativeBefore
    <3>2. ActivitiesOf(w) = {} /\ \A j \in 2 .. N : U[j].window_id # w
      BY <1>1, <1>2, <2>2, <3>1 DEF OneInv, CloseIsLastWord, HandlingStep
    <3>3. ~Is(e, "SurfaceCreated", w)
      BY <2>2 DEF Is
    <3>4. \A i \in 1 .. N' : i + 1 \in 2 .. N /\ U'[i] = U[i + 1]
      BY <1>2
    <3> QED  BY <1>3, <2>2, <3>2, <3>3, <3>4 DEF HandlingStep
  <2> QED  BY <2>1, <2>2 DEF HandlingStep
<1>9. NativeWindowFollowsSurface'
  <2> SUFFICES ASSUME NEW w \in DOMAIN windows'
               PROVE  NativeBefore(U', windows'[w].native_window, w, N' + 1)
                        <=> \E a \in ActivitiesOf(w)' : act'[a].surface
    BY DEF NativeWindowFollowsSurface
  <2>1. NativeBefore(U', windows'[w].native_window, w, N)
          <=> NativeBefore(U, windows[w].native_window, w, N + 1)
    BY <1>2, <1>4
  <2>2. NativeBefore(U, windows[w].native_window, w, N + 1)
          <=> \E a \in ActivitiesOf(w) : act[a].surface
    BY DEF OneInv, NativeWindowFollowsSurface, HandlingStep
  <2> QED  BY <1>2, <1>3, <2>1, <2>2 DEF HandlingStep
<1> QED  BY <1>5, <1>6, <1>7, <1>8, <1>9 DEF OneInv

LEMMA NewWindowInv ==
  ASSUME TypeInv, IdInv, OneInv, NEW s \in Surfaces, new_window(s)
  PROVE  OneInv'
<1> DEFINE U == Unhandled
<1>1. /\ U' = U /\ UNCHANGED <<phase, batch, act>>
      /\ next_id \in Nat /\ next_id' = next_id + 1
  BY DEF new_window, Unhandled, androidVars, TypeInv, TypeOK, WindowIds
<1>2. /\ DOMAIN windows' = DOMAIN windows \cup {next_id}
      /\ \A w \in DOMAIN windows : windows'[w] = windows[w]
      /\ ~windows'[next_id].activity_launched /\ ~windows'[next_id].native_window
  BY DEF new_window, Put, IdInv, IdsBelowNext, TypeInv, TypeOK, IsMap, WindowIds
<1>3. \A a \in Acts : act[a].window_id \in Nat /\ act[a].window_id < next_id
  BY DEF TypeInv, TypeOK, ActivityRecord, WindowIds, IdInv, IdsBelowNext
<1>4. \A i \in 1 .. Len(U) : U[i].window_id \in Nat /\ U[i].window_id < next_id
  <2>1. \A i \in 1 .. Len(U) : U[i] \in WindowEvent
    BY UnhandledType
  <2> QED  BY <2>1 DEF OneInv, EventsBelowNext, WindowEvent, WindowIds
<1>5. \A w : ActivitiesOf(w)' = ActivitiesOf(w)
  BY <1>1 DEF ActivitiesOf
<1>6. ActivitiesOf(next_id) = {} /\ \A i \in 1 .. Len(U) : U[i].window_id # next_id
  BY <1>1, <1>3, <1>4 DEF ActivitiesOf
<1>7. BatchOnlyInEvents' /\ OneLive' /\ SurfaceMeansCreated' /\ EventsBelowNext'
  BY <1>1, <1>4 DEF OneInv, BatchOnlyInEvents, OneLive, SurfaceMeansCreated, EventsBelowNext, Live
<1>8. CloseIsLastWord'
  BY <1>1, <1>2, <1>5, <1>6 DEF OneInv, CloseIsLastWord, Is
<1>9. LaunchIsClean'
  BY <1>1, <1>2, <1>5, <1>6 DEF OneInv, LaunchIsClean
<1>10. NativeWindowFollowsSurface'
  <2>1. Len(U) + 1 - 1 = Len(U)
    BY UnhandledType
  <2>2. ~NativeBefore(U, windows'[next_id].native_window, next_id, Len(U) + 1)
    BY <1>2, <1>6, <2>1 DEF NativeBefore, Is
  <2> QED  BY <1>1, <1>2, <1>5, <1>6, <2>2 DEF OneInv, NativeWindowFollowsSurface
<1> QED  BY <1>7, <1>8, <1>9, <1>10 DEF OneInv

LEMMA LaunchInv ==
  ASSUME TypeInv, IdInv, OneInv, NEW w \in DOMAIN windows, NEW a \in Acts, launch_activity(w, a)
  PROVE  OneInv'
<1> DEFINE U == Unhandled
<1>0. /\ windows' = [windows EXCEPT ![w].activity_launched = TRUE]
      /\ act[a].state = "unused"
      /\ \/ act' = [act EXCEPT ![a].state = "starting", ![a].window_id = w]
         \/ act' = [act EXCEPT ![a].state = "destroyed", ![a].window_id = w]
  BY DEF launch_activity
<1>1. U' = U /\ UNCHANGED <<phase, batch, next_id>>
  BY DEF launch_activity, Unhandled
<1>2. /\ DOMAIN windows' = DOMAIN windows
      /\ \A v \in DOMAIN windows :
           /\ windows'[v].native_window = windows[v].native_window
           /\ v # w => windows'[v].activity_launched = windows[v].activity_launched
      /\ windows'[w].activity_launched
  <2>1. windows \in [DOMAIN windows -> WindowState]
    BY DEF TypeInv, TypeOK, IsMap
  <2>2. windows' = [windows EXCEPT ![w].activity_launched = TRUE]
    BY <1>0
  <2> QED  BY <2>1, <2>2 DEF WindowState
<1>3. ActivitiesOf(w) = {}
  BY DEF OneInv, LaunchIsClean, launch_activity, LaunchPending
<1>4. \A b \in Acts : act'[b].surface = act[b].surface
  <2>1. act \in [Acts -> ActivityRecord]
    BY DEF TypeInv, TypeOK
  <2> QED  BY <1>0, <2>1 DEF ActivityRecord
<1>5. \A b \in Acts \ {a} : act'[b] = act[b]
  BY <1>0 DEF TypeInv, TypeOK
<1>6. /\ ~Live(a) /\ ~act[a].surface
      /\ act'[a].window_id = w
      /\ act'[a].state = "starting" \/ act'[a].state = "destroyed"
  <2>1. act \in [Acts -> ActivityRecord]
    BY DEF TypeInv, TypeOK
  <2>2. act'[a].window_id = w /\ (act'[a].state = "starting" \/ act'[a].state = "destroyed")
    BY <1>0, <2>1 DEF ActivityRecord
  <2> QED  BY <1>0, <2>2 DEF Live, OneInv, SurfaceMeansCreated
<1>7. \A v : v # w => ActivitiesOf(v)' = ActivitiesOf(v)
  BY <1>5, <1>6 DEF ActivitiesOf, Live
<1>8. BatchOnlyInEvents' /\ EventsBelowNext' /\ SurfaceMeansCreated'
  BY <1>1, <1>4, <1>5, <1>6 DEF OneInv, BatchOnlyInEvents, EventsBelowNext, SurfaceMeansCreated
<1>9. OneLive'
  BY <1>3, <1>5, <1>6 DEF OneInv, OneLive, Live, ActivitiesOf
<1>10. LaunchIsClean'
  BY <1>1, <1>2, <1>7 DEF OneInv, LaunchIsClean
<1>11. \A i \in 1 .. Len(U) : U[i].window_id # w
  BY DEF OneInv, LaunchIsClean, launch_activity, LaunchPending
<1>12. CloseIsLastWord'
  BY <1>1, <1>2, <1>7, <1>11 DEF OneInv, CloseIsLastWord, Is
<1>13. \A v : (\E b \in ActivitiesOf(v) : act[b].surface)'
                <=> \E b \in ActivitiesOf(v) : act[b].surface
  BY <1>4, <1>5, <1>6 DEF ActivitiesOf, Live
<1>14. NativeWindowFollowsSurface'
  BY <1>1, <1>2, <1>13 DEF OneInv, NativeWindowFollowsSurface
<1> QED  BY <1>8, <1>9, <1>10, <1>12, <1>14 DEF OneInv

-----------------------------------------------------------------------------
(* Every step is of one of these kinds.                                    *)

LEMMA InitOneInv == Init => OneInv
  BY DEF Init, InitWithFirstId, OneInv, BatchOnlyInEvents, EventsBelowNext, OneLive, Live,
         SurfaceMeansCreated, CloseIsLastWord, LaunchIsClean, NativeWindowFollowsSurface,
         Unhandled

LEMMA CompositorOneInv ==
  ASSUME TypeInv, IdInv, OneInv, dispatch_wayland \/ Timer
  PROVE  OneInv'
<1> USE DEF Goto, androidVars
<1>0. act \in [Acts -> ActivityRecord] /\ SurfaceMeansCreated /\ BatchOnlyInEvents
  BY DEF TypeInv, TypeOK, OneInv
<1>1. ASSUME UNCHANGED <<batch, channel, next_id, act>>, BatchOnlyInEvents',
             \A w \in DOMAIN windows' :
               /\ w \in DOMAIN windows
               /\ windows'[w].native_window = windows[w].native_window
               /\ windows'[w].activity_launched = windows[w].activity_launched
      PROVE  OneInv'
  <2>1. Unhandled' = Unhandled
    BY <1>1 DEF Unhandled
  <2> QED  BY <1>0, <1>1, <2>1, QuietStep DEF SurfaceMeansCreated, Live
<1>2. ASSUME AdoptDone \/ LaunchDone \/ EventsDone \/ DispatchDone PROVE OneInv'
  BY <1>0, <1>1, <1>2 DEF AdoptDone, LaunchDone, EventsDone, DispatchDone, BatchOnlyInEvents
<1>3. CASE CollectEvents
  <2>1. Unhandled' = Unhandled
    BY <1>0, <1>3 DEF CollectEvents, Unhandled, BatchOnlyInEvents, TypeInv, TypeOK
  <2> QED  BY <1>0, <1>3, <2>1, QuietStep
           DEF CollectEvents, BatchOnlyInEvents, SurfaceMeansCreated, Live
<1>4. ASSUME NEW s \in Surfaces, finish_destroyed(s) PROVE OneInv'
  BY <1>0, <1>1, <1>4 DEF finish_destroyed, remove_window, Drop, BatchOnlyInEvents
<1>5. ASSUME NEW w \in DOMAIN windows, CreatedTimeout(w) \/ CloseTimeout(w) PROVE OneInv'
  <2>1. \A v \in DOMAIN windows : windows[v] \in WindowState
    BY DEF TypeInv, TypeOK, IsMap
  <2>2. /\ DOMAIN windows' = DOMAIN windows
        /\ \A v \in DOMAIN windows :
             /\ windows'[v].native_window = windows[v].native_window
             /\ windows'[v].activity_launched = windows[v].activity_launched
    BY <1>5, <2>1 DEF CreatedTimeout, CloseTimeout, WindowState
  <2> QED  BY <1>0, <1>1, <1>5, <2>2 DEF CreatedTimeout, CloseTimeout, BatchOnlyInEvents
<1>6. CASE \/ HandleSurfaceCreated \/ HandleSurfaceDestroyed
           \/ HandleCloseRequested \/ HandleWindowClosed
  <2> DEFINE e == Head(batch)
  <2>1. \A w \in DOMAIN windows : windows[w] \in WindowState
    BY DEF TypeInv, TypeOK, IsMap
  <2>2. CASE HandleSurfaceCreated
    BY <2>1, <2>2, HandlingStepInv
    DEF HandleSurfaceCreated, NextEvent, HandlingStep, Is, WindowState
  <2>3. CASE HandleSurfaceDestroyed
    BY <2>1, <2>3, HandlingStepInv
    DEF HandleSurfaceDestroyed, NextEvent, HandlingStep, Is, WindowState
  <2>4. CASE HandleCloseRequested
    BY <2>1, <2>4, HandlingStepInv
    DEF HandleCloseRequested, PrepareRelaunch, NextEvent, HandlingStep, Is, WindowState
  <2>5. CASE HandleWindowClosed
    BY <2>1, <2>5, HandlingStepInv
    DEF HandleWindowClosed, remove_window, Drop, NextEvent, HandlingStep, Is
  <2> QED  BY <1>6, <2>2, <2>3, <2>4, <2>5
<1> QED
  BY <1>2, <1>3, <1>4, <1>5, <1>6, NewWindowInv, LaunchInv DEF dispatch_wayland, Timer

LEMMA UiThreadOneInv ==
  ASSUME TypeInv, IdInv, OneInv, UiThread
  PROVE  OneInv'
<1> USE DEF compositorVars
<1>1. PICK a \in Acts :
        \/ surfaceCreated(a) \/ surfaceDestroyed(a) \/ BackPressed(a) \/ RemoveTask(a)
        \/ onCreate(a) \/ RunFinish(a) \/ onDestroy(a) \/ onDestroyKept(a)
  BY DEF UiThread
<1>2. /\ \A b \in Acts : act'[b].window_id = act[b].window_id
      /\ \A b \in Acts \ {a} : act'[b] = act[b]
  BY <1>1, CallbackChanges
<1>3. act \in [Acts -> ActivityRecord] /\ UsedHasWindow
  BY DEF TypeInv, TypeOK
<1>4. SurfaceMeansCreated /\ BatchOnlyInEvents
  BY DEF OneInv
<1>5. CASE onCreate(a) \/ RemoveTask(a) \/ RunFinish(a)
  <2>1. UNCHANGED <<phase, batch, channel, next_id, windows>>
    BY <1>5 DEF onCreate, RemoveTask, RunFinish
  <2>2. /\ act'[a].surface = act[a].surface
        /\ Live(a)' => Live(a)
        /\ act[a].surface => act'[a].state = "created"
    BY <1>3, <1>4, <1>5
    DEF onCreate, RemoveTask, RunFinish, ActivityRecord, Live, SurfaceMeansCreated
  <2>3. Unhandled' = Unhandled /\ BatchOnlyInEvents'
    BY <1>4, <2>1 DEF Unhandled, BatchOnlyInEvents
  <2> QED  BY <1>2, <1>4, <2>1, <2>2, <2>3, QuietStep DEF SurfaceMeansCreated, Live
<1>6. ASSUME NEW t \in EventTypes, send_event(t, act[a].window_id), act[a].state = "created"
      PROVE  \E e \in WindowEvent : /\ e.type = t /\ e.window_id = act[a].window_id
                                    /\ channel' = Append(channel, e)
  BY <1>3, <1>6 DEF send_event, WindowEvent, UsedHasWindow
<1>7. CASE surfaceCreated(a)
  <2>1. act'[a].surface /\ act'[a].state = "created"
    BY <1>3, <1>7 DEF surfaceCreated, ActivityRecord
  <2> QED  BY <1>2, <1>6, <1>7, <2>1, SendingStepInv
           DEF surfaceCreated, EventTypes, SendingStep, Live
<1>8. CASE surfaceDestroyed(a)
  <2>1. ~act'[a].surface /\ act'[a].state = "created"
    BY <1>3, <1>8 DEF surfaceDestroyed, ActivityRecord
  <2> QED  BY <1>2, <1>6, <1>8, <2>1, SendingStepInv
           DEF surfaceDestroyed, EventTypes, SendingStep, Live
<1>9. CASE BackPressed(a)
  BY <1>2, <1>6, <1>9, SendingStepInv DEF BackPressed, EventTypes, SendingStep, Live
<1>10. CASE onDestroy(a)
  <2>1. ~act'[a].surface /\ act'[a].state = "destroyed"
    BY <1>3, <1>10 DEF onDestroy, ActivityRecord
  <2>2. PICK t \in {"WindowClosedFinishing", "CloseRequested"} : send_event(t, act[a].window_id)
    BY <1>10 DEF onDestroy, ReportDestroyed
  <2> QED  BY <1>2, <1>6, <1>10, <2>1, <2>2, SendingStepInv
           DEF onDestroy, EventTypes, SendingStep, Live
<1>11. CASE onDestroyKept(a)
  <2>1. ~act'[a].surface
    BY <1>3, <1>11 DEF onDestroyKept, ActivityRecord
  <2>2. PICK t \in {"WindowClosedFinishing", "WindowClosedKept"} :
          send_event(t, act[a].window_id)
    BY <1>11 DEF onDestroyKept, ReportDestroyed
  <2> QED  BY <1>2, <1>6, <1>11, <2>1, <2>2, SendingStepInv
           DEF onDestroyKept, EventTypes, SendingStep, Live
<1> QED  BY <1>1, <1>5, <1>7, <1>8, <1>9, <1>10, <1>11

LEMMA NextOneInv == TypeInv /\ IdInv /\ OneInv /\ [Next]_vars => OneInv'
<1>1. ASSUME TypeInv, OneInv, UNCHANGED <<compositorVars, channel, act>> PROVE OneInv'
  BY <1>1, QuietStep
  DEF compositorVars, Unhandled, OneInv, BatchOnlyInEvents, SurfaceMeansCreated, Live
<1>2. Client \/ UNCHANGED vars => UNCHANGED <<compositorVars, channel, act>>
  BY DEF Client, new_toplevel, commit, toplevel_destroyed, vars, androidVars
<1> QED  BY <1>1, <1>2, CompositorOneInv, UiThreadOneInv DEF Next

LEMMA OneInvariant == Spec => [](TypeInv /\ IdInv /\ OneInv)
  BY InitTypeInv, InitIdInv, InitOneInv, NextTypeInv, NextIdInv, NextOneInv, PTL DEF Spec

(* No window ever has two Activities, and a window that waits for a launch *)
(* or a relaunch has none, for any number of windows, Activities and user  *)
(* actions and whatever the order of callbacks and compositor steps.       *)
THEOREM OneActivity == Spec => []OneActivityPerWindow
<1>1. TypeInv /\ IdInv /\ OneInv => OneActivityPerWindow
  BY DEF OneInv, OneLive, LaunchIsClean, OneActivityPerWindow, ActivitiesOf, Live
<1> QED  BY <1>1, OneInvariant, PTL

(* Once the events under way are handled, the native window the compositor *)
(* renders to is the surface of the one live Activity.                     *)
THEOREM NativeFollows == Spec => []NativeWindowFollowsSurface
<1>1. TypeInv /\ IdInv /\ OneInv => NativeWindowFollowsSurface
  BY DEF OneInv
<1> QED  BY <1>1, OneInvariant, PTL

-----------------------------------------------------------------------------
(* The registry.  onCreate overwrites and onDestroy removes an entry       *)
(* without looking at it: that is right because the entry can only be its  *)
(* own.                                                                    *)
CreatedIsRegistered ==
  \A a \in Acts : act[a].state = "created" =>
    act[a].window_id \in DOMAIN instances /\ instances[act[a].window_id] = a

LEMMA NextRegistered ==
  ASSUME TypeInv, IdInv, OneInv, CreatedIsRegistered, [Next]_vars
  PROVE  CreatedIsRegistered'
<1>0. act \in [Acts -> ActivityRecord]
  BY DEF TypeInv, TypeOK
<1>1. ASSUME UNCHANGED instances,
             \A a \in Acts : act'[a].state = "created" =>
               act[a].state = "created" /\ act'[a].window_id = act[a].window_id
      PROVE  CreatedIsRegistered'
  BY <1>1 DEF CreatedIsRegistered
<1>2. CASE dispatch_wayland \/ Timer
  <2>1. UNCHANGED instances
    BY <1>2 DEF dispatch_wayland, Timer, new_window, finish_destroyed, launch_activity, AdoptDone,
                LaunchDone, CollectEvents, EventsDone, DispatchDone, HandleSurfaceCreated,
                HandleSurfaceDestroyed, HandleCloseRequested, HandleWindowClosed,
                CreatedTimeout, CloseTimeout
  <2>2. \/ UNCHANGED act
        \/ \E a \in Acts, w \in DOMAIN windows :
             \/ act' = [act EXCEPT ![a].state = "starting", ![a].window_id = w]
             \/ act' = [act EXCEPT ![a].state = "destroyed", ![a].window_id = w]
    BY <1>2 DEF dispatch_wayland, Timer, new_window, finish_destroyed, launch_activity, AdoptDone,
                LaunchDone, CollectEvents, EventsDone, DispatchDone, HandleSurfaceCreated,
                HandleSurfaceDestroyed, HandleCloseRequested, HandleWindowClosed,
                CreatedTimeout, CloseTimeout, androidVars
  <2> QED  BY <1>0, <1>1, <2>1, <2>2 DEF ActivityRecord
<1>3. CASE Client \/ UNCHANGED vars
  BY <1>1, <1>3 DEF Client, new_toplevel, commit, toplevel_destroyed, vars, androidVars
<1>4. CASE UiThread
  <2>1. PICK a \in Acts :
          \/ surfaceCreated(a) \/ surfaceDestroyed(a) \/ BackPressed(a) \/ RemoveTask(a)
          \/ onCreate(a) \/ RunFinish(a) \/ onDestroy(a) \/ onDestroyKept(a)
    BY <1>4 DEF UiThread
  <2>2. /\ \A b \in Acts : act'[b].window_id = act[b].window_id
        /\ \A b \in Acts \ {a} : act'[b] = act[b]
    BY <2>1, CallbackChanges
  <2>3. \A b \in Acts \ {a} :
          act[b].state = "created" /\ Live(a) => act[b].window_id # act[a].window_id
    BY DEF OneInv, OneLive, Live
  <2>4. CASE onCreate(a)
    BY <2>2, <2>3, <2>4 DEF onCreate, Put, CreatedIsRegistered, Live
  <2>5. CASE onDestroy(a) \/ onDestroyKept(a)
    <3>1. instances' = Drop(instances, act[a].window_id) /\ Live(a) /\ act'[a].state # "created"
      BY <1>0, <2>5 DEF onDestroy, onDestroyKept, Unregister, Live, ActivityRecord
    <3> QED  BY <2>2, <2>3, <3>1 DEF Drop, CreatedIsRegistered
  <2>6. CASE \/ surfaceCreated(a) \/ surfaceDestroyed(a) \/ BackPressed(a) \/ RemoveTask(a)
             \/ RunFinish(a)
    <3>1. UNCHANGED instances
      BY <2>6 DEF surfaceCreated, surfaceDestroyed, BackPressed, RemoveTask, RunFinish
    <3>2. act'[a].state = "created" => act[a].state = "created"
      BY <1>0, <2>6 DEF surfaceCreated, surfaceDestroyed, BackPressed, RemoveTask, RunFinish,
                        ActivityRecord
    <3> QED  BY <1>1, <2>2, <3>1, <3>2
  <2> QED  BY <2>1, <2>4, <2>5, <2>6
<1> QED  BY <1>2, <1>3, <1>4 DEF Next

(* WaylandWindowActivity.instances holds exactly the Activities between    *)
(* onCreate and onDestroy, each under its own window id.                   *)
THEOREM RegistryIsExact == Spec => []RegisteredIsCreated
<1>1. Init => CreatedIsRegistered
  BY DEF Init, InitWithFirstId, CreatedIsRegistered
<1>2. TypeInv /\ IdInv /\ OneInv /\ CreatedIsRegistered => RegisteredIsCreated
  BY DEF IdInv, RegistryNamesCreated, CreatedIsRegistered, RegisteredIsCreated
<1> QED  BY <1>1, <1>2, OneInvariant, NextRegistered, PTL DEF Spec
=============================================================================

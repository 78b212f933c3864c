--------------------------- MODULE WindowLifecycle ---------------------------
(***************************************************************************)
(* The life of a window: a Wayland surface (xdg toplevel or layer surface) *)
(* of a client, the entry the compositor keeps for it in                   *)
(* WindowManager.windows, and the Android Activity that shows it.          *)
(*                                                                         *)
(* Three parties run concurrently.                                         *)
(*   - The compositor thread repeats dispatch_wayland.  Its steps are the  *)
(*     phases adopt, launch, finish, events, dispatch, in that order.      *)
(*   - The Android UI thread runs the callbacks of the Activities and the  *)
(*     finish requests posted to it.  It talks to the compositor through   *)
(*     the channel of WindowEvents.                                        *)
(*   - Clients create, commit and destroy surfaces; their requests take    *)
(*     effect inside the phase dispatch.                                   *)
(*                                                                         *)
(* Left out: the sizes carried by SurfaceChanged, rendering, input and     *)
(* the other payload events, which do not touch this state.                *)
(***************************************************************************)
EXTENDS Naturals, Sequences

CONSTANTS
  Surfaces,       \* surfaces the clients may create
  Layers,         \* those of them that are layer surfaces
  Acts,           \* Activity records (Android task tokens) available
  MaxUserActions, \* bound on what the user and the system do to Activities
  LaunchMayFail   \* may Android drop a startActivity call?

ASSUME LayersAssumption  == Layers \subseteq Surfaces
ASSUME ActionsAssumption == MaxUserActions \in Nat
ASSUME LaunchAssumption  == LaunchMayFail \in BOOLEAN

VARIABLES
  \* The clients and the protocol objects of the compositor
  surface,    \* unborn, live or gone, for each surface
  geometry,   \* has the surface committed a geometry or a buffer?
  close_sent, \* has the compositor sent the close request to the client?
  pending,    \* State.pending_toplevels and State.pending_layer_surfaces
  destroyed,  \* State.destroyed_toplevels and State.destroyed_layer_surfaces
  \* The compositor thread
  phase,      \* where it is in dispatch_wayland
  windows,    \* WindowManager.windows: window id -> WindowState
  next_id,    \* WindowManager.next_id
  batch,      \* events collected by process_window_events, not yet handled
  \* Shared
  channel,    \* EVENT_SENDER / event_rx
  instances,  \* WaylandWindowActivity.instances: window id -> Activity
  \* Android
  act,        \* the Activity records
  posted,     \* finish requests posted to the UI thread
  actions     \* number of user and system actions so far

clientVars     == <<surface, geometry, close_sent, pending, destroyed>>
compositorVars == <<phase, windows, next_id, batch>>
androidVars    == <<act, posted, actions>>
vars == <<clientVars, compositorVars, channel, instances, androidVars>>

-----------------------------------------------------------------------------
WindowIds == Nat \ {0}

(* WindowLifecycle and the part of WindowState that decides about it.      *)
(* close_pending is close_pending_since: none, or Some(t) with t at most   *)
(* (recent) or more than (elapsed) 500 ms ago.  old stands for             *)
(* created_time.elapsed() > 500 ms.                                        *)
WindowState ==
  [surface_kind       : Surfaces,
   activity_launched  : BOOLEAN,
   native_window      : BOOLEAN,
   close_pending      : {"none", "recent", "elapsed"},
   old                : BOOLEAN]

EventTypes ==
  {"SurfaceCreated", "SurfaceDestroyed", "CloseRequested",
   "WindowClosedFinishing", "WindowClosedKept"}

WindowEvent == [type : EventTypes, window_id : WindowIds]

(* An Activity record.  A record whose state is dormant has lost its       *)
(* Activity object to the system and may get a new one later.              *)
ActivityRecord ==
  [window_id : WindowIds \cup {0},
   state     : {"unused", "starting", "created", "dormant", "destroyed"},
   surface   : BOOLEAN,     \* its SurfaceView has a surface
   closing   : BOOLEAN,     \* closingByCompositor
   finishing : BOOLEAN]     \* Android is finishing it (isFinishing)

Phases == {"adopt", "launch", "finish", "events", "dispatch"}

(* A HashMap with keys in K and values in V.                               *)
IsMap(f, K, V) == DOMAIN f \subseteq K /\ f \in [DOMAIN f -> V]

TypeOK ==
  /\ surface \in [Surfaces -> {"unborn", "live", "gone"}]
  /\ geometry \in [Surfaces -> BOOLEAN]
  /\ close_sent \in [Surfaces -> BOOLEAN]
  /\ pending \subseteq Surfaces
  /\ destroyed \subseteq Surfaces
  /\ phase \in Phases
  /\ IsMap(windows, WindowIds, WindowState)
  /\ next_id \in WindowIds
  /\ batch \in Seq(WindowEvent)
  /\ channel \in Seq(WindowEvent)
  /\ IsMap(instances, WindowIds, Acts)
  /\ act \in [Acts -> ActivityRecord]
  /\ posted \in [Acts -> {"none", "current", "stale"}]
  /\ actions \in 0 .. MaxUserActions

InitWithFirstId(id) ==
  /\ surface = [s \in Surfaces |-> "unborn"]
  /\ geometry = [s \in Surfaces |-> FALSE]
  /\ close_sent = [s \in Surfaces |-> FALSE]
  /\ pending = {}
  /\ destroyed = {}
  /\ phase = "adopt"
  /\ windows = << >>
  /\ next_id = id
  /\ batch = << >>
  /\ channel = << >>
  /\ instances = << >>
  /\ act = [a \in Acts |-> [window_id |-> 0, state |-> "unused", surface |-> FALSE,
                            closing |-> FALSE, finishing |-> FALSE]]
  /\ posted = [a \in Acts |-> "none"]
  /\ actions = 0

Init_IdsFromZero == InitWithFirstId(0)   \* mutant
Init == InitWithFirstId(1)

-----------------------------------------------------------------------------
(* HashMap::insert and HashMap::remove.                                    *)
Put(f, k, v) == [x \in DOMAIN f \cup {k} |-> IF x = k THEN v ELSE f[x]]
Drop(f, k)   == [x \in DOMAIN f \ {k} |-> f[x]]

send_event_NewestFirst(type, w) ==   \* mutant
  channel' = <<[type |-> type, window_id |-> w]>> \o channel
send_event(type, w) == channel' = Append(channel, [type |-> type, window_id |-> w])

Goto(from, to) == phase = from /\ phase' = to

-----------------------------------------------------------------------------
(* The compositor thread.                                                  *)

(* new_window, for one surface drained from the pending lists.  The order  *)
(* within a list only decides the ids and is left open.                    *)
new_window(s) ==
  /\ phase = "adopt"
  /\ s \in pending
  /\ pending' = pending \ {s}
  /\ windows' = Put(windows, next_id,
                    [surface_kind |-> s, activity_launched |-> FALSE,
                     native_window |-> FALSE, close_pending |-> "none",
                     old |-> FALSE])
  /\ next_id' = next_id + 1
  /\ UNCHANGED <<surface, geometry, close_sent, destroyed, phase, batch,
                 channel, instances, androidVars>>

AdoptDone ==
  /\ pending = {}
  /\ Goto("adopt", "launch")
  /\ UNCHANGED <<clientVars, windows, next_id, batch, channel, instances, androidVars>>

(* The filters of launch_pending_activities: not launched yet, no close    *)
(* request under way, and a size is known or waiting for it timed out.     *)
LaunchPending_Always(w) ==   \* mutant
  geometry[windows[w].surface_kind] \/ windows[w].old
LaunchPending(w) ==
  /\ ~windows[w].activity_launched
  /\ windows[w].close_pending # "recent"
  /\ \/ /\ windows[w].surface_kind \notin Layers
        /\ geometry[windows[w].surface_kind]
     \/ windows[w].old

(* A launch takes a record.  If Android refuses it, which is only logged,  *)
(* the record has ended before it began, and activity_launched stays set.  *)
launch_activity(w, a) ==
  /\ phase = "launch"
  /\ LaunchPending(w)
  /\ windows' = [windows EXCEPT ![w].activity_launched = TRUE]
  /\ act[a].state = "unused"
  /\ \/ act' = [act EXCEPT ![a].state = "starting", ![a].window_id = w]
     \/ /\ LaunchMayFail
        /\ act' = [act EXCEPT ![a].state = "destroyed", ![a].window_id = w]
  /\ UNCHANGED <<clientVars, phase, next_id, batch, channel, instances,
                 posted, actions>>

LaunchDone ==
  /\ \A w \in DOMAIN windows : ~LaunchPending(w)
  /\ Goto("launch", "finish")
  /\ UNCHANGED <<clientVars, windows, next_id, batch, channel, instances, androidVars>>

(* The two 500 ms timeouts of launch_pending_activities.                   *)
CreatedTimeout(w) ==
  /\ ~windows[w].old
  /\ windows' = [windows EXCEPT ![w].old = TRUE]
  /\ UNCHANGED <<clientVars, phase, next_id, batch, channel, instances, androidVars>>

CloseTimeout(w) ==
  /\ windows[w].close_pending = "recent"
  /\ windows' = [windows EXCEPT ![w].close_pending = "elapsed"]
  /\ UNCHANGED <<clientVars, phase, next_id, batch, channel, instances, androidVars>>

(* finishByWindowId: post a finish to the registered Activity, if any.     *)
finishByWindowId(w) ==
  posted' = IF w \in DOMAIN instances
            THEN [posted EXCEPT ![instances[w]] = "current"]
            ELSE posted

remove_window_Kept(w) == w \in WindowIds /\ UNCHANGED windows   \* mutant
remove_window(w) == windows' = Drop(windows, w)

(* One surface drained from the destroyed lists: find_window_id,           *)
(* finish_activity and remove_window.                                      *)
finish_destroyed(s) ==
  /\ phase = "finish"
  /\ s \in destroyed
  /\ destroyed' = destroyed \ {s}
  /\ \/ \E w \in DOMAIN windows :
          /\ windows[w].surface_kind = s
          /\ finishByWindowId(w)
          /\ remove_window(w)
     \/ /\ \A w \in DOMAIN windows : windows[w].surface_kind # s
        /\ UNCHANGED <<windows, posted>>
  /\ UNCHANGED <<surface, geometry, close_sent, pending, phase, next_id, batch,
                 channel, instances, act, actions>>

(* process_window_events first collects every event sent so far.           *)
CollectEvents ==
  /\ destroyed = {}
  /\ Goto("finish", "events")
  /\ batch' = channel
  /\ channel' = << >>
  /\ UNCHANGED <<clientVars, windows, next_id, instances, androidVars>>

(* The handling of one event.  An event for a window that is no longer     *)
(* there is dropped.                                                       *)
NextEvent(type) == phase = "events" /\ batch # << >> /\ Head(batch).type = type

HandleSurfaceCreated ==
  /\ NextEvent("SurfaceCreated")
  /\ LET w == Head(batch).window_id
     IN  windows' = IF w \in DOMAIN windows
                    THEN [windows EXCEPT ![w].native_window = TRUE]
                    ELSE windows
  /\ batch' = Tail(batch)
  /\ UNCHANGED <<clientVars, phase, next_id, channel, instances, androidVars>>

HandleSurfaceDestroyed ==
  /\ NextEvent("SurfaceDestroyed")
  /\ LET w == Head(batch).window_id
     IN  windows' = IF w \in DOMAIN windows
                    THEN [windows EXCEPT ![w].native_window = FALSE]
                    ELSE windows
  /\ batch' = Tail(batch)
  /\ UNCHANGED <<clientVars, phase, next_id, channel, instances, androidVars>>

(* Without a native window the Activity is taken to be gone, and a         *)
(* relaunch is prepared in case the client refuses to close.               *)
PrepareRelaunch_Always(w) ==   \* mutant
  [windows EXCEPT ![w].close_pending = "recent", ![w].activity_launched = FALSE]
PrepareRelaunch_FlagKept(w) ==   \* mutant
  [windows EXCEPT ![w].close_pending = "recent"]
PrepareRelaunch(w) ==
  IF windows[w].native_window
  THEN windows
  ELSE [windows EXCEPT ![w].close_pending = "recent", ![w].activity_launched = FALSE]

HandleCloseRequested ==
  /\ NextEvent("CloseRequested")
  /\ LET w == Head(batch).window_id
     IN  \/ /\ w \in DOMAIN windows
            /\ close_sent' = [close_sent EXCEPT ![windows[w].surface_kind] = TRUE]
            /\ windows' = PrepareRelaunch(w)
         \/ /\ w \notin DOMAIN windows
            /\ UNCHANGED <<close_sent, windows>>
  /\ batch' = Tail(batch)
  /\ UNCHANGED <<surface, geometry, pending, destroyed, phase, next_id, channel,
                 instances, androidVars>>

HandleWindowClosed_DropsKept ==   \* mutant
  /\ NextEvent("WindowClosedFinishing") \/ NextEvent("WindowClosedKept")
  /\ remove_window(Head(batch).window_id)
  /\ batch' = Tail(batch)
  /\ UNCHANGED <<clientVars, phase, next_id, channel, instances, androidVars>>
HandleWindowClosed ==
  /\ \/ /\ NextEvent("WindowClosedFinishing")
        /\ remove_window(Head(batch).window_id)
     \/ /\ NextEvent("WindowClosedKept")
        /\ UNCHANGED windows
  /\ batch' = Tail(batch)
  /\ UNCHANGED <<clientVars, phase, next_id, channel, instances, androidVars>>

EventsDone ==
  /\ batch = << >>
  /\ Goto("events", "dispatch")
  /\ UNCHANGED <<clientVars, windows, next_id, batch, channel, instances, androidVars>>

(* The requests of clients, as dispatch_clients handles them.              *)
new_toplevel(s) ==
  /\ phase = "dispatch"
  /\ surface[s] = "unborn"
  /\ surface' = [surface EXCEPT ![s] = "live"]
  /\ pending' = pending \cup {s}
  /\ UNCHANGED <<geometry, close_sent, destroyed, compositorVars, channel,
                 instances, androidVars>>

commit(s) ==
  /\ phase = "dispatch"
  /\ surface[s] = "live"
  /\ ~geometry[s]
  /\ geometry' = [geometry EXCEPT ![s] = TRUE]
  /\ UNCHANGED <<surface, close_sent, pending, destroyed, compositorVars,
                 channel, instances, androidVars>>

(* Whether the protocol library forgets the geometry with the role is left *)
(* open.                                                                   *)
toplevel_destroyed(s) ==
  /\ phase = "dispatch"
  /\ surface[s] = "live"
  /\ \/ UNCHANGED geometry
     \/ geometry[s] /\ geometry' = [geometry EXCEPT ![s] = FALSE]
  /\ surface' = [surface EXCEPT ![s] = "gone"]
  /\ destroyed' = destroyed \cup {s}
  /\ UNCHANGED <<close_sent, pending, compositorVars, channel,
                 instances, androidVars>>

DispatchDone ==
  /\ Goto("dispatch", "adopt")
  /\ UNCHANGED <<clientVars, windows, next_id, batch, channel, instances, androidVars>>

-----------------------------------------------------------------------------
(* The Android UI thread.                                                  *)

(* onCreate registers the Activity, also when Android restores a dormant   *)
(* record.                                                                 *)
onCreate(a) ==
  /\ act[a].state \in {"starting", "dormant"}
  /\ act' = [act EXCEPT ![a].state = "created"]
  /\ instances' = Put(instances, act[a].window_id, a)
  /\ UNCHANGED <<clientVars, compositorVars, channel, posted, actions>>

surfaceCreated(a) ==
  /\ act[a].state = "created"
  /\ ~act[a].surface
  /\ ~act[a].finishing
  /\ act' = [act EXCEPT ![a].surface = TRUE]
  /\ send_event("SurfaceCreated", act[a].window_id)
  /\ UNCHANGED <<clientVars, compositorVars, instances, posted, actions>>

(* The surface goes away when the Activity is stopped: because it is being *)
(* finished, or because the user or the system hides it.                   *)
surfaceDestroyed(a) ==
  /\ act[a].state = "created"
  /\ act[a].surface
  /\ \/ act[a].finishing /\ UNCHANGED actions
     \/ actions < MaxUserActions /\ actions' = actions + 1
  /\ act' = [act EXCEPT ![a].surface = FALSE]
  /\ send_event("SurfaceDestroyed", act[a].window_id)
  /\ UNCHANGED <<clientVars, compositorVars, instances, posted>>

(* The back button reaches finish(), which only asks the client to close.  *)
(* Only a visible Activity has the focus that delivers the button.         *)
BackPressed(a) ==
  /\ act[a].state = "created"
  /\ act[a].surface
  /\ ~act[a].finishing
  /\ actions < MaxUserActions
  /\ actions' = actions + 1
  /\ send_event("CloseRequested", act[a].window_id)
  /\ UNCHANGED <<clientVars, compositorVars, instances, act, posted>>

(* The close button of a desktop window and a swipe in the list of recent  *)
(* tasks bypass finish().  A record without an Activity object just goes.  *)
RemoveTask(a) ==
  /\ actions < MaxUserActions
  /\ actions' = actions + 1
  /\ ~act[a].finishing
  /\ \/ /\ act[a].state \in {"starting", "created"}
        /\ act' = [act EXCEPT ![a].finishing = TRUE]
     \/ /\ act[a].state = "dormant"
        /\ act' = [act EXCEPT ![a].state = "destroyed"]
  /\ UNCHANGED <<clientVars, compositorVars, channel, instances, posted>>

(* The posted finish sets closingByCompositor and really finishes.  If the *)
(* Activity object it was meant for is gone, it still finishes the record. *)
RunFinish_FlagAfterFinish(a) ==   \* mutant
  /\ posted[a] # "none"
  /\ posted' = [posted EXCEPT ![a] = "none"]
  /\ act' = [act EXCEPT ![a].closing = act[a].state = "created"]
  /\ send_event("CloseRequested", act[a].window_id)
  /\ UNCHANGED <<clientVars, compositorVars, instances, actions>>
RunFinish(a) ==
  /\ posted[a] # "none"
  /\ posted' = [posted EXCEPT ![a] = "none"]
  /\ act' = CASE act[a].state = "created" ->
                   [act EXCEPT ![a].finishing = TRUE,
                               ![a].closing = @ \/ posted[a] = "current"]
              [] act[a].state = "dormant" ->
                   [act EXCEPT ![a].state = "destroyed"]
              [] OTHER -> act
  /\ UNCHANGED <<clientVars, compositorVars, channel, instances, actions>>

(* The two halves of onDestroy: leave the registry, report to the          *)
(* compositor.                                                             *)
Unregister_Missing(a) == a \in Acts /\ UNCHANGED instances   \* mutant
Unregister(a) == instances' = Drop(instances, act[a].window_id)

ReportDestroyed_AsKept(a) == send_event("WindowClosedKept", act[a].window_id)   \* mutant
ReportDestroyed(a) ==
  send_event(CASE act[a].closing -> "WindowClosedFinishing"
               [] ~act[a].closing /\ act[a].finishing -> "CloseRequested"
               [] OTHER -> "WindowClosedKept",
             act[a].window_id)

(* onDestroy of an Activity that Android finishes.                         *)
onDestroy(a) ==
  /\ act[a].state = "created"
  /\ act[a].finishing
  /\ ~act[a].surface
  /\ act' = [act EXCEPT ![a].state = "destroyed"]
  /\ Unregister(a)
  /\ ReportDestroyed(a)
  /\ UNCHANGED <<clientVars, compositorVars, posted, actions>>

(* onDestroy for a configuration change or under memory pressure: the      *)
(* record stays.                                                           *)
onDestroyKept(a) ==
  /\ act[a].state = "created"
  /\ ~act[a].finishing
  /\ ~act[a].surface
  /\ actions < MaxUserActions
  /\ actions' = actions + 1
  /\ act' = [act EXCEPT ![a].state = "dormant"]
  /\ Unregister(a)
  /\ posted' = [posted EXCEPT ![a] = IF @ = "current" THEN "stale" ELSE @]
  /\ ReportDestroyed(a)
  /\ UNCHANGED <<clientVars, compositorVars>>

-----------------------------------------------------------------------------
dispatch_wayland ==
  \/ \E s \in Surfaces : new_window(s) \/ finish_destroyed(s)
  \/ \E w \in DOMAIN windows, a \in Acts : launch_activity(w, a)
  \/ AdoptDone \/ LaunchDone \/ CollectEvents \/ EventsDone \/ DispatchDone
  \/ HandleSurfaceCreated \/ HandleSurfaceDestroyed
  \/ HandleCloseRequested \/ HandleWindowClosed

Client == \E s \in Surfaces : new_toplevel(s) \/ commit(s) \/ toplevel_destroyed(s)

Timer == \E w \in DOMAIN windows : CreatedTimeout(w) \/ CloseTimeout(w)

UiThread ==
  \E a \in Acts :
    \/ onCreate(a) \/ surfaceCreated(a) \/ surfaceDestroyed(a)
    \/ BackPressed(a) \/ RemoveTask(a) \/ RunFinish(a)
    \/ onDestroy(a) \/ onDestroyKept(a)

Next == dispatch_wayland \/ Client \/ Timer \/ UiThread

Spec == Init /\ [][Next]_vars

(* The compositor loop never stops (poll has a timeout), clocks run, and   *)
(* Android completes what it started: creating a launched Activity and     *)
(* tearing down a finished one.  Users, clients and the restoring of       *)
(* dormant records owe nothing.                                            *)
UiProgress(a) ==
  \/ act[a].state = "starting" /\ onCreate(a)
  \/ act[a].finishing /\ surfaceDestroyed(a)
  \/ RunFinish(a)
  \/ onDestroy(a)

Fairness ==
  /\ WF_vars(dispatch_wayland)
  /\ WF_vars(Timer)
  /\ \A a \in Acts : WF_vars(UiProgress(a))

FairSpec == Spec /\ Fairness

-----------------------------------------------------------------------------
(* Activities that exist for window w, dormant ones included.              *)
ActivitiesOf(w) ==
  {a \in Acts : act[a].window_id = w /\ act[a].state \in {"starting", "created", "dormant"}}

(* The events that the compositor has not handled yet, oldest first.       *)
Unhandled == batch \o channel

Is(e, type, w) == e.type = type /\ e.window_id = w

(* What native_window of w will be before event i of q is handled, if it   *)
(* is n now.                                                               *)
NativeBefore(q, n, w, i) ==
  \/ \E j \in 1 .. (i - 1) :
       /\ Is(q[j], "SurfaceCreated", w)
       /\ \A k \in (j + 1) .. (i - 1) : ~Is(q[k], "SurfaceDestroyed", w)
  \/ n /\ \A k \in 1 .. (i - 1) : ~Is(q[k], "SurfaceDestroyed", w)

(* A window that waits for a (re)launch has no Activity, and no window     *)
(* ever has two.  The relaunch after CloseRequested relies on the order of *)
(* the events and on native_window being a sound sign of a lost Activity.  *)
OneActivityPerWindow ==
  \A w \in DOMAIN windows :
    /\ ~windows[w].activity_launched => ActivitiesOf(w) = {}
    /\ \A a, b \in ActivitiesOf(w) : a = b

(* instances names exactly the Activities between onCreate and onDestroy:  *)
(* the unconditional remove of onDestroy never drops another's entry.      *)
RegisteredIsCreated ==
  \A a \in Acts :
    act[a].state = "created" <=>
      \E w \in DOMAIN instances : instances[w] = a /\ act[a].window_id = w

(* The compositor tells an Activity to finish only for a removed window.   *)
(* So the removal on WindowClosed(is_finishing) never hits a live window.  *)
ClosingMeansRemoved ==
  \A a \in Acts :
    (act[a].closing \/ posted[a] # "none") => act[a].window_id \notin DOMAIN windows

(* Every live surface is managed by exactly one window or about to be, and *)
(* every window has a surface that is live or about to be torn down: no    *)
(* user action or lost Activity makes the compositor forget a client.      *)
LiveSurfaceManaged ==
  /\ \A s \in Surfaces : surface[s] = "live" =>
       \/ s \in pending
       \/ \E w \in DOMAIN windows : windows[w].surface_kind = s
  /\ \A w \in DOMAIN windows :
       LET s == windows[w].surface_kind
       IN  /\ s \notin pending
           /\ surface[s] = "live" \/ s \in destroyed
           /\ \A v \in DOMAIN windows : windows[v].surface_kind = s => v = w

(* The native window the compositor renders to is that of the Activity's   *)
(* current surface, once the events on their way have been handled.        *)
NativeWindowFollowsSurface ==
  \A w \in DOMAIN windows :
    NativeBefore(Unhandled, windows[w].native_window, w, Len(Unhandled) + 1)
      <=> \E a \in ActivitiesOf(w) : act[a].surface

(* The refinement of WindowSession.                                        *)
WindowsOf(s) == {w \in DOMAIN windows : windows[w].surface_kind = s}

Session ==
  INSTANCE WindowSession WITH
    stage <- [s \in Surfaces |->
                CASE WindowsOf(s) # {} -> "managed"
                  [] surface[s] = "unborn" \/ s \in pending -> "absent"
                  [] OTHER -> "retired"],
    shown_by <- [s \in Surfaces |-> UNION {ActivitiesOf(w) : w \in WindowsOf(s)}]

ImplementsSession == Session!Spec

-----------------------------------------------------------------------------
(* An Activity told to finish because its client destroyed the surface is  *)
(* eventually destroyed, whatever the system does to it meanwhile.         *)
PostedFinishEndsActivity ==
  \A a \in Acts : posted[a] # "none" ~> act[a].state = "destroyed"

(* Closing an Activity by the user reaches the client as a close request,  *)
(* unless the client is already gone.                                      *)
UserCloses(a) == act[a].state \in {"starting", "created"} /\ act[a].finishing /\ ~act[a].closing

UserCloseReachesClient ==
  \A a \in Acts, s \in Surfaces :
    (UserCloses(a) /\ act[a].window_id \in WindowsOf(s))
      ~> (close_sent[s] \/ surface[s] = "gone")

(* A client that refuses to close gets a new Activity, or at least Android *)
(* was asked for one: a launch it refuses is not repeated.                 *)
RefusedCloseRelaunches ==
  \A a \in Acts, s \in Surfaces :
    (UserCloses(a) /\ act[a].window_id \in WindowsOf(s))
      ~> \/ surface[s] = "gone"
         \/ \E b \in Acts \ {a} : act[b].window_id = act[a].window_id

(* PLAN.md: destroying the toplevel finishes the corresponding Activity.   *)
(* An Activity without a window is being finished or about to be.          *)
NoStrandedActivity ==
  \A a \in Acts :
    act[a].state = "created" /\ act[a].window_id \notin DOMAIN windows
      => act[a].finishing \/ posted[a] # "none"
=============================================================================

----------------------------- MODULE FramePacing -----------------------------
(***************************************************************************)
(* The way of one window's frames to the screen: the client commits a      *)
(* buffer and asks for a frame callback, the compositor thread renders and *)
(* answers, SurfaceFlinger completes the transactions it is given.         *)
(*                                                                         *)
(* The compositor sleeps in poll until the eventfd or a socket is readable *)
(* or a second has passed.  The callbacks it sends while rendering lie in  *)
(* a buffer until the flush of the next iteration, so every answer depends *)
(* on a later wake-up.                                                     *)
(*                                                                         *)
(* Left out: the debug switch to GLES, popups, and all geometry but the    *)
(* size of the buffer.                                                     *)
(***************************************************************************)
EXTENDS Naturals, Sequences

CONSTANTS
  Sizes,        \* sizes of buffers
  BackToShm,    \* may the client go from dmabuf buffers to shm buffers?
  ZeroCopy,     \* zero_copy_enabled, the switch of the debug screen
  MaxFrames,    \* bound on the frames the client commits
  MaxViewChanges,  \* bound on surfaces Android gives the window and their resizes
  MaxFailures   \* bound on failures of the graphics driver

ASSUME SizesAssumption  == Sizes # {} /\ 0 \notin Sizes
ASSUME SwitchAssumption == {BackToShm, ZeroCopy} \subseteq BOOLEAN
ASSUME BoundsAssumption == {MaxFrames, MaxViewChanges, MaxFailures} \subseteq Nat

VARIABLES
  \* The client
  socket,    \* commits sent and not yet read by the compositor
  frames,    \* number of commits so far
  callback,  \* where the client's outstanding frame callback is
  \* The compositor thread
  pc,        \* where it is in the poll loop
  content,   \* the buffer the surface has committed
  committed, \* is the surface in State.committed_surfaces?
  window,    \* the WindowState
  generation,\* number of AhbWindowSurfaces made so far
  shown,     \* the newest frame given to the current Android surface
  failures,  \* number of failures of the driver so far
  \* Shared
  wake,      \* is the eventfd readable?
  channel,   \* EVENT_SENDER / event_rx
  in_flight, \* the AhbWindowSurfaces whose frame_in_flight is true
  \* Android
  view,      \* state of the SurfaceView
  view_changes,\* number of surfaces and resizes it has had
  sending,   \* the UI thread has sent an event but not yet written the eventfd
  flying,    \* transactions SurfaceFlinger has not completed
  completing \* OnComplete has cleared its flag but not yet written the eventfd

clientVars     == <<socket, frames, callback>>
compositorVars == <<pc, content, committed, window, generation, shown, failures>>
uiVars         == <<view, view_changes, sending>>
flingerVars    == <<flying, completing>>
vars == <<clientVars, compositorVars, wake, channel, in_flight, uiVars, flingerVars>>

-----------------------------------------------------------------------------
(* An ahb buffer is a dmabuf that the GBM server has allocated and tracks. *)
Buffer == [kind : {"none", "dmabuf", "ahb", "shm"}, size : Sizes, frame : 0 .. MaxFrames]
Commit == [buffer : Buffer, callback : BOOLEAN]
NoAhb  == [generation |-> 0]

(* The render part of WindowState.  sized: size is not zero.  The size of  *)
(* an AHB surface is that of its target; 0: it has none.                   *)
AhbWindowSurface == [generation : Nat \ {0}, size : Sizes \cup {0}]
WindowState ==
  [native_window : BOOLEAN, sized : BOOLEAN, egl_surface : BOOLEAN,
   ahb_surface : AhbWindowSurface \cup {NoAhb}, needs_redraw : BOOLEAN,
   last_buffer_size : Sizes \cup {0}]

TypeOK ==
  /\ socket \in Seq(Commit)
  /\ frames \in 0 .. MaxFrames
  /\ callback \in {"none", "sent", "requested", "buffered"}
  /\ pc \in {"poll", "drain", "events", "dispatch", "flush", "render"}
  /\ content \in Buffer
  /\ committed \in BOOLEAN
  /\ window \in WindowState
  /\ generation \in Nat
  /\ shown \in 0 .. MaxFrames
  /\ failures \in 0 .. MaxFailures
  /\ wake \in BOOLEAN
  /\ channel \in Seq({"SurfaceCreated", "SurfaceChanged", "SurfaceDestroyed"})
  /\ in_flight \subseteq 1 .. generation
  /\ view \in {"none", "created", "changed"}
  /\ view_changes \in 0 .. MaxViewChanges
  /\ sending \in BOOLEAN
  /\ flying \in Seq(1 .. generation)
  /\ completing \in BOOLEAN

Init ==
  /\ socket = << >>
  /\ frames = 0
  /\ callback = "none"
  /\ pc = "poll"
  /\ content = [kind |-> "none", size |-> CHOOSE s \in Sizes : TRUE, frame |-> 0]
  /\ committed = FALSE
  /\ window = [native_window |-> FALSE, sized |-> FALSE, egl_surface |-> FALSE,
               ahb_surface |-> NoAhb, needs_redraw |-> TRUE, last_buffer_size |-> 0]
  /\ generation = 0
  /\ shown = 0
  /\ failures = 0
  /\ wake = FALSE
  /\ channel = << >>
  /\ in_flight = {}
  /\ view = "none"
  /\ view_changes = 0
  /\ sending = FALSE
  /\ flying = << >>
  /\ completing = FALSE

-----------------------------------------------------------------------------
(* The client.  It commits a new buffer, with or without a request for a   *)
(* callback, and has at most one request outstanding.                      *)
Newest == IF socket = << >> THEN content ELSE socket[Len(socket)].buffer

ClientCommit(kind, size, wants) ==
  /\ frames < MaxFrames
  /\ kind = "shm" => Newest.kind \notin {"dmabuf", "ahb"} \/ BackToShm
  /\ wants => callback = "none"
  /\ frames' = frames + 1
  /\ callback' = IF wants THEN "sent" ELSE callback
  /\ socket' = Append(socket, [buffer   |-> [kind |-> kind, size |-> size, frame |-> frames'],
                               callback |-> wants])
  /\ UNCHANGED <<compositorVars, wake, channel, in_flight, uiVars, flingerVars>>

-----------------------------------------------------------------------------
(* The loop of run_compositor_loop: poll, drain the eventfd, then one      *)
(* compositor_tick.                                                        *)
Poll ==
  /\ pc = "poll"
  /\ wake \/ socket # << >>
  /\ pc' = IF wake THEN "drain" ELSE "events"
  /\ UNCHANGED <<clientVars, content, committed, window, generation, shown, failures,
                 wake, channel, in_flight, uiVars, flingerVars>>

PollTimeout ==
  /\ pc = "poll"
  /\ ~wake
  /\ socket = << >>
  /\ pc' = "events"
  /\ UNCHANGED <<clientVars, content, committed, window, generation, shown, failures,
                 wake, channel, in_flight, uiVars, flingerVars>>

drain_wake ==
  /\ pc = "drain"
  /\ pc' = "events"
  /\ wake' = FALSE
  /\ UNCHANGED <<clientVars, content, committed, window, generation, shown, failures,
                 channel, in_flight, uiVars, flingerVars>>

(* process_window_events, one event.                                       *)
AfterDestroyed(w) ==
  [w EXCEPT !.native_window = FALSE, !.egl_surface = FALSE, !.ahb_surface = NoAhb]

HandleEvent ==
  /\ pc = "events"
  /\ channel # << >>
  /\ channel' = Tail(channel)
  /\ \/ /\ Head(channel) = "SurfaceCreated"
        /\ window' = [window EXCEPT !.native_window = TRUE]
        /\ UNCHANGED shown
     \/ /\ Head(channel) = "SurfaceChanged"
        /\ window' = [window EXCEPT !.sized = TRUE,
                        !.needs_redraw = @ \/ window.ahb_surface = NoAhb]
        /\ UNCHANGED shown
     \/ /\ Head(channel) = "SurfaceDestroyed"
        /\ window' = AfterDestroyed(window)
        /\ shown' = 0
  /\ UNCHANGED <<clientVars, pc, content, committed, generation, failures, wake,
                 in_flight, uiVars, flingerVars>>

EventsDone ==
  /\ pc = "events"
  /\ channel = << >>
  /\ pc' = "dispatch"
  /\ UNCHANGED <<clientVars, content, committed, window, generation, shown, failures,
                 wake, channel, in_flight, uiVars, flingerVars>>

(* dispatch_clients: CompositorHandler::commit for every request read.     *)
commit ==
  /\ pc = "dispatch"
  /\ socket # << >>
  /\ socket' = Tail(socket)
  /\ content' = Head(socket).buffer
  /\ callback' = IF Head(socket).callback THEN "requested" ELSE callback
  /\ committed' = TRUE
  /\ wake' = TRUE
  /\ UNCHANGED <<frames, pc, window, generation, shown, failures, channel, in_flight,
                 uiVars, flingerVars>>

(* It reads until nothing is left; later requests wait for the next tick.  *)
DispatchDone ==
  /\ pc = "dispatch"
  /\ socket = << >>
  /\ pc' = "flush"
  /\ UNCHANGED <<clientVars, content, committed, window, generation, shown, failures,
                 wake, channel, in_flight, uiVars, flingerVars>>

flush_clients ==
  /\ pc = "flush"
  /\ pc' = "render"
  /\ callback' = IF callback = "buffered" THEN "none" ELSE callback
  /\ UNCHANGED <<socket, frames, content, committed, window, generation, shown, failures,
                 wake, channel, in_flight, uiVars, flingerVars>>

-----------------------------------------------------------------------------
(* render_activity_windows.  The variables it leaves alone:                *)
RenderFrame == UNCHANGED <<socket, frames, content, wake, channel, uiVars, completing>>

send_frames(answer) ==
  callback' = IF answer /\ callback = "requested" THEN "buffered" ELSE callback

(* A window with neither kind of surface gets its callbacks right away.    *)
Blank_Never == FALSE   \* mutant
Blank == ~window.egl_surface /\ window.ahb_surface = NoAhb

Marked == [window EXCEPT !.needs_redraw = @ \/ committed]

Renderable(w) == (w.egl_surface \/ w.ahb_surface # NoAhb \/ w.native_window) /\ w.sized

SkipWindow ==
  /\ ~Renderable(Marked)
  /\ window' = Marked
  /\ send_frames(Blank)
  /\ UNCHANGED <<generation, shown, failures, in_flight, flying>>

DriverFails == failures < MaxFailures /\ failures' = failures + 1
DriverWorks == UNCHANGED failures

(* render_gles_window: the EGL surface is made for the first frame of a    *)
(* window that has no AHB surface.  Every iteration draws and answers.     *)
WantsEgl_DespiteAhb(w) ==   \* mutant
  ~w.egl_surface /\ w.native_window /\ w.needs_redraw
WantsEgl(w) ==
  ~w.egl_surface /\ w.ahb_surface = NoAhb /\ w.native_window /\ w.needs_redraw

render_gles_window(w) ==
  /\ \/ /\ w.egl_surface \/ WantsEgl(w)
        /\ window' = [w EXCEPT !.egl_surface = TRUE]
        /\ shown' = content.frame
        /\ send_frames(TRUE)
     \/ /\ ~w.egl_surface /\ ~WantsEgl(w)
        /\ window' = w
        /\ UNCHANGED shown
        /\ send_frames(Blank)
  /\ UNCHANGED <<in_flight, flying>>

(* The EGL surface cannot be made or bound, and nothing is drawn.          *)
render_gles_fails(w) ==
  /\ w.egl_surface \/ WantsEgl(w)
  /\ DriverFails
  /\ window' \in {w, [w EXCEPT !.egl_surface = TRUE]}
  /\ send_frames(Blank)
  /\ UNCHANGED <<shown, in_flight, flying>>

(* The AHB surface for the size of the buffer: none is missing, it is      *)
(* created (the EGL surface has to go), or it is replaced because the      *)
(* buffer has another size.  A new one has a flag of its own.  One without *)
(* a target is left as it is.                                              *)
FittingAhb(w) == w.ahb_surface # NoAhb /\ w.ahb_surface.size \in {0, content.size}

WithNewAhb_OldFlag(w, size) ==   \* mutant
  [w EXCEPT !.egl_surface = FALSE, !.needs_redraw = TRUE,
            !.ahb_surface = [generation |-> generation, size |-> size]]
WithNewAhb(w, size) ==
  [w EXCEPT !.egl_surface = FALSE, !.needs_redraw = TRUE,
            !.ahb_surface = [generation |-> generation + 1, size |-> size]]

WithoutAhb(w) == [w EXCEPT !.egl_surface = FALSE, !.ahb_surface = NoAhb]

(* Blit and present_buffer, unless the previous frame of this AHB surface  *)
(* is still in flight.  Only then is the callback held back.               *)
MayPresent(w) == w.needs_redraw /\ w.ahb_surface.generation \notin in_flight

present_buffer(w) ==
  /\ in_flight' = in_flight \cup {w.ahb_surface.generation}
  /\ flying' = Append(flying, w.ahb_surface.generation)
  /\ shown' = content.frame
  /\ window' = [w EXCEPT !.needs_redraw = FALSE, !.last_buffer_size = content.size]
  /\ send_frames(TRUE)

NothingNew(w) ==
  /\ ~w.needs_redraw
  /\ window' = w
  /\ send_frames(TRUE)
  /\ UNCHANGED <<shown, in_flight, flying>>

HasTarget(w) == w.ahb_surface.size # 0

BlitAndPresent(w) ==
  \/ HasTarget(w) /\ NothingNew(w) /\ DriverWorks
  \/ HasTarget(w) /\ MayPresent(w) /\ DriverWorks /\ present_buffer(w)
  \/ HasTarget(w) /\ MayPresent(w) /\ DriverFails /\ render_gles_window(w)
  \/ /\ ~HasTarget(w) \/ (w.needs_redraw /\ ~MayPresent(w))
     /\ DriverWorks
     /\ render_gles_window(w)

BlitPath(w) ==
  \/ /\ FittingAhb(w)
     /\ BlitAndPresent(w)
     /\ UNCHANGED generation
  \/ /\ ~FittingAhb(w)
     /\ generation' = generation + 1
     /\ BlitAndPresent(WithNewAhb(w, content.size))
  \/ /\ ~FittingAhb(w)
     /\ DriverFails
     /\ render_gles_window(WithoutAhb(w))
     /\ UNCHANGED generation

(* Zero-copy: a buffer of the server that has the size of the last frame   *)
(* is presented itself, on an AHB surface without a target if there is     *)
(* none.  While a frame is in flight, and where that surface cannot be     *)
(* made, the blit path follows.                                            *)
Direct(w) == ZeroCopy /\ content.kind = "ahb" /\ content.size = w.last_buffer_size

WithDirectAhb(w) == IF w.ahb_surface = NoAhb THEN WithNewAhb(w, 0) ELSE w

DirectPath(w) ==
  \/ /\ generation' = IF w.ahb_surface = NoAhb THEN generation + 1 ELSE generation
     /\ DriverWorks
     /\ NothingNew(WithDirectAhb(w)) \/
          (MayPresent(WithDirectAhb(w)) /\ present_buffer(WithDirectAhb(w)))
  \/ /\ w.ahb_surface = NoAhb \/ (w.needs_redraw /\ ~MayPresent(w))
     /\ BlitPath(w)

try_render_vulkan_dmabuf(w) == IF Direct(w) THEN DirectPath(w) ELSE BlitPath(w)

RenderWindow ==
  /\ Renderable(Marked)
  /\ \/ /\ content.kind \in {"dmabuf", "ahb"}
        /\ try_render_vulkan_dmabuf(Marked)
     \/ /\ content.kind \notin {"dmabuf", "ahb"}
        /\ \/ render_gles_window(Marked) /\ DriverWorks
           \/ render_gles_fails(Marked)
        /\ UNCHANGED generation

render_activity_windows ==
  /\ pc = "render"
  /\ pc' = "poll"
  /\ committed' = FALSE
  /\ SkipWindow \/ RenderWindow
  /\ RenderFrame

-----------------------------------------------------------------------------
(* The SurfaceView's callbacks on the UI thread: send_event, then the      *)
(* eventfd.                                                                *)
SendEvent(event) ==
  /\ ~sending
  /\ sending' = TRUE
  /\ channel' = Append(channel, event)
  /\ UNCHANGED <<clientVars, compositorVars, wake, in_flight, flingerVars>>

surfaceCreated ==
  /\ view = "none"
  /\ view_changes < MaxViewChanges
  /\ view_changes' = view_changes + 1
  /\ view' = "created"
  /\ SendEvent("SurfaceCreated")

(* Also called again when the surface changes its size.                    *)
surfaceChanged ==
  /\ view' = "changed"
  /\ \/ view = "created" /\ UNCHANGED view_changes
     \/ /\ view = "changed"
        /\ view_changes < MaxViewChanges
        /\ view_changes' = view_changes + 1
  /\ SendEvent("SurfaceChanged")

surfaceDestroyed ==
  /\ view = "changed"
  /\ view' = "none"
  /\ SendEvent("SurfaceDestroyed")
  /\ UNCHANGED view_changes

WakeAfterSend ==
  /\ sending
  /\ sending' = FALSE
  /\ wake' = TRUE
  /\ UNCHANGED <<clientVars, compositorVars, channel, in_flight, view, view_changes, flingerVars>>

(* on_complete_callback: clear the flag of the AHB surface the transaction *)
(* was for, then write the eventfd.                                        *)
ClearedFlag_Current(g) ==   \* mutant
  in_flight \ {g, window.ahb_surface.generation}
ClearedFlag(g) == in_flight \ {g}

OnComplete ==
  /\ flying # << >>
  /\ ~completing
  /\ in_flight' = ClearedFlag(Head(flying))
  /\ flying' = Tail(flying)
  /\ completing' = TRUE
  /\ UNCHANGED <<clientVars, compositorVars, wake, channel, uiVars>>

WakeAfterComplete_Missing ==   \* mutant
  /\ completing
  /\ completing' = FALSE
  /\ UNCHANGED <<clientVars, compositorVars, wake, channel, in_flight, uiVars, flying>>
WakeAfterComplete ==
  /\ completing
  /\ completing' = FALSE
  /\ wake' = TRUE
  /\ UNCHANGED <<clientVars, compositorVars, channel, in_flight, uiVars, flying>>

-----------------------------------------------------------------------------
Client ==
  \E kind \in {"dmabuf", "ahb", "shm"}, size \in Sizes, wants \in BOOLEAN :
    ClientCommit(kind, size, wants)

Tick ==
  \/ drain_wake \/ HandleEvent \/ EventsDone
  \/ commit \/ DispatchDone \/ flush_clients \/ render_activity_windows

UiThread == surfaceCreated \/ surfaceChanged \/ surfaceDestroyed \/ WakeAfterSend

SurfaceFlinger == OnComplete \/ WakeAfterComplete

Next == Client \/ Poll \/ PollTimeout \/ Tick \/ UiThread \/ SurfaceFlinger

(* The compositor thread runs, SurfaceFlinger completes transactions, and  *)
(* Android tells the size of every surface it creates.  The timeout of     *)
(* poll is relied upon only to try again after a driver failure, which     *)
(* does not wake the loop.                                                 *)
Fairness ==
  /\ WF_vars(Poll)
  /\ WF_vars(PollTimeout /\ failures > 0)
  /\ WF_vars(Tick)
  /\ WF_vars(WakeAfterSend)
  /\ WF_vars(view = "created" /\ surfaceChanged)
  /\ WF_vars(SurfaceFlinger)

Spec == Init /\ [][Next]_vars /\ Fairness

-----------------------------------------------------------------------------
(* An AHB surface has at most one frame in flight: its single buffer is    *)
(* not blitted to before SurfaceFlinger has taken the frame in it.  A late *)
(* OnComplete of an earlier AHB surface must not count for this one.       *)
OneFrameInFlight ==
  /\ \A i, j \in DOMAIN flying : flying[i] = flying[j] => i = j
  /\ \A i \in DOMAIN flying : flying[i] \in in_flight

(* The native window has one producer, EGL or a SurfaceControl, and none   *)
(* outlives it.                                                            *)
OneProducer ==
  /\ ~(window.egl_surface /\ window.ahb_surface # NoAhb)
  /\ window.egl_surface \/ window.ahb_surface # NoAhb => window.native_window

(* An AHB surface that zero-copy made has no target.  When the next buffer *)
(* needs one, the window is frozen until it gets another surface: nothing  *)
(* is drawn, so last_buffer_size keeps zero-copy from coming back.         *)
Frozen ==
  /\ window.ahb_surface # NoAhb
  /\ ~HasTarget(window)
  /\ content.kind # "ahb" \/ content.size # window.last_buffer_size

(* The newest frame reaches the screen, also on a new surface and when it  *)
(* was committed while another frame was in flight.  The wake-ups alone    *)
(* see to that: no frame waits for the timeout of poll.                    *)
NewestFrameShown ==
  \A n \in 1 .. MaxFrames :
    (content.frame = n /\ window.native_window)
      ~> (shown >= n \/ ~window.native_window \/ Frozen)

(* A frame callback is eventually answered, whatever happens to the        *)
(* window's surface.  render_activity_windows says why: clients block for  *)
(* ever "waiting for a frame callback that never comes".  The answer to a  *)
(* window that just lost its surface may stay in the buffer until poll     *)
(* times out.                                                              *)
FrameCallbackAnswered ==
  WF_vars(PollTimeout) => (callback # "none" ~> callback = "none")

(* The same, up to a window that zero-copy has frozen.                     *)
AnsweredUnlessFrozen ==
  WF_vars(PollTimeout) => (callback # "none" ~> (callback = "none" \/ Frozen))
=============================================================================
